------------------------- MODULE ServiceParts_proofs -------------------------
(***************************************************************************)
(* Proofs about the services of ServiceParts, for all values of their      *)
(* constants: for each component the invariant that is inductive, and then *)
(* the properties, of the composite specification that TLC checks.         *)
(***************************************************************************)
EXTENDS ServiceParts, SequenceTheorems, FiniteSetTheorems, TLAPS

-----------------------------------------------------------------------------
(* What the elements of a queue are known by                               *)

\* What the elements of a sequence are known by, those that have a name, and
\* that no two have it in common.
Keys(f, s) == {f[s[i]] : i \in {j \in DOMAIN s : s[j] \in DOMAIN f}}
Unlike(f, s) ==
  \A i, j \in DOMAIN s : s[i] \in DOMAIN f /\ s[j] \in DOMAIN f /\ f[s[i]] = f[s[j]] => i = j

LEMMA KeysMember ==
  ASSUME NEW f, NEW s, NEW k \in Keys(f, s)
  PROVE  \E i \in DOMAIN s : s[i] \in DOMAIN f /\ k = f[s[i]]
  BY DEF Keys

LEMMA KeysHas ==
  ASSUME NEW f, NEW s, NEW i \in DOMAIN s, s[i] \in DOMAIN f PROVE f[s[i]] \in Keys(f, s)
  BY DEF Keys

LEMMA KeysEmpty == ASSUME NEW f PROVE Keys(f, <<>>) = {} /\ Unlike(f, <<>>)
<1>1. DOMAIN << >> = {}
  BY EmptySeq, LenProperties
<1> QED
  BY <1>1, Zenon DEF Keys, Unlike

LEMMA KeysAppend ==
  ASSUME NEW S, NEW s \in Seq(S), NEW e \in S, NEW f
  PROVE  /\ Append(s, e) \in Seq(S)
         /\ e \in DOMAIN f =>
              /\ Keys(f, Append(s, e)) = Keys(f, s) \cup {f[e]}
              /\ Unlike(f, s) /\ f[e] \notin Keys(f, s) => Unlike(f, Append(s, e))
         /\ e \notin DOMAIN f =>
              /\ Keys(f, Append(s, e)) = Keys(f, s)
              /\ Unlike(f, s) => Unlike(f, Append(s, e))
<1>1. Append(s, e) \in Seq(S) /\ Len(Append(s, e)) = Len(s) + 1 /\ Append(s, e)[Len(s) + 1] = e
      /\ \A i \in 1..Len(s) : Append(s, e)[i] = s[i]
  BY AppendProperties
<1>2. Len(s) \in Nat /\ DOMAIN s = 1..Len(s) /\ DOMAIN Append(s, e) = 1..(Len(s) + 1)
  BY <1>1, LenProperties
<1>3. DOMAIN Append(s, e) = DOMAIN s \cup {Len(s) + 1} /\ Len(s) + 1 \notin DOMAIN s
      /\ \A i \in DOMAIN s : Append(s, e)[i] = s[i]
  BY <1>1, <1>2
<1> DEFINE t == Append(s, e)
<1>4. t[Len(s) + 1] = e /\ \A i \in DOMAIN s : t[i] = s[i]
  BY <1>1, <1>3
<1>5. DOMAIN t = DOMAIN s \cup {Len(s) + 1} /\ Len(s) + 1 \notin DOMAIN s
  BY <1>3
<1> HIDE DEF t
<1>6. ASSUME NEW k PROVE k \in Keys(f, t) <=> k \in Keys(f, s) \/ (e \in DOMAIN f /\ k = f[e])
  BY <1>4, <1>5 DEF Keys
<1>7. CASE e \in DOMAIN f
  <2>1. Keys(f, t) = Keys(f, s) \cup {f[e]}
    BY <1>6, <1>7, Zenon
  <2>2. ASSUME Unlike(f, s), f[e] \notin Keys(f, s) PROVE Unlike(f, t)
    <3>1. \A i \in DOMAIN s : s[i] \in DOMAIN f => f[s[i]] # f[e]
      BY <2>2, Zenon DEF Keys
    <3> QED
      BY <1>4, <1>5, <2>2, <3>1, Zenon DEF Unlike
  <2> QED
    BY <1>1, <1>7, <2>1, <2>2, Zenon DEF t
<1>8. CASE e \notin DOMAIN f
  <2>1. Keys(f, t) = Keys(f, s)
    BY <1>6, <1>8, Zenon
  <2>2. ASSUME Unlike(f, s) PROVE Unlike(f, t)
    BY <1>4, <1>5, <1>8, <2>2, Zenon DEF Unlike
  <2> QED
    BY <1>1, <1>8, <2>1, <2>2, Zenon DEF t
<1> QED
  BY <1>7, <1>8

LEMMA KeysTail ==
  ASSUME NEW S, NEW s \in Seq(S), s # <<>>, NEW f
  PROVE  /\ Head(s) \in S /\ Tail(s) \in Seq(S)
         /\ Unlike(f, s) => Unlike(f, Tail(s))
         /\ Head(s) \in DOMAIN f =>
              /\ Keys(f, s) = Keys(f, Tail(s)) \cup {f[Head(s)]}
              /\ Unlike(f, s) => f[Head(s)] \notin Keys(f, Tail(s))
         /\ Head(s) \notin DOMAIN f => Keys(f, s) = Keys(f, Tail(s))
<1>1. Head(s) \in S /\ Tail(s) \in Seq(S) /\ Len(Tail(s)) = Len(s) - 1 /\ Head(s) = s[1]
      /\ \A i \in 1..Len(Tail(s)) : Tail(s)[i] = s[i + 1]
  BY HeadTailProperties
<1>2. Len(s) \in Nat /\ Len(s) # 0 /\ DOMAIN s = 1..Len(s) /\ DOMAIN Tail(s) = 1..(Len(s) - 1)
  BY <1>1, LenProperties, EmptySeq
<1>3. /\ 1 \in DOMAIN s
      /\ \A i \in DOMAIN Tail(s) : i + 1 \in DOMAIN s /\ i + 1 # 1 /\ Tail(s)[i] = s[i + 1]
      /\ \A j \in DOMAIN s : j = 1 \/ \E i \in DOMAIN Tail(s) : j = i + 1
  <2>1. \A j \in DOMAIN s : j = 1 \/ (j - 1 \in DOMAIN Tail(s) /\ j = (j - 1) + 1)
    BY <1>2
  <2> QED
    BY <1>1, <1>2, <2>1
<1>4. \A i, j \in DOMAIN Tail(s) : i + 1 = j + 1 => i = j
  BY <1>2
<1>5. ASSUME NEW k
      PROVE  k \in Keys(f, s) <=> k \in Keys(f, Tail(s)) \/ (Head(s) \in DOMAIN f /\ k = f[Head(s)])
  BY <1>1, <1>3 DEF Keys
<1>6. ASSUME Unlike(f, s) PROVE Unlike(f, Tail(s))
  <2> SUFFICES ASSUME NEW i \in DOMAIN Tail(s), NEW j \in DOMAIN Tail(s), Tail(s)[i] \in DOMAIN f,
                      Tail(s)[j] \in DOMAIN f, f[Tail(s)[i]] = f[Tail(s)[j]]
               PROVE  i = j
    BY Zenon DEF Unlike
  <2>1. f[s[i + 1]] = f[s[j + 1]] /\ i + 1 \in DOMAIN s /\ j + 1 \in DOMAIN s
        /\ s[i + 1] \in DOMAIN f /\ s[j + 1] \in DOMAIN f
    BY <1>3, Zenon
  <2>2. i + 1 = j + 1
    BY <2>1, <1>6, Zenon DEF Unlike
  <2> QED
    BY <2>2, <1>4, Zenon
<1>7. ASSUME Unlike(f, s), Head(s) \in DOMAIN f PROVE f[Head(s)] \notin Keys(f, Tail(s))
  <2>1. \A i \in DOMAIN Tail(s) : Tail(s)[i] \in DOMAIN f => f[Tail(s)[i]] # f[Head(s)]
    BY <1>1, <1>3, <1>7, Zenon DEF Unlike
  <2> QED
    BY <2>1, Zenon DEF Keys
<1>8. Head(s) \in DOMAIN f => Keys(f, s) = Keys(f, Tail(s)) \cup {f[Head(s)]}
  BY <1>5, Zenon
<1>9. Head(s) \notin DOMAIN f => Keys(f, s) = Keys(f, Tail(s))
  BY <1>5, Zenon
<1> QED
  BY <1>1, <1>6, <1>7, <1>8, <1>9, Zenon

-----------------------------------------------------------------------------
(* Settings: but for the outdated ones, the application, the file and the   *)
(* screen on top have each setting as the user chose it.                   *)

SettingsWords == {"", "good", "bad"}
Cfgs == [pw : SettingsWords, markers : BOOLEAN]
SettingsNews == {<<"connected">>, <<"disconnected">>, <<"reconnecting">>, <<"prefs", "roster">>,
                 <<"prefs", "always">>}
SettingNames == {"markers", "mam", "remember"}
Agrees(s) == \A f \in SettingNames \ outdated : SE!Stands(s, f)
\* What t has agrees after the step.
WillAgree(t) ==
  \A f \in SettingNames \ outdated' : t[f] = settingsChosen'[f] \/ (f = "mam" /\ t[f] \in overruled')

SettingsTypes ==
  /\ scene \in {"Login", "Chat"} /\ typed \in SettingsWords
  /\ ticked \in BOOLEAN
  /\ app \in SE!Settings /\ file \in SE!Settings /\ copies \in Seq(SE!Settings)
  /\ creds \in SettingsWords /\ settingsLastCfg \in Cfgs /\ link \in Cfgs
  /\ settingsCalls \in Seq(Cfgs) /\ news \in Seq(SettingsNews)
  /\ settingsChosen \in SE!Settings /\ overruled \subseteq {"roster", "always"}
  /\ outdated \subseteq SettingNames

NoWord == ""

\* Before the first login there is nothing that could be of use to one.
Unknown ==
  /\ settingsLastCfg = SE!NoConfig /\ link = SE!NoConfig /\ creds = NoWord /\ news = <<>>
  /\ settingsCalls \in Seq({SE!NoConfig})

Chosen == Agrees(app) /\ Agrees(file) /\ (copies # <<>> => Agrees(SE!Copy))

SettingsInv == SettingsTypes /\ link.pw # "bad" /\ (~settingsKnown => Unknown) /\ Chosen

LEMMA SettingsData ==
  /\ SE!Default \in SE!Settings /\ SE!Default.markers = TRUE /\ SE!Default.remember = TRUE
  /\ NoWord \in SettingsWords /\ "good" \in SettingsWords /\ "bad" \in SettingsWords /\ NoWord # "good" /\ NoWord # "bad"
  /\ SE!NoConfig \in Cfgs /\ SE!NoConfig.pw = NoWord
<1>1. SE!Default \in SE!Settings /\ SE!Default.markers = TRUE /\ SE!Default.remember = TRUE
  BY DEF SE!Default, SE!Settings
<1>2. NoWord \in SettingsWords /\ "good" \in SettingsWords /\ "bad" \in SettingsWords /\ NoWord # "good" /\ NoWord # "bad"
  BY Zenon DEF NoWord, SettingsWords
<1>3. SE!NoConfig = [pw |-> NoWord, markers |-> FALSE]
  BY Zenon DEF SE!NoConfig, NoWord
<1>4. SE!NoConfig \in Cfgs /\ SE!NoConfig.pw = NoWord
  BY <1>2, <1>3 DEF Cfgs
<1> QED
  BY <1>1, <1>2, <1>4

LEMMA SettingsInit == ASSUME SE!Init PROVE SettingsInv
<1>0. typed = NoWord /\ creds = NoWord
  BY Zenon DEF SE!Init, NoWord
<1>1. settingsChosen = SE!Default /\ overruled = {} /\ outdated = {}
  BY Zenon DEF SE!Init
<1>2. copies = <<>> /\ settingsCalls = <<>> /\ news = <<>> /\ app = SE!Default /\ file = SE!Default
      /\ scene = "Login" /\ ticked = TRUE /\ settingsLastCfg = SE!NoConfig /\ link = SE!NoConfig
  BY Zenon DEF SE!Init
<1>3. copies \in Seq(SE!Settings) /\ settingsCalls \in Seq(Cfgs) /\ news \in Seq(SettingsNews)
      /\ settingsCalls \in Seq({SE!NoConfig})
  BY <1>2, EmptySeq
<1>4. SettingsTypes
  BY <1>0, <1>1, <1>2, <1>3, SettingsData DEF SettingsTypes
<1>5. Chosen
  BY <1>1, <1>2, Zenon DEF Chosen, Agrees, SE!Stands
<1> QED
  BY <1>0, <1>2, <1>3, <1>4, <1>5, SettingsData DEF SettingsInv, Unknown

LEMMA NamesAre == ASSUME NEW s \in SE!Settings PROVE DOMAIN s = SettingNames
  BY DEF SE!Settings, SettingNames

\* A choice of setting g, of those that s had before, is in new.
LEMMA ChoiceStands ==
  ASSUME SettingsTypes, NEW s \in SE!Settings, NEW new \in SE!Settings, NEW g \in SettingNames, NEW v,
         Agrees(s), SE!Chooses(g, v), new[g] = v, \A f \in SettingNames \ {g} : new[f] = s[f],
         overruled' = overruled \/ g = "mam"
  PROVE  WillAgree(new) /\ outdated' \subseteq SettingNames
<1>1. settingsChosen' = [settingsChosen EXCEPT ![g] = v] /\ outdated' = outdated \ {g}
  BY Zenon DEF SE!Chooses
<1>2. DOMAIN settingsChosen = SettingNames
  BY NamesAre DEF SettingsTypes
<1>3. settingsChosen'[g] = v /\ \A f \in SettingNames \ {g} : settingsChosen'[f] = settingsChosen[f]
  BY <1>1, <1>2
<1>4. outdated' \subseteq SettingNames
  BY <1>1 DEF SettingsTypes
<1>5. ASSUME NEW f \in SettingNames, f \notin outdated'
      PROVE  new[f] = settingsChosen'[f] \/ (f = "mam" /\ new[f] \in overruled')
  <2>1. CASE f = g
    BY <1>3, <2>1
  <2>2. CASE f # g
    <3>1. f \notin outdated
      BY <1>1, <1>5, <2>2
    <3>2. s[f] = settingsChosen[f] \/ (f = "mam" /\ s[f] \in overruled)
      BY <1>5, <3>1, Zenon DEF Agrees, SE!Stands
    <3> QED
      BY <1>3, <2>2, <3>2
  <2> QED
    BY <2>1, <2>2
<1> QED
  BY <1>4, <1>5, Zenon DEF WillAgree

\* What was so stays so while nothing is chosen and no setting becomes right again.
LEMMA StillAgrees ==
  ASSUME NEW s, Agrees(s), settingsChosen' = settingsChosen, overruled \subseteq overruled',
         outdated \subseteq outdated', NEW t, \A f \in SettingNames : t[f] = s[f]
  PROVE  WillAgree(t)
<1>1. ASSUME NEW f \in SettingNames \ outdated'
      PROVE  t[f] = settingsChosen'[f] \/ (f = "mam" /\ t[f] \in overruled')
  <2>1. f \in SettingNames \ outdated
    BY <1>1
  <2>2. SE!Stands(s, f)
    BY <2>1, Zenon DEF Agrees
  <2> QED
    BY <2>1, <2>2 DEF SE!Stands
<1> QED
  BY <1>1, Zenon DEF WillAgree

LEMMA SettingsStand ==
  ASSUME WillAgree(app'), WillAgree(file'), copies' # <<>> => WillAgree(SE!Copy')
  PROVE  Chosen'
  BY Zenon DEF Chosen, Agrees, SE!Stands, WillAgree, SE!Copy

LEMMA CopyIsSettings ==
  ASSUME SettingsTypes, copies # <<>>
  PROVE  SE!Copy \in SE!Settings /\ Len(copies) \in Nat /\ Len(copies) > 0
<1>1. copies \in Seq(SE!Settings) /\ Len(copies) \in Nat /\ Len(copies) # 0
  BY EmptySeq, LenProperties DEF SettingsTypes
<1>2. copies[Len(copies)] \in SE!Settings
  BY <1>1, ElementOfSeq
<1> QED
  BY <1>1, <1>2 DEF SE!Copy

\* The top copy is replaced.
LEMMA CopyReplaced ==
  ASSUME SettingsTypes, copies # <<>>, NEW new \in SE!Settings,
         copies' = [copies EXCEPT ![Len(copies)] = new]
  PROVE  copies' \in Seq(SE!Settings) /\ Len(copies') = Len(copies) /\ SE!Copy' = new
<1>1. copies \in Seq(SE!Settings) /\ Len(copies) \in Nat /\ Len(copies) > 0
  BY CopyIsSettings DEF SettingsTypes
<1>2. copies' \in Seq(SE!Settings) /\ Len(copies') = Len(copies)
  BY <1>1, ExceptSeq
<1>3. copies'[Len(copies)] = new
  BY <1>1, LenProperties
<1> QED
  BY <1>1, <1>2, <1>3 DEF SE!Copy

\* The top copy is dropped.
LEMMA LastDropped ==
  ASSUME NEW S, NEW s \in Seq(S), Len(s) > 0
  PROVE  SubSeq(s, 1, Len(s) - 1) \in Seq(S) /\ Len(SubSeq(s, 1, Len(s) - 1)) = Len(s) - 1
<1> DEFINE n == Len(s) - 1
<1>1. n \in Nat /\ \A i \in 1..n : s[i] \in S
  BY LenProperties, ElementOfSeq
<1>2. 1 \in Int /\ n \in Int
  BY <1>1
<1> HIDE DEF n
<1>3. SubSeq(s, 1, n) \in Seq(S) /\ Len(SubSeq(s, 1, n)) = IF 1 <= n THEN n - 1 + 1 ELSE 0
  BY <1>1, <1>2, SubSeqProperties
<1>4. Len(SubSeq(s, 1, n)) = n
  BY <1>1, <1>3
<1> QED
  BY <1>3, <1>4 DEF n

LEMMA LastKept ==
  ASSUME NEW S, NEW s \in Seq(S), Len(s) > 1
  PROVE  SubSeq(s, 1, Len(s) - 1)[Len(s) - 1] = s[Len(s) - 1]
<1>1. Len(s) \in Nat
  BY LenProperties
<1> DEFINE n == Len(s) - 1
<1>2. 1 \in Int /\ n \in Int /\ n \in Nat /\ 1 <= n /\ n \in 1..Len(s)
  BY <1>1
<1>3. \A i \in 1..n : s[i] \in S
  BY <1>1, ElementOfSeq
<1> HIDE DEF n
<1>4. \A i \in 1..(n - 1 + 1) : SubSeq(s, 1, n)[i] = s[1 + i - 1]
  BY <1>2, <1>3, SubSeqProperties
<1> QED
  BY <1>2, <1>4 DEF n

LEMMA SettingsStep == ASSUME SettingsInv, SE!Next PROVE SettingsInv'
<1>0. SettingsTypes /\ Chosen /\ (~settingsKnown => Unknown) /\ link.pw # "bad"
  BY DEF SettingsInv
<1> USE SettingsData
\* What an action leaves alone.
<1>a. ASSUME UNCHANGED SE!settingsVars PROVE Chosen'
  BY <1>a, <1>0, Zenon DEF SE!settingsVars, SE!historyVars, Chosen, Agrees, SE!Stands, SE!Copy
<1>d. ASSUME UNCHANGED SE!historyVars, NEW s, Agrees(s) PROVE WillAgree(s)
  BY <1>d, StillAgrees DEF SE!historyVars
<1>b. ASSUME UNCHANGED <<SE!storeVars, settingsLastCfg, SE!engineVars>>
      PROVE  (~settingsKnown' => Unknown') /\ link'.pw # "bad"
  BY <1>b, <1>0 DEF SE!storeVars, SE!engineVars, Unknown
<1>1. CASE SE!RememberMeToggled
  <2>1. copies = <<>> /\ copies' = <<>> /\ app' = [app EXCEPT !.remember = ~ticked] /\ file' = app'
        /\ SE!Chooses("remember", ~ticked) /\ ticked' = ~ticked
        /\ UNCHANGED <<overruled, typed, SE!storeVars, settingsLastCfg, SE!engineVars, scene>>
    BY <1>1, Zenon DEF SE!RememberMeToggled, SE!OnLogin
  <2>2. app' \in SE!Settings /\ app'.remember = ~ticked /\ app'.markers = app.markers /\ app'.mam = app.mam
    BY <2>1, <1>0 DEF SettingsTypes, SE!Settings
  <2>3. settingsChosen' \in SE!Settings
    BY <2>1, <1>0 DEF SettingsTypes, SE!Chooses, SE!Settings
  <2>4. \A f \in SettingNames \ {"remember"} : app'[f] = app[f]
    BY <2>2 DEF SettingNames
  <2>5. app \in SE!Settings /\ Agrees(app)
    BY <1>0 DEF SettingsTypes, Chosen
  <2>6. "remember" \in SettingNames
    BY DEF SettingNames
  <2>7. WillAgree(app') /\ outdated' \subseteq SettingNames
    BY <2>1, <2>2, <2>4, <2>5, <2>6, <1>0, ChoiceStands
  <2>8. SettingsTypes'
    BY <2>1, <2>2, <2>3, <2>7, <1>0 DEF SettingsTypes, SE!storeVars, SE!engineVars
  <2>9. Chosen'
    BY <2>1, <2>7, SettingsStand, Zenon
  <2> QED
    BY <2>1, <2>8, <2>9, <1>b DEF SettingsInv
<1>2. CASE SE!NewLogin
  <2>1. typed' = NoWord /\ ticked' = TRUE
        /\ UNCHANGED <<scene, SE!settingsVars, SE!storeVars, settingsLastCfg, SE!engineVars>>
    BY <1>2, Zenon DEF SE!NewLogin, NoWord
  <2>2. SettingsTypes'
    BY <2>1, <1>0 DEF SettingsTypes, SE!settingsVars, SE!historyVars, SE!storeVars, SE!engineVars
  <2> QED
    BY <2>1, <2>2, <1>a, <1>b DEF SettingsInv
<1>3. CASE SE!Connect
  <2>1. settingsKnown' = TRUE /\ file' = app /\ settingsLastCfg' = SE!ConnectConfig(typed)
        /\ settingsCalls' = Append(settingsCalls, SE!ConnectConfig(typed))
        /\ UNCHANGED <<scene, SE!loginVars, app, copies, creds, link, news, SE!historyVars>>
    BY <1>3, Zenon DEF SE!Connect
  <2>2. SE!ConnectConfig(typed) \in Cfgs
    BY <1>0 DEF SettingsTypes, SE!ConnectConfig, Cfgs, SE!Settings
  <2>3. settingsCalls' \in Seq(Cfgs)
    BY <2>1, <2>2, <1>0, AppendProperties DEF SettingsTypes
  <2>4. SettingsTypes'
    BY <2>1, <2>2, <2>3, <1>0 DEF SettingsTypes, SE!loginVars, SE!historyVars
  <2>5. Chosen'
    BY <2>1, <1>0, <1>d, SettingsStand, Zenon DEF Chosen, SE!Copy
  <2> QED
    BY <2>1, <2>4, <2>5, <1>0 DEF SettingsInv
<1>4. CASE SE!GoToSettings
  <2>1. copies' = Append(copies, app)
        /\ UNCHANGED <<scene, SE!loginVars, app, file, SE!historyVars, SE!storeVars, settingsLastCfg, SE!engineVars>>
    BY <1>4, Zenon DEF SE!GoToSettings
  <2>2. copies' \in Seq(SE!Settings) /\ Len(copies') = Len(copies) + 1 /\ copies'[Len(copies) + 1] = app
    BY <2>1, <1>0, AppendProperties, LenProperties DEF SettingsTypes
  <2>3. SettingsTypes'
    BY <2>1, <2>2, <1>0 DEF SettingsTypes, SE!loginVars, SE!storeVars, SE!engineVars, SE!historyVars
  <2>4. SE!Copy' = app
    BY <2>2 DEF SE!Copy
  <2>5. Chosen'
    BY <2>1, <2>4, <1>0, <1>d, SettingsStand, Zenon DEF Chosen
  <2> QED
    BY <2>1, <2>3, <2>5, <1>b DEF SettingsInv
<1>5. CASE SE!Toggled
  <2> DEFINE new == [SE!Copy EXCEPT !.markers = ~@]
  <2>1. copies # <<>> /\ copies' = [copies EXCEPT ![Len(copies)] = new] /\ app' = new /\ file' = new
        /\ SE!Chooses("markers", ~SE!Copy.markers)
        /\ UNCHANGED <<scene, overruled, SE!loginVars, SE!storeVars, settingsLastCfg, SE!engineVars>>
    BY <1>5, Zenon DEF SE!Toggled, SE!Take
  <2>2. SE!Copy \in SE!Settings
    BY <2>1, <1>0, CopyIsSettings
  <2>3. new \in SE!Settings /\ new.markers = ~SE!Copy.markers /\ new.remember = SE!Copy.remember
        /\ new.mam = SE!Copy.mam
    BY <2>2 DEF SE!Settings
  <2> HIDE DEF new
  <2>4. copies' \in Seq(SE!Settings) /\ SE!Copy' = new
    BY <2>1, <2>3, <1>0, CopyReplaced
  <2>5. settingsChosen' \in SE!Settings
    BY <2>1, <2>2, <1>0 DEF SettingsTypes, SE!Chooses, SE!Settings
  <2>6. "markers" \in SettingNames /\ \A f \in SettingNames \ {"markers"} : new[f] = SE!Copy[f]
    BY <2>3 DEF SettingNames
  <2>7. Agrees(SE!Copy)
    BY <2>1, <1>0 DEF Chosen
  <2>8. WillAgree(new) /\ outdated' \subseteq SettingNames
    BY <2>1, <2>2, <2>3, <2>6, <2>7, <1>0, ChoiceStands
  <2>9. SettingsTypes'
    BY <2>1, <2>3, <2>4, <2>5, <2>8, <1>0 DEF SettingsTypes, SE!loginVars, SE!storeVars, SE!engineVars
  <2>10. Chosen'
    BY <2>1, <2>4, <2>8, SettingsStand, Zenon
  <2> QED
    BY <2>1, <2>9, <2>10, <1>b DEF SettingsInv
<1>6. CASE SE!MamModeSelected
  <2>1. copies # <<>> /\ UNCHANGED <<scene, SE!loginVars, SE!storeVars, settingsLastCfg, SE!engineVars>>
    BY <1>6, Zenon DEF SE!MamModeSelected
  <2>2. PICK m \in {"roster", "always"} \ {SE!Copy.mam} :
          LET new == [SE!Copy EXCEPT !.mam = m] IN
            SE!Take(new) /\ file' = new /\ SE!Chooses("mam", m) /\ overruled' = {}
    BY <1>6, Zenon DEF SE!MamModeSelected
  <2> DEFINE new == [SE!Copy EXCEPT !.mam = m]
  <2>3. copies' = [copies EXCEPT ![Len(copies)] = new] /\ app' = new /\ file' = new
        /\ SE!Chooses("mam", m) /\ overruled' = {}
    BY <2>2, Zenon DEF SE!Take
  <2>4. SE!Copy \in SE!Settings /\ m \in {"roster", "always"}
    BY <2>1, <1>0, CopyIsSettings
  <2>5. new \in SE!Settings /\ new.mam = m /\ new.markers = SE!Copy.markers
        /\ new.remember = SE!Copy.remember
    BY <2>4 DEF SE!Settings
  <2> HIDE DEF new
  <2>6. copies' \in Seq(SE!Settings) /\ SE!Copy' = new
    BY <2>1, <2>3, <2>5, <1>0, CopyReplaced
  <2>7. settingsChosen' \in SE!Settings
    BY <2>3, <2>4, <1>0 DEF SettingsTypes, SE!Chooses, SE!Settings
  <2>8. "mam" \in SettingNames /\ \A f \in SettingNames \ {"mam"} : new[f] = SE!Copy[f]
    BY <2>5 DEF SettingNames
  <2>9. Agrees(SE!Copy)
    BY <2>1, <1>0 DEF Chosen
  <2>10. WillAgree(new) /\ outdated' \subseteq SettingNames
    BY <2>3, <2>4, <2>5, <2>8, <2>9, <1>0, ChoiceStands
  <2>11. SettingsTypes'
    BY <2>1, <2>3, <2>5, <2>6, <2>7, <2>10, <1>0 DEF SettingsTypes, SE!loginVars, SE!storeVars, SE!engineVars
  <2>12. Chosen'
    BY <2>3, <2>6, <2>10, SettingsStand, Zenon
  <2> QED
    BY <2>1, <2>11, <2>12, <1>b DEF SettingsInv
<1>7. CASE SE!Looked
  <2>1. copies # <<>> /\ copies' = [copies EXCEPT ![Len(copies)] = SE!Copy] /\ app' = SE!Copy
        /\ UNCHANGED <<scene, SE!loginVars, file, SE!historyVars, SE!storeVars, settingsLastCfg, SE!engineVars>>
    BY <1>7, Zenon DEF SE!Looked, SE!Take
  <2>2. SE!Copy \in SE!Settings
    BY <2>1, <1>0, CopyIsSettings
  <2>3. copies' \in Seq(SE!Settings) /\ SE!Copy' = SE!Copy
    BY <2>1, <2>2, <1>0, CopyReplaced
  <2>4. SettingsTypes'
    BY <2>1, <2>2, <2>3, <1>0 DEF SettingsTypes, SE!loginVars, SE!storeVars, SE!engineVars, SE!historyVars
  <2>5. Chosen'
    BY <2>1, <2>3, <1>0, <1>d, SettingsStand, Zenon DEF Chosen
  <2> QED
    BY <2>1, <2>4, <2>5, <1>b DEF SettingsInv
<1>8. CASE SE!GoBack
  <2> DEFINE below == copies[Len(copies) - 1]
  <2>1. copies # <<>> /\ app' = SE!Copy /\ copies' = SubSeq(copies, 1, Len(copies) - 1)
        /\ outdated' = outdated \cup {f \in DOMAIN settingsChosen : Len(copies) > 1 /\ ~SE!Stands(below, f)}
        /\ UNCHANGED <<scene, SE!loginVars, file, settingsChosen, overruled, SE!storeVars, settingsLastCfg, SE!engineVars>>
    BY <1>8, Zenon DEF SE!GoBack
  <2>2. SE!Copy \in SE!Settings /\ Len(copies) \in Nat /\ Len(copies) > 0
    BY <2>1, <1>0, CopyIsSettings
  <2>3. copies' \in Seq(SE!Settings) /\ Len(copies') = Len(copies) - 1
    BY <2>1, <2>2, <1>0, LastDropped DEF SettingsTypes
  <2>4. DOMAIN settingsChosen = SettingNames
    BY <1>0, NamesAre DEF SettingsTypes
  <2>5. outdated \subseteq outdated' /\ outdated' \subseteq SettingNames
    BY <2>1, <2>4, <1>0 DEF SettingsTypes
  <2>6. SettingsTypes'
    BY <2>1, <2>2, <2>3, <2>5, <1>0 DEF SettingsTypes, SE!loginVars, SE!storeVars, SE!engineVars
  <2>7. WillAgree(app') /\ WillAgree(file')
    BY <2>1, <2>5, <1>0, StillAgrees, Zenon DEF Chosen
  <2>8. ASSUME copies' # <<>> PROVE WillAgree(SE!Copy')
    <3>1. Len(copies') # 0
      BY <2>3, <2>8, EmptySeq
    <3>2. Len(copies) > 1 /\ copies \in Seq(SE!Settings)
      BY <3>1, <2>2, <2>3, <1>0 DEF SettingsTypes
    <3>3. SE!Copy' = below
      <4>1. SubSeq(copies, 1, Len(copies) - 1)[Len(copies) - 1] = copies[Len(copies) - 1]
        BY <3>2, <2>2, LastKept
      <4> QED
        BY <4>1, <2>1, <2>3 DEF SE!Copy
    <3> HIDE DEF below
    <3>4. \A f \in SettingNames \ outdated' : SE!Stands(below, f)
      BY <2>1, <2>4, <3>2, Zenon
    <3>5. WillAgree(below)
      BY <2>1, <3>4, Zenon DEF WillAgree, SE!Stands
    <3> QED
      BY <3>3, <3>5
  <2>9. Chosen'
    BY <2>7, <2>8, SettingsStand, Zenon
  <2> QED
    BY <2>1, <2>6, <2>9, <1>b DEF SettingsInv
<1>9. CASE SE!Logout
  <2>1. scene' = "Login" /\ copies' = <<>> /\ typed' = NoWord
        /\ app' = (IF copies # <<>> THEN SE!Copy ELSE app) /\ ticked' = app'.remember
        /\ creds' = (IF ~app'.remember /\ settingsKnown THEN NoWord ELSE creds)
        /\ settingsCalls' = Append(settingsCalls, SE!NoConfig)
        /\ UNCHANGED <<file, SE!historyVars, settingsKnown, settingsLastCfg, link, news>>
    BY <1>9, Zenon DEF SE!Logout, NoWord
  <2>2. app' \in SE!Settings
    BY <2>1, <1>0, CopyIsSettings DEF SettingsTypes
  <2>3. ticked' \in BOOLEAN /\ creds' \in SettingsWords
    BY <2>1, <2>2, <1>0 DEF SettingsTypes, SE!Settings
  <2>4. settingsCalls' \in Seq(Cfgs) /\ copies' \in Seq(SE!Settings)
    BY <2>1, <1>0, AppendProperties, EmptySeq DEF SettingsTypes
  <2>5. ASSUME ~settingsKnown PROVE Unknown'
    <3>1. settingsCalls' \in Seq({SE!NoConfig})
      BY <2>5, <2>1, <1>0, AppendProperties DEF Unknown
    <3> QED
      BY <2>5, <2>1, <3>1, <1>0 DEF Unknown
  <2>6. SettingsTypes'
    BY <2>1, <2>2, <2>3, <2>4, <1>0 DEF SettingsTypes, SE!historyVars
  <2>7. Chosen'
    BY <2>1, <1>0, <1>d, SettingsStand, Zenon DEF Chosen
  <2> QED
    BY <2>1, <2>5, <2>6, <2>7, <1>0 DEF SettingsInv
<1>10. CASE SE!SendDisplayed
  <2>1. UNCHANGED <<scene, SE!loginVars, SE!settingsVars, SE!storeVars, settingsLastCfg, SE!engineVars>>
    BY <1>10, Zenon DEF SE!SendDisplayed
  <2>2. SettingsTypes'
    BY <2>1, <1>0 DEF SettingsTypes, SE!settingsVars, SE!historyVars, SE!storeVars, SE!engineVars, SE!loginVars
  <2> QED
    BY <2>1, <2>2, <1>a, <1>b DEF SettingsInv
<1>11. CASE SE!Serve
  <2> DEFINE c == Head(settingsCalls)
  <2>1. settingsCalls # <<>> /\ settingsCalls' = Tail(settingsCalls)
        /\ UNCHANGED <<scene, SE!loginVars, SE!settingsVars, SE!storeVars, settingsLastCfg>>
    BY <1>11, Zenon DEF SE!Serve
  <2>2. \/ link = SE!NoConfig /\ c.pw = "good" /\ link' = c /\ news' = Append(news, <<"connected">>)
        \/ link = SE!NoConfig /\ c.pw = "bad" /\ link' = link /\ news' = Append(news, <<"disconnected">>)
        \/ link # SE!NoConfig /\ link' = SE!NoConfig /\ news' = Append(news, <<"disconnected">>)
        \/ link = SE!NoConfig /\ c = SE!NoConfig /\ link' = link /\ news' = news
    BY <1>11, Zenon DEF SE!Serve
  <2>3. c \in Cfgs /\ settingsCalls' \in Seq(Cfgs)
    BY <2>1, <1>0, HeadTailProperties DEF SettingsTypes
  <2>4. ASSUME ~settingsKnown PROVE c = SE!NoConfig /\ settingsCalls' \in Seq({SE!NoConfig})
    <3>1. settingsCalls \in Seq({SE!NoConfig})
      BY <2>4, <1>0 DEF Unknown
    <3>2. c \in {SE!NoConfig} /\ settingsCalls' \in Seq({SE!NoConfig})
      BY <3>1, <2>1, HeadTailProperties
    <3> QED
      BY <3>2
  <2> HIDE DEF c
  <2>5. link' \in Cfgs /\ link'.pw # "bad"
    BY <2>2, <2>3, <1>0 DEF SettingsTypes
  <2>6. news' \in Seq(SettingsNews)
    <3>1. <<"connected">> \in SettingsNews /\ <<"disconnected">> \in SettingsNews
      BY DEF SettingsNews
    <3>2. Append(news, <<"connected">>) \in Seq(SettingsNews) /\ Append(news, <<"disconnected">>) \in Seq(SettingsNews)
      BY <3>1, <1>0, AppendProperties DEF SettingsTypes
    <3> QED
      BY <2>2, <3>2, <1>0, Zenon DEF SettingsTypes
  <2>7. ASSUME ~settingsKnown PROVE Unknown'
    BY <2>7, <2>1, <2>2, <2>4, <1>0 DEF Unknown, SE!storeVars
  <2>8. SettingsTypes'
    BY <2>1, <2>3, <2>5, <2>6, <1>0 DEF SettingsTypes, SE!settingsVars, SE!historyVars, SE!storeVars, SE!loginVars
  <2> QED
    BY <2>1, <2>5, <2>7, <2>8, <1>a DEF SettingsInv, SE!storeVars
<1>12. CASE SE!Drop
  <2>1. link # SE!NoConfig /\ link' = SE!NoConfig
        /\ news' = news \o <<<<"reconnecting">>, <<"disconnected">>>>
        /\ UNCHANGED <<scene, SE!loginVars, SE!settingsVars, SE!storeVars, settingsLastCfg, settingsCalls>>
    BY <1>12, Zenon DEF SE!Drop
  <2>2. <<<<"reconnecting">>, <<"disconnected">>>> \in Seq(SettingsNews)
    BY DEF SettingsNews
  <2>3. news' \in Seq(SettingsNews)
    BY <2>1, <2>2, <1>0, ConcatProperties DEF SettingsTypes
  <2>4. settingsKnown
    BY <2>1, <1>0 DEF Unknown
  <2>5. SettingsTypes'
    BY <2>1, <2>3, <1>0 DEF SettingsTypes, SE!settingsVars, SE!historyVars, SE!storeVars, SE!loginVars
  <2> QED
    BY <2>1, <2>4, <2>5, <1>a DEF SettingsInv, SE!storeVars
<1>13. CASE SE!AnswerPrefs
  <2>1. link # SE!NoConfig /\ \E m \in {"roster", "always"} : news' = Append(news, <<"prefs", m>>)
    BY <1>13, Zenon DEF SE!AnswerPrefs
  <2>2. UNCHANGED <<scene, SE!loginVars, SE!settingsVars, SE!storeVars, settingsLastCfg, settingsCalls, link>>
    BY <1>13, Zenon DEF SE!AnswerPrefs
  <2>3. news' \in Seq(SettingsNews)
    BY <2>1, <1>0, AppendProperties DEF SettingsTypes, SettingsNews
  <2>4. settingsKnown
    BY <2>1, <1>0 DEF Unknown
  <2>5. SettingsTypes'
    BY <2>2, <2>3, <1>0 DEF SettingsTypes, SE!settingsVars, SE!historyVars, SE!storeVars, SE!loginVars
  <2> QED
    BY <2>2, <2>4, <2>5, <1>0, <1>a DEF SettingsInv, SE!storeVars
<1>14. CASE SE!Connected
  <2>1. news # <<>> /\ news' = Tail(news) /\ scene' = "Chat" /\ copies' = <<>>
        /\ (creds' = typed \/ creds' = creds)
        /\ UNCHANGED <<SE!loginVars, app, file, SE!historyVars, settingsKnown, settingsLastCfg, settingsCalls, link>>
    BY <1>14, Zenon DEF SE!Connected
  <2>2. news' \in Seq(SettingsNews) /\ copies' \in Seq(SE!Settings)
    BY <2>1, <1>0, HeadTailProperties, EmptySeq DEF SettingsTypes
  <2>3. settingsKnown
    BY <2>1, <1>0 DEF Unknown
  <2>4. SettingsTypes'
    BY <2>1, <2>2, <1>0 DEF SettingsTypes, SE!loginVars, SE!historyVars
  <2>5. Chosen'
    BY <2>1, <1>0, <1>d, SettingsStand, Zenon DEF Chosen
  <2> QED
    BY <2>1, <2>3, <2>4, <2>5, <1>0 DEF SettingsInv
<1>15. CASE SE!Disconnected
  <2>1. news # <<>> /\ news' = Tail(news)
        /\ (settingsLastCfg' = SE!NoConfig \/ settingsLastCfg' = settingsLastCfg) /\ (scene' = "Login" \/ scene' = scene)
        /\ (typed' \in {creds, NoWord, typed}) /\ (ticked' \in {app.remember, ticked})
        /\ UNCHANGED <<SE!settingsVars, SE!storeVars, settingsCalls, link>>
    BY <1>15, Zenon DEF SE!Disconnected, NoWord
  <2>2. news' \in Seq(SettingsNews)
    BY <2>1, <1>0, HeadTailProperties DEF SettingsTypes
  <2>3. settingsKnown
    BY <2>1, <1>0 DEF Unknown
  <2>4. app.remember \in BOOLEAN
    BY <1>0 DEF SettingsTypes, SE!Settings
  <2>5. SettingsTypes'
    BY <2>1, <2>2, <2>4, <1>0 DEF SettingsTypes, SE!settingsVars, SE!historyVars, SE!storeVars
  <2> QED
    BY <2>1, <2>3, <2>5, <1>0, <1>a DEF SettingsInv, SE!storeVars
<1>16. CASE SE!Reconnecting
  <2>1. news # <<>> /\ news' = Tail(news) /\ (settingsCalls' = settingsCalls \/ settingsCalls' = Append(settingsCalls, settingsLastCfg))
        /\ UNCHANGED <<scene, SE!loginVars, SE!settingsVars, SE!storeVars, settingsLastCfg, link>>
    BY <1>16, Zenon DEF SE!Reconnecting
  <2>2. news' \in Seq(SettingsNews)
    BY <2>1, <1>0, HeadTailProperties DEF SettingsTypes
  <2>5. settingsCalls' \in Seq(Cfgs)
    <3>1. Append(settingsCalls, settingsLastCfg) \in Seq(Cfgs)
      BY <1>0, AppendProperties DEF SettingsTypes
    <3> QED
      BY <2>1, <3>1, <1>0, Zenon DEF SettingsTypes
  <2>3. settingsKnown
    BY <2>1, <1>0 DEF Unknown
  <2>4. SettingsTypes'
    BY <2>1, <2>2, <2>5, <1>0 DEF SettingsTypes, SE!settingsVars, SE!historyVars, SE!storeVars, SE!loginVars
  <2> QED
    BY <2>1, <2>3, <2>4, <1>0, <1>a DEF SettingsInv, SE!storeVars
<1>17. CASE SE!MamPrefsReceived
  <2>1. news # <<>> /\ Head(news)[1] = "prefs" /\ news' = Tail(news)
        /\ app' = [app EXCEPT !.mam = Head(news)[2]] /\ file' = app'
        /\ overruled' = overruled \cup {Head(news)[2]}
        /\ UNCHANGED <<scene, copies, settingsChosen, outdated, SE!loginVars, SE!storeVars, settingsLastCfg, settingsCalls, link>>
    BY <1>17, Zenon DEF SE!MamPrefsReceived
  <2>2. Head(news) \in SettingsNews /\ news' \in Seq(SettingsNews)
    BY <2>1, <1>0, HeadTailProperties DEF SettingsTypes
  <2>3. Head(news)[2] \in {"roster", "always"}
    BY <2>1, <2>2 DEF SettingsNews
  <2>4. app' \in SE!Settings /\ app'.markers = app.markers /\ app'.remember = app.remember
        /\ app'.mam = Head(news)[2]
    BY <2>1, <2>3, <1>0 DEF SettingsTypes, SE!Settings
  <2>5. settingsKnown
    BY <2>1, <1>0 DEF Unknown
  <2>6. SettingsTypes'
    BY <2>1, <2>2, <2>3, <2>4, <1>0 DEF SettingsTypes, SE!storeVars, SE!loginVars
  <2>7. WillAgree(app')
    <3> SUFFICES ASSUME NEW f \in SettingNames \ outdated
                 PROVE  app'[f] = settingsChosen'[f] \/ (f = "mam" /\ app'[f] \in overruled')
      BY <2>1, Zenon DEF WillAgree
    <3>1. CASE f = "mam"
      BY <3>1, <2>1, <2>4
    <3>2. CASE f # "mam"
      <4>1. app'[f] = app[f]
        BY <3>2, <2>4 DEF SettingNames
      <4>2. SE!Stands(app, f)
        BY <1>0, Zenon DEF Chosen, Agrees
      <4> QED
        BY <3>2, <4>1, <4>2, <2>1 DEF SE!Stands
    <3> QED
      BY <3>1, <3>2
  <2>8. copies # <<>> => WillAgree(SE!Copy)
    BY <2>1, <1>0, StillAgrees, Zenon DEF Chosen
  <2>9. Chosen'
    BY <2>1, <2>7, <2>8, SettingsStand, Zenon DEF SE!Copy
  <2> QED
    BY <2>1, <2>5, <2>6, <2>9, <1>0 DEF SettingsInv, SE!storeVars
<1>18. CASE SE!Launch
  <2> DEFINE auto == file.remember /\ settingsKnown /\ creds # NoWord
  <2>1. scene' = "Login" /\ typed' = creds /\ ticked' = file.remember /\ app' = file
        /\ copies' = <<>> /\ link' = SE!NoConfig /\ news' = <<>>
        /\ settingsCalls' = (IF auto THEN <<SE!ConnectConfig(creds)>> ELSE <<>>)
        /\ settingsLastCfg' = (IF auto THEN SE!ConnectConfig(creds) ELSE SE!NoConfig)
        /\ UNCHANGED <<file, SE!storeVars, SE!historyVars>>
    BY <1>18, Zenon DEF SE!Launch, NoWord
  <2>2. SE!ConnectConfig(creds) \in Cfgs /\ ticked' \in BOOLEAN
    BY <2>1, <1>0 DEF SettingsTypes, SE!ConnectConfig, Cfgs, SE!Settings
  <2>3. copies' \in Seq(SE!Settings) /\ news' \in Seq(SettingsNews)
    BY <2>1, EmptySeq
  <2>4. settingsCalls' \in Seq(Cfgs) /\ settingsLastCfg' \in Cfgs
    BY <2>1, <2>2, EmptySeq
  <2>5. ASSUME ~settingsKnown PROVE Unknown'
    BY <2>5, <2>1, <1>0, EmptySeq DEF Unknown, SE!storeVars
  <2>6. SettingsTypes'
    BY <2>1, <2>2, <2>3, <2>4, <1>0 DEF SettingsTypes, SE!storeVars, SE!historyVars
  <2>7. Chosen'
    BY <2>1, <1>0, <1>d, SettingsStand, Zenon DEF Chosen
  <2> QED
    BY <2>1, <2>5, <2>6, <2>7 DEF SettingsInv, SE!storeVars
<1>19. CASE \E pw \in {"good", "bad"} : SE!PasswordChanged(pw)
  <2>1. typed' \in {"good", "bad"}
        /\ UNCHANGED <<scene, ticked, SE!settingsVars, SE!storeVars, settingsLastCfg, SE!engineVars>>
    BY <1>19, Zenon DEF SE!PasswordChanged
  <2>2. SettingsTypes'
    BY <2>1, <1>0 DEF SettingsTypes, SE!settingsVars, SE!historyVars, SE!storeVars, SE!engineVars
  <2> QED
    BY <2>1, <2>2, <1>a, <1>b DEF SettingsInv
<1> QED
  BY <1>1, <1>2, <1>3, <1>4, <1>5, <1>6, <1>7, <1>8, <1>9, <1>10, <1>11, <1>12, <1>13, <1>14, <1>15,
     <1>16, <1>17, <1>18, <1>19, Zenon DEF SE!Next

LEMMA SettingsStutter == ASSUME SettingsInv, UNCHANGED SE!vars PROVE SettingsInv'
  BY DEF SettingsInv, SettingsTypes, Unknown, Chosen, Agrees, SE!Stands, SE!Copy, SE!vars,
     SE!loginVars, SE!settingsVars, SE!historyVars, SE!storeVars, SE!engineVars, SE!bounds

LEMMA SettingsTyped == ASSUME SettingsInv PROVE SE!TypeOK
<1>1. creds # NoWord => settingsKnown
  BY DEF SettingsInv, Unknown
<1> QED
  BY <1>1, SettingsData, NamesAre, Zenon DEF SettingsInv, SettingsTypes, SE!TypeOK, Cfgs,
     SettingsWords, NoWord

LEMMA SettingsChosen == ASSUME SettingsInv PROVE SE!ChoiceKept
  BY NamesAre, Zenon DEF SettingsInv, SettingsTypes, Chosen, Agrees, SE!ChoiceKept

-----------------------------------------------------------------------------
(* Blocking: the copy of the session ends up as the list of the server, and *)
(* nothing of a peer that has been on that list since the session came up gets *)
(* through.                                                                *)

Pieces == (BL!Kinds \X Peers) \cup ({"list", "block", "unblock"} \X (SUBSET Peers))
Reqs == BL!Orders \cup {<<"fetch">>, <<"query">>}

\* What the copy says of p depends on m, and what m makes it say.
Sets(m, p) == \/ m[1] = "list"
              \/ m[1] = "block" /\ p \in m[2]
              \/ m[1] = "unblock" /\ (m[2] = {} \/ p \in m[2])
BlockingPuts(m, p) == m[1] \in {"list", "block"} /\ p \in m[2]

\* The last word on p in the stream q, or the copy b when q has none, is that of
\* the list l.
LastWord(q, b, l, p) ==
  \/ /\ \A i \in DOMAIN q : ~Sets(q[i], p)
     /\ p \in b <=> p \in l
  \/ \E i \in DOMAIN q :
       /\ Sets(q[i], p)
       /\ BlockingPuts(q[i], p) <=> p \in l
       /\ \A j \in DOMAIN q : j > i => ~Sets(q[j], p)

Fetching == \E k \in DOMAIN out : out[k] = <<"fetch">>

Synced == on /\ ~Fetching => \A p \in Peers : LastWord(in, blocked, listed, p)

\* Of a peer p that is steadily blocked nothing is in the stream q but messages of
\* the archive, behind a list when the copy b does not have p; every list has p,
\* and nothing takes it out.
Harmless(m, p) ==
  /\ m[1] \in BL!Kinds \ {"archived"} => m[2] # p
  /\ m[1] = "list" => p \in m[2]
  /\ m[1] = "unblock" => m[2] # {} /\ p \notin m[2]
Shielded(q, b, p) ==
  /\ \A i \in DOMAIN q : Harmless(q[i], p)
  /\ \/ p \in b
     \/ \A i \in DOMAIN q : q[i] = <<"archived", p>> =>
          \E j \in DOMAIN q : j < i /\ q[j][1] = "list"
\* A list was received, or is on its way.
Listed(q, b, p) == p \in b \/ \E j \in DOMAIN q : q[j][1] = "list"

TypeInv ==
  /\ on \in BOOLEAN /\ in \in Seq(Pieces) /\ out \in Seq(Reqs)
  /\ listed \subseteq Peers /\ blockingKept \subseteq Peers /\ steady \subseteq listed
  /\ blockingOrders \subseteq BL!Orders /\ blocked \subseteq Peers
  /\ ~on => in = <<>> /\ out = <<>>
FetchFirst == \A k \in DOMAIN out : out[k] = <<"fetch">> => k = 1
ShieldInv ==
  \A p \in steady :
    Shielded(in, blocked, p) /\ (on /\ ~Fetching => Listed(in, blocked, p))

BlockingIInv == TypeInv /\ FetchFirst /\ Synced /\ ShieldInv /\ BL!ArchiveFiltered

-----------------------------------------------------------------------------
(* The stream.                                                               *)

LEMMA AppendSilent ==
  ASSUME NEW V, NEW q \in Seq(V), NEW m \in V, NEW b, NEW l, NEW l2, NEW p,
         ~Sets(m, p), p \in l <=> p \in l2, LastWord(q, b, l, p)
  PROVE  LastWord(Append(q, m), b, l2, p)
<1> DEFINE r == Append(q, m)
<1>1. /\ r \in Seq(V) /\ DOMAIN r = 1..(Len(q) + 1) /\ DOMAIN q = 1..Len(q) /\ Len(q) \in Nat
      /\ \A i \in DOMAIN q : r[i] = q[i]
      /\ r[Len(q) + 1] = m
  OBVIOUS
<1> HIDE DEF r
<1>2. \A i \in DOMAIN r : i \in DOMAIN q \/ i = Len(q) + 1
  BY <1>1
<1>3. DOMAIN q \subseteq DOMAIN r
  BY <1>1
<1>4. \A i \in DOMAIN r : i \notin DOMAIN q => ~Sets(r[i], p)
  BY <1>1, <1>2
<1> QED
  BY <1>1, <1>2, <1>3, <1>4, Zenon DEF LastWord, r

LEMMA AppendWord ==
  ASSUME NEW V, NEW q \in Seq(V), NEW m \in V, NEW b, NEW l, NEW p,
         Sets(m, p), BlockingPuts(m, p) <=> p \in l
  PROVE  LastWord(Append(q, m), b, l, p)
<1> DEFINE r == Append(q, m)
<1>1. /\ DOMAIN r = 1..(Len(q) + 1) /\ Len(q) \in Nat
      /\ r[Len(q) + 1] = m
  OBVIOUS
<1> HIDE DEF r
<1>2. Len(q) + 1 \in DOMAIN r /\ \A j \in DOMAIN r : ~(j > Len(q) + 1)
  BY <1>1
<1> QED
  BY <1>1, <1>2, Zenon DEF LastWord, r

LEMMA ConcatSilent ==
  ASSUME NEW V, NEW q \in Seq(V), NEW t \in Seq(V), NEW b, NEW l, NEW p,
         \A i \in DOMAIN t : ~Sets(t[i], p), LastWord(q, b, l, p)
  PROVE  LastWord(q \o t, b, l, p)
<1> DEFINE r == q \o t
<1>1. /\ DOMAIN r = 1..(Len(q) + Len(t)) /\ DOMAIN q = 1..Len(q) /\ DOMAIN t = 1..Len(t)
      /\ Len(q) \in Nat /\ Len(t) \in Nat
      /\ \A i \in 1..(Len(q) + Len(t)) : r[i] = IF i <= Len(q) THEN q[i] ELSE t[i - Len(q)]
  BY ConcatProperties
<1> HIDE DEF r
<1>2. \A i \in DOMAIN q : i \in DOMAIN r /\ r[i] = q[i]
  BY <1>1
<1>3. \A i \in DOMAIN r : i \notin DOMAIN q => i - Len(q) \in DOMAIN t /\ r[i] = t[i - Len(q)]
  BY <1>1
<1>4. \A i \in DOMAIN r : i \notin DOMAIN q => ~Sets(r[i], p)
  BY <1>3
<1> QED
  BY <1>2, <1>4, Zenon DEF LastWord, r

LEMMA TailSilent ==
  ASSUME NEW V, NEW q \in Seq(V), q # <<>>, NEW b, NEW b2, NEW l, NEW p,
         ~Sets(Head(q), p), p \in b <=> p \in b2, LastWord(q, b, l, p)
  PROVE  LastWord(Tail(q), b2, l, p)
<1> DEFINE r == Tail(q)
<1>1. /\ DOMAIN r = 1..(Len(q) - 1) /\ DOMAIN q = 1..Len(q) /\ Len(q) \in Nat \ {0}
      /\ \A i \in DOMAIN r : r[i] = q[i + 1]
      /\ Head(q) = q[1]
  OBVIOUS
<1> HIDE DEF r
<1>2. CASE \A i \in DOMAIN q : ~Sets(q[i], p)
  <2>1. p \in b2 <=> p \in l
    BY <1>2, Zenon DEF LastWord
  <2>2. \A i \in DOMAIN r : i + 1 \in DOMAIN q
    BY <1>1
  <2> QED
    BY <1>1, <1>2, <2>1, <2>2, Zenon DEF LastWord, r
<1>3. CASE \E i \in DOMAIN q : Sets(q[i], p)
  <2>1. PICK i \in DOMAIN q : /\ Sets(q[i], p) /\ (BlockingPuts(q[i], p) <=> p \in l)
                              /\ \A j \in DOMAIN q : j > i => ~Sets(q[j], p)
    BY <1>3, Zenon DEF LastWord
  <2>2. i # 1
    BY <1>1, <2>1
  <2>3. i - 1 \in DOMAIN r /\ r[i - 1] = q[i]
    BY <1>1, <2>2
  <2>4. \A j \in DOMAIN r : j > i - 1 => j + 1 \in DOMAIN q /\ j + 1 > i /\ r[j] = q[j + 1]
    BY <1>1, <2>1
  <2>5. \A j \in DOMAIN r : j > i - 1 => ~Sets(r[j], p)
    BY <2>1, <2>4, Zenon
  <2> QED
    BY <2>1, <2>3, <2>5, Zenon DEF LastWord, r
<1> QED
  BY <1>2, <1>3, Zenon

LEMMA TailWord ==
  ASSUME NEW V, NEW q \in Seq(V), q # <<>>, NEW b, NEW b2, NEW l, NEW p,
         Sets(Head(q), p), p \in b2 <=> BlockingPuts(Head(q), p), LastWord(q, b, l, p)
  PROVE  LastWord(Tail(q), b2, l, p)
<1> DEFINE r == Tail(q)
<1>1. /\ DOMAIN r = 1..(Len(q) - 1) /\ DOMAIN q = 1..Len(q) /\ Len(q) \in Nat \ {0}
      /\ \A i \in DOMAIN r : r[i] = q[i + 1]
      /\ Head(q) = q[1]
  OBVIOUS
<1> HIDE DEF r
<1>2. 1 \in DOMAIN q
  BY <1>1
<1>3. PICK i \in DOMAIN q : /\ Sets(q[i], p) /\ (BlockingPuts(q[i], p) <=> p \in l)
                            /\ \A j \in DOMAIN q : j > i => ~Sets(q[j], p)
  BY <1>1, <1>2, Zenon DEF LastWord
<1>4. CASE i = 1
  <2>1. \A j \in DOMAIN r : j + 1 \in DOMAIN q /\ j + 1 > i /\ r[j] = q[j + 1]
    BY <1>1, <1>4
  <2>2. \A j \in DOMAIN r : ~Sets(r[j], p)
    BY <1>3, <2>1, Zenon
  <2>3. p \in b2 <=> p \in l
    BY <1>1, <1>3, <1>4, Zenon
  <2> QED
    BY <2>2, <2>3, Zenon DEF LastWord, r
<1>5. CASE i # 1
  <2>3. i - 1 \in DOMAIN r /\ r[i - 1] = q[i]
    BY <1>1, <1>5
  <2>4. \A j \in DOMAIN r : j > i - 1 => j + 1 \in DOMAIN q /\ j + 1 > i /\ r[j] = q[j + 1]
    BY <1>1, <1>3
  <2>5. \A j \in DOMAIN r : j > i - 1 => ~Sets(r[j], p)
    BY <1>3, <2>4, Zenon
  <2> QED
    BY <1>3, <2>3, <2>5, Zenon DEF LastWord, r
<1> QED
  BY <1>4, <1>5

LEMMA AppendShield ==
  ASSUME NEW V, NEW q \in Seq(V), NEW m \in V, NEW b, NEW p,
         Harmless(m, p), m # <<"archived", p>>, Shielded(q, b, p)
  PROVE  Shielded(Append(q, m), b, p)
<1> DEFINE r == Append(q, m)
<1>1. /\ DOMAIN r = 1..(Len(q) + 1) /\ DOMAIN q = 1..Len(q) /\ Len(q) \in Nat
      /\ \A i \in DOMAIN q : r[i] = q[i]
      /\ r[Len(q) + 1] = m
  OBVIOUS
<1> HIDE DEF r
<1>2. \A i \in DOMAIN r : i \in DOMAIN q \/ r[i] = m
  BY <1>1
<1>3. DOMAIN q \subseteq DOMAIN r
  BY <1>1
<1> QED
  BY <1>1, <1>2, <1>3, Zenon DEF Shielded, r

LEMMA ConcatShield ==
  ASSUME NEW V, NEW q \in Seq(V), NEW t \in Seq(V), NEW b, NEW p,
         \A i \in DOMAIN t : Harmless(t[i], p), Listed(q, b, p), Shielded(q, b, p)
  PROVE  Shielded(q \o t, b, p)
<1> DEFINE r == q \o t
<1>1. /\ DOMAIN r = 1..(Len(q) + Len(t)) /\ DOMAIN q = 1..Len(q) /\ DOMAIN t = 1..Len(t)
      /\ Len(q) \in Nat /\ Len(t) \in Nat
      /\ \A i \in 1..(Len(q) + Len(t)) : r[i] = IF i <= Len(q) THEN q[i] ELSE t[i - Len(q)]
  BY ConcatProperties
<1> HIDE DEF r
<1>2. \A i \in DOMAIN q : i \in DOMAIN r /\ r[i] = q[i]
  BY <1>1
<1>3. \A i \in DOMAIN r : i \notin DOMAIN q => i - Len(q) \in DOMAIN t /\ r[i] = t[i - Len(q)]
  BY <1>1
<1>4. \A i \in DOMAIN r : i \notin DOMAIN q => \A j \in DOMAIN q : j < i
  BY <1>1
<1>5. \A i \in DOMAIN r : Harmless(r[i], p)
  BY <1>2, <1>3, Zenon DEF Shielded
<1> QED
  BY <1>2, <1>4, <1>5, Zenon DEF Shielded, Listed, r

LEMMA TailShield ==
  ASSUME NEW V, NEW q \in Seq(V), q # <<>>, NEW b, NEW b2, NEW p,
         Head(q)[1] = "list" => p \in b2, p \in b => p \in b2, Shielded(q, b, p)
  PROVE  /\ Shielded(Tail(q), b2, p)
         /\ Listed(q, b, p) => Listed(Tail(q), b2, p)
<1> DEFINE r == Tail(q)
<1>1. /\ DOMAIN r = 1..(Len(q) - 1) /\ DOMAIN q = 1..Len(q) /\ Len(q) \in Nat \ {0}
      /\ \A i \in DOMAIN r : r[i] = q[i + 1]
      /\ Head(q) = q[1]
  OBVIOUS
<1> HIDE DEF r
<1>2. \A i \in DOMAIN r : i + 1 \in DOMAIN q
  BY <1>1
<1>3. \A j \in DOMAIN q : j # 1 => j - 1 \in DOMAIN r /\ r[j - 1] = q[j]
  BY <1>1
<1>4. \A j \in DOMAIN q : \A i \in DOMAIN r : j < i + 1 => j - 1 < i
  BY <1>1
<1>5. p \in b2 \/ \A j \in DOMAIN q : q[j][1] = "list" => j # 1
  BY <1>1
<1>6. \A i \in DOMAIN r : Harmless(r[i], p)
  BY <1>1, <1>2, Zenon DEF Shielded
<1>7. p \in b2 \/ \A i \in DOMAIN r : r[i] = <<"archived", p>> =>
        \E j \in DOMAIN r : j < i /\ r[j][1] = "list"
  <2> SUFFICES ASSUME p \notin b2, NEW i \in DOMAIN r, r[i] = <<"archived", p>>
               PROVE  \E j \in DOMAIN r : j < i /\ r[j][1] = "list"
    OBVIOUS
  <2>1. PICK j \in DOMAIN q : j < i + 1 /\ q[j][1] = "list"
    BY <1>1, <1>2, Zenon DEF Shielded
  <2> QED
    BY <1>3, <1>4, <1>5, <2>1, Zenon
<1>8. Listed(q, b, p) => Listed(r, b2, p)
  BY <1>3, <1>5, Zenon DEF Listed
<1> QED
  BY <1>6, <1>7, <1>8, Zenon DEF Shielded, r

-----------------------------------------------------------------------------
(* Steps of the stream.                                                      *)

LEMMA PushSynced ==
  ASSUME TypeInv, Synced, NEW m \in Pieces, on' = on, blocked' = blocked,
         in' = IF on THEN Append(in, m) ELSE in,
         Fetching /\ ~Fetching' => m[1] = "list",
         \A p \in Peers : Sets(m, p) => (BlockingPuts(m, p) <=> p \in listed'),
         \A p \in Peers : ~Sets(m, p) => (p \in listed <=> p \in listed')
  PROVE  Synced'
<1> SUFFICES ASSUME on, ~Fetching', NEW p \in Peers
             PROVE  LastWord(Append(in, m), blocked, listed', p)
  BY Zenon DEF Synced
<1>1. in \in Seq(Pieces)
  BY DEF TypeInv
<1>2. CASE Sets(m, p)
  BY <1>1, <1>2, AppendWord, Zenon
<1>3. CASE ~Sets(m, p)
  <2>1. ~Fetching
    BY <1>3 DEF Sets
  <2>2. LastWord(in, blocked, listed, p)
    BY <2>1 DEF Synced
  <2> QED
    BY <1>1, <1>3, <2>2, AppendSilent, Zenon
<1> QED
  BY <1>2, <1>3

LEMMA PushShield ==
  ASSUME TypeInv, ShieldInv, NEW m \in Pieces, on' = on, blocked' = blocked,
         in' = IF on THEN Append(in, m) ELSE in, steady' \subseteq steady,
         Fetching /\ ~Fetching' => m[1] = "list",
         m[1] # "archived", \A p \in steady' : Harmless(m, p)
  PROVE  ShieldInv'
<1> SUFFICES ASSUME NEW p \in steady'
             PROVE  /\ Shielded(in', blocked, p)
                    /\ on /\ ~Fetching' => Listed(in', blocked, p)
  BY Zenon DEF ShieldInv
<1>1. Shielded(in, blocked, p) /\ (on /\ ~Fetching => Listed(in, blocked, p))
  BY DEF ShieldInv
<1>2. CASE ~on
  BY <1>1, <1>2
<1>3. CASE on
  <2>1. in' = Append(in, m) /\ in \in Seq(Pieces)
    BY <1>3 DEF TypeInv
  <2>2. m # <<"archived", p>>
    OBVIOUS
  <2>3. Shielded(in', blocked, p)
    BY <1>1, <2>1, <2>2, AppendShield
  <2>4. /\ DOMAIN in \subseteq DOMAIN in' /\ Len(in) + 1 \in DOMAIN in'
        /\ in'[Len(in) + 1] = m /\ \A i \in DOMAIN in : in'[i] = in[i]
    BY <2>1
  <2>5. ~Fetching' => Listed(in', blocked, p)
    BY <1>1, <1>3, <2>4, Zenon DEF Listed
  <2> QED
    BY <2>3, <2>5
<1> QED
  BY <1>2, <1>3

LEMMA PopSynced ==
  ASSUME TypeInv, Synced, in # <<>>, in' = Tail(in), on' = on, listed' = listed, out' = out,
         \A p \in Peers : Sets(Head(in), p) => (p \in blocked' <=> BlockingPuts(Head(in), p)),
         \A p \in Peers : ~Sets(Head(in), p) => (p \in blocked <=> p \in blocked')
  PROVE  Synced'
<1> SUFFICES ASSUME on, ~Fetching', NEW p \in Peers
             PROVE  LastWord(Tail(in), blocked', listed, p)
  BY Zenon DEF Synced
<1>1. in \in Seq(Pieces)
  BY DEF TypeInv
<1>2. LastWord(in, blocked, listed, p)
  BY DEF Synced, Fetching
<1>3. CASE Sets(Head(in), p)
  BY <1>1, <1>2, <1>3, TailWord, Zenon
<1>4. CASE ~Sets(Head(in), p)
  BY <1>1, <1>2, <1>4, TailSilent, Zenon
<1> QED
  BY <1>3, <1>4

LEMMA PopShield ==
  ASSUME TypeInv, ShieldInv, in # <<>>, in' = Tail(in), on' = on, steady' = steady, out' = out,
         \A p \in steady : /\ Head(in)[1] = "list" => p \in blocked'
                           /\ p \in blocked => p \in blocked'
  PROVE  ShieldInv'
<1> SUFFICES ASSUME NEW p \in steady
             PROVE  /\ Shielded(Tail(in), blocked', p)
                    /\ on /\ ~Fetching => Listed(Tail(in), blocked', p)
  BY Zenon DEF ShieldInv, Fetching
<1>1. Shielded(in, blocked, p) /\ (on /\ ~Fetching => Listed(in, blocked, p))
  BY DEF ShieldInv
<1>2. in \in Seq(Pieces)
  BY DEF TypeInv
<1>3. (Head(in)[1] = "list" => p \in blocked') /\ (p \in blocked => p \in blocked')
  OBVIOUS
<1>4. /\ Shielded(Tail(in), blocked', p)
      /\ Listed(in, blocked, p) => Listed(Tail(in), blocked', p)
  BY <1>1, <1>2, <1>3, TailShield, Zenon
<1> QED
  BY <1>1, <1>4

\* The blocklist is the first thing a session asks for.
LEMMA ServedInOrder ==
  ASSUME TypeInv, FetchFirst, out # <<>>, out' = Tail(out)
  PROVE  /\ out' \in Seq(Reqs) /\ FetchFirst' /\ ~Fetching'
         /\ Fetching => Head(out) = <<"fetch">>
<1>1. out \in Seq(Reqs)
  BY DEF TypeInv
<1>2. /\ out' \in Seq(Reqs)
      /\ \A k \in DOMAIN out' : k + 1 \in DOMAIN out /\ out'[k] = out[k + 1] /\ k + 1 # 1
      /\ Head(out) = out[1]
  BY <1>1
<1> QED
  BY <1>2, Zenon DEF FetchFirst, Fetching

LEMMA OrderIsNoFetch ==
  ASSUME TypeInv, FetchFirst, NEW o \in BL!Orders, out' = Append(out, o)
  PROVE  out' \in Seq(Reqs) /\ FetchFirst' /\ (Fetching' <=> Fetching)
<1>1. out \in Seq(Reqs) /\ o \in Reqs
  BY DEF TypeInv, Reqs
<1>2. o # <<"fetch">>
  BY DEF BL!Orders
<1>3. /\ out' \in Seq(Reqs) /\ DOMAIN out \subseteq DOMAIN out'
      /\ \A k \in DOMAIN out : out'[k] = out[k]
      /\ \A k \in DOMAIN out' : k \in DOMAIN out \/ out'[k] = o
  BY <1>1
<1> QED
  BY <1>2, <1>3, Zenon DEF FetchFirst, Fetching

-----------------------------------------------------------------------------
(* The actions.                                                              *)

LEMMA NoPieces == <<>> \in Seq(Pieces) /\ <<>> \in Seq(Reqs)
OBVIOUS

LEMMA BlockingStart == BL!Init => BlockingIInv
<1> SUFFICES ASSUME BL!Init PROVE BlockingIInv
  OBVIOUS
<1>1. TypeInv
  BY NoPieces, Zenon DEF BL!Init, TypeInv
<1> QED
  BY <1>1 DEF BL!Init, BlockingIInv, FetchFirst, Synced, ShieldInv, BL!ArchiveFiltered

LEMMA OnlineStep ==
  ASSUME BlockingIInv, BL!Online
  PROVE  BlockingIInv'
<1>1. /\ on' = TRUE /\ blocked' = {} /\ out' = <<<<"fetch">>, <<"query">>>> /\ in' = <<>>
      /\ steady' = listed /\ UNCHANGED <<blockingOrders, listed, blockingKept, leaked>>
  BY DEF BL!Online, BL!OnlineIqs, BL!uiVars, BL!serverVars
<1>2. TypeInv'
  <2>1. out' \in Seq(Reqs)
    BY <1>1 DEF Reqs
  <2> QED
    BY <1>1, <2>1 DEF BlockingIInv, TypeInv
<1>3. FetchFirst' /\ Fetching'
  BY <1>1 DEF FetchFirst, Fetching
<1> QED
  BY <1>1, <1>2, <1>3
     DEF BlockingIInv, Synced, ShieldInv, Shielded, BL!ArchiveFiltered

LEMMA SessionEndStep ==
  ASSUME BlockingIInv, BL!SessionEnd
  PROVE  BlockingIInv'
<1>1. /\ on' = FALSE /\ blocked' = {} /\ out' = <<>> /\ in' = <<>>
      /\ steady' = {} /\ UNCHANGED <<blockingOrders, listed, blockingKept, leaked>>
  BY DEF BL!SessionEnd, BL!serverVars
<1>2. TypeInv'
  BY <1>1, NoPieces, Zenon DEF BlockingIInv, TypeInv
<1> QED
  BY <1>1, <1>2 DEF BlockingIInv, FetchFirst, Synced, ShieldInv, BL!ArchiveFiltered

\* Nothing of the session, the stream or the server changes.
LEMMA QuietStep ==
  ASSUME BlockingIInv, UNCHANGED <<BL!engineVars, BL!stream, BL!serverVars, BL!history>>, blockingOrders' \subseteq BL!Orders
  PROVE  BlockingIInv'
BY DEF BlockingIInv, TypeInv, FetchFirst, Synced, ShieldInv, BL!ArchiveFiltered, Fetching,
   BL!engineVars,
       BL!stream, BL!serverVars, BL!history

LEMMA CommandStep ==
  ASSUME BlockingIInv, BL!Command
  PROVE  BlockingIInv'
<1>1. PICK o \in blockingOrders :
        /\ blockingOrders' = blockingOrders \ {o}
        /\ out' = IF on THEN Append(out, o) ELSE out
        /\ UNCHANGED <<BL!engineVars, in, BL!serverVars, BL!history>>
  BY DEF BL!Command
<1>2. TypeInv /\ FetchFirst /\ o \in BL!Orders
  BY <1>1 DEF BlockingIInv, TypeInv
<1>3. out' \in Seq(Reqs) /\ FetchFirst' /\ (Fetching' <=> Fetching) /\ (~on => out' = <<>>)
  <2>1. CASE on
    BY <1>1, <1>2, <2>1, OrderIsNoFetch
  <2>2. CASE ~on
    BY <1>1, <1>2, <2>2 DEF TypeInv, FetchFirst, Fetching
  <2> QED
    BY <2>1, <2>2
<1> QED
  BY <1>1, <1>3 DEF BlockingIInv, TypeInv, Synced, ShieldInv, BL!ArchiveFiltered, BL!engineVars,
                    BL!serverVars, BL!history

LEMMA HandleIqStep ==
  ASSUME BlockingIInv, BL!HandleIq
  PROVE  BlockingIInv'
<1> DEFINE m == Head(in)
<1>1. /\ on /\ in # <<>> /\ m[1] \in {"list", "block", "unblock"} /\ in' = Tail(in)
      /\ m[1] = "list" => blocked' = m[2]
      /\ m[1] = "block" => blocked' = blocked \cup m[2]
      /\ m[1] = "unblock" => blocked' = IF m[2] = {} THEN {} ELSE blocked \ m[2]
      /\ UNCHANGED <<blockingOrders, on, out, listed, blockingKept, steady, leaked>>
  BY DEF BL!HandleIq, BL!OnBlocklistResult, BL!OnBlockPush, BL!OnUnblockPush, BL!uiVars,
     BL!serverVars, BL!history
<1>2. TypeInv /\ Synced /\ ShieldInv /\ in \in Seq(Pieces)
  BY DEF BlockingIInv, TypeInv
<1>3. in' \in Seq(Pieces) /\ 1 \in DOMAIN in /\ m = in[1] /\ m \in Pieces
  BY <1>1, <1>2
<1>3a. blocked' \subseteq Peers
  <2>1. m[2] \subseteq Peers
    BY <1>1, <1>3 DEF Pieces, BL!Kinds
  <2> QED
    BY <1>1, <1>2, <2>1 DEF TypeInv
<1> HIDE DEF m
<1>4. TypeInv' /\ FetchFirst'
  BY <1>1, <1>3, <1>3a DEF BlockingIInv, TypeInv, FetchFirst
<1>5. \A p \in Peers : Sets(m, p) => (p \in blocked' <=> BlockingPuts(m, p))
  BY <1>1, Zenon DEF Sets, BlockingPuts
<1>6. \A p \in Peers : ~Sets(m, p) => (p \in blocked <=> p \in blocked')
  BY <1>1, Zenon DEF Sets
<1>7. Synced'
  BY <1>1, <1>2, <1>5, <1>6, PopSynced DEF m
<1>8. \A p \in steady : Harmless(m, p)
  BY <1>2, <1>3, Zenon DEF ShieldInv, Shielded
<1>9. \A p \in steady : (m[1] = "list" => p \in blocked') /\ (p \in blocked => p \in blocked')
  BY <1>1, <1>8, Zenon DEF Harmless
<1>10. ShieldInv'
  BY <1>1, <1>2, <1>9, PopShield DEF m
<1> QED
  BY <1>1, <1>4, <1>7, <1>10 DEF BlockingIInv, BL!ArchiveFiltered

LEMMA HandleMessageStep ==
  ASSUME BlockingIInv, BL!HandleMessage
  PROVE  BlockingIInv'
<1> DEFINE m == Head(in)
<1>1. /\ on /\ in # <<>> /\ m[1] \in BL!Kinds /\ in' = Tail(in)
      /\ leaked' = IF BL!Passes(m[1], m[2]) /\ m[2] \in steady THEN leaked \cup {m[2]} ELSE leaked
      /\ UNCHANGED <<blockingOrders, on, blocked, out, listed, blockingKept, steady>>
  BY DEF BL!HandleMessage, BL!engineVars, BL!serverVars
<1>2. TypeInv /\ Synced /\ ShieldInv /\ in \in Seq(Pieces)
  BY DEF BlockingIInv, TypeInv
<1>3. /\ in' \in Seq(Pieces) /\ 1 \in DOMAIN in /\ m = in[1] /\ m \in Pieces
      /\ \A j \in DOMAIN in : ~(j < 1)
  BY <1>1, <1>2
<1> HIDE DEF m
<1>4. TypeInv' /\ FetchFirst'
  BY <1>1, <1>3 DEF BlockingIInv, TypeInv, FetchFirst
<1>5. \A p \in Peers : ~Sets(m, p)
  BY <1>1 DEF Sets, BL!Kinds
<1>6. Synced'
  BY <1>1, <1>2, <1>5, PopSynced DEF m
<1>7. m[1] # "list"
  BY <1>1 DEF BL!Kinds
<1>8. ShieldInv'
  BY <1>1, <1>2, <1>7, PopShield DEF m
<1>9. BL!ArchiveFiltered'
  <2> SUFFICES ASSUME BL!Passes(m[1], m[2]), m[2] \in steady PROVE FALSE
    BY <1>1 DEF BlockingIInv, BL!ArchiveFiltered
  <2>1. Shielded(in, blocked, m[2])
    BY <1>2 DEF ShieldInv
  <2>2. m[1] = "archived"
    BY <1>1, <1>3, <2>1, Zenon DEF Shielded, Harmless
  <2>3. m = <<"archived", m[2]>>
    BY <1>3, <2>2 DEF Pieces
  <2>4. m[2] \in blocked
    BY <1>3, <2>1, <2>3, Zenon DEF Shielded
  <2> QED
    BY <2>2, <2>4 DEF BL!Passes
<1> QED
  BY <1>4, <1>6, <1>8, <1>9 DEF BlockingIInv

LEMMA SizeOfKept == ASSUME NEW S PROVE BL!Cardinality(S) = Cardinality(S)
  BY Zenon DEF BL!Cardinality, Cardinality

LEMMA ServeStep == ASSUME BlockingIInv, BL!Serve PROVE BlockingIInv'
<1> DEFINE o == Head(out)
<1>1. /\ on /\ out # <<>> /\ out' = Tail(out)
      /\ UNCHANGED <<blockingOrders, on, blocked, blockingKept, leaked>>
  BY DEF BL!Serve, BL!engineVars
<1>2. TypeInv /\ FetchFirst /\ Synced /\ ShieldInv /\ out \in Seq(Reqs) /\ in \in Seq(Pieces)
  BY DEF BlockingIInv, TypeInv
<1>3. out' \in Seq(Reqs) /\ FetchFirst' /\ ~Fetching' /\ (Fetching => o = <<"fetch">>)
  BY <1>1, <1>2, ServedInOrder
<1>4. o \in Reqs
  BY <1>1, <1>2
<1>5. BL!ArchiveFiltered'
  BY <1>1 DEF BlockingIInv, BL!ArchiveFiltered
<1>6. CASE o[1] = "fetch"
  <2> DEFINE m == <<"list", listed>>
  <2>1. in' = Append(in, m) /\ UNCHANGED <<listed, steady>>
    BY <1>1, <1>6 DEF BL!Serve, BL!Pushed
  <2>2. m \in Pieces /\ m[1] = "list" /\ m[2] = listed
    BY <1>2 DEF Pieces, TypeInv
  <2> HIDE DEF m
  <2>3. TypeInv'
    BY <1>1, <1>2, <1>3, <2>1, <2>2 DEF TypeInv
  <2>4. Synced'
    BY <1>1, <1>2, <2>1, <2>2, PushSynced DEF Sets, BlockingPuts
  <2>5. \A p \in steady' : Harmless(m, p)
    BY <1>2, <2>1, <2>2 DEF Harmless, TypeInv, BL!Kinds
  <2>6. ShieldInv'
    BY <1>1, <1>2, <2>1, <2>2, <2>5, PushShield
  <2> QED
    BY <1>3, <1>5, <2>3, <2>4, <2>6 DEF BlockingIInv
<1>7. CASE o[1] = "query"
  <2>1. ~Fetching
    BY <1>3, <1>7
  <2>2. PICK s \in [1..Cardinality(blockingKept) -> blockingKept] :
          in' = in \o [i \in DOMAIN s |-> <<"archived", s[i]>>]
    <3>1. PICK s \in {t \in [1..BL!Cardinality(blockingKept) -> blockingKept] :
                        \A i, j \in DOMAIN t : t[i] = t[j] => i = j} :
            in' = in \o [i \in DOMAIN s |-> <<"archived", s[i]>>]
      BY <1>1, <1>7 DEF BL!Serve
    <3> QED
      BY <3>1, SizeOfKept, Zenon
  <2>3. UNCHANGED <<listed, steady>>
    BY <1>1, <1>7 DEF BL!Serve
  <2> DEFINE t == [i \in DOMAIN s |-> <<"archived", s[i]>>]
  <2>4. IsFiniteSet(blockingKept) /\ Cardinality(blockingKept) \in Nat /\ blockingKept \subseteq Peers
    BY <1>2, BlockingAssumption, FS_Subset, FS_CardinalityType DEF TypeInv
  <2>5. \A i \in DOMAIN s : t[i] \in Pieces /\ t[i] = <<"archived", s[i]>>
    BY <2>2, <2>4 DEF Pieces, BL!Kinds
  <2>6. t \in Seq(Pieces) /\ DOMAIN t = DOMAIN s
    <3>1. DOMAIN t = 1..Cardinality(blockingKept)
      BY <2>2
    <3>2. t \in [1..Cardinality(blockingKept) -> Pieces]
      BY <2>5, <3>1
    <3> QED
      BY <2>4, <3>1, <3>2, SeqDef
  <2>7. \A i \in DOMAIN t : t[i][1] = "archived"
    BY <2>5, <2>6
  <2>8. in' = in \o t
    BY <2>2
  <2> HIDE DEF t
  <2>9. TypeInv'
    BY <1>1, <1>2, <1>3, <2>3, <2>6, <2>8 DEF TypeInv
  <2>10. \A p \in Peers : \A i \in DOMAIN t : ~Sets(t[i], p)
    BY <2>7 DEF Sets
  <2>11. \A p \in Peers : \A i \in DOMAIN t : Harmless(t[i], p)
    BY <2>7 DEF Harmless, BL!Kinds
  <2>12. Synced'
    <3> SUFFICES ASSUME NEW p \in Peers PROVE LastWord(in \o t, blocked, listed, p)
      BY <1>1, <2>3, <2>8, Zenon DEF Synced
    <3>1. LastWord(in, blocked, listed, p)
      BY <1>1, <1>2, <2>1 DEF Synced
    <3> QED
      BY <1>2, <2>6, <2>10, <3>1, ConcatSilent, Zenon
  <2>13. ShieldInv'
    <3> SUFFICES ASSUME NEW p \in steady
                 PROVE  Shielded(in \o t, blocked, p) /\ Listed(in \o t, blocked, p)
      BY <1>1, <2>3, <2>8, Zenon DEF ShieldInv
    <3>1. Shielded(in, blocked, p) /\ Listed(in, blocked, p) /\ p \in Peers
      BY <1>1, <1>2, <2>1 DEF ShieldInv, TypeInv
    <3>2. Shielded(in \o t, blocked, p)
      BY <1>2, <2>6, <2>11, <3>1, ConcatShield, Zenon
    <3>3. \A i \in DOMAIN in : i \in DOMAIN (in \o t) /\ (in \o t)[i] = in[i]
      BY <1>2, <2>6
    <3>4. Listed(in \o t, blocked, p)
      BY <3>1, <3>3, Zenon DEF Listed
    <3> QED
      BY <3>2, <3>4
  <2> QED
    BY <1>3, <1>5, <2>9, <2>12, <2>13 DEF BlockingIInv
<1>8. CASE o \in BL!Orders
  <2>1. ~Fetching
    BY <1>3, <1>8 DEF BL!Orders
  <2>2. o[1] \in {"block", "unblock"} /\ o[2] \in Peers
    BY <1>8 DEF BL!Orders
  <2> DEFINE m == <<o[1], {o[2]}>>
  <2>3. /\ in' = Append(in, m)
        /\ o[1] = "block" => listed' = listed \cup {o[2]} /\ steady' = steady
        /\ o[1] = "unblock" => listed' = listed \ {o[2]} /\ steady' = steady \ {o[2]}
    BY <1>1, <2>2 DEF BL!Serve, BL!Pushed
  <2>4. m \in Pieces /\ m[1] = o[1] /\ m[2] = {o[2]}
    BY <2>2 DEF Pieces
  <2> HIDE DEF m, o
  <2>5. listed' \subseteq Peers /\ steady' \subseteq listed' /\ steady' \subseteq steady
    BY <1>2, <2>2, <2>3 DEF TypeInv
  <2>6. TypeInv'
    BY <1>1, <1>2, <1>3, <2>3, <2>4, <2>5 DEF TypeInv
  <2>7. /\ \A p \in Peers : Sets(m, p) => (BlockingPuts(m, p) <=> p \in listed')
        /\ \A p \in Peers : ~Sets(m, p) => (p \in listed <=> p \in listed')
        /\ \A p \in steady' : Harmless(m, p)
    BY <2>2, <2>3, <2>4 DEF Sets, BlockingPuts, Harmless, BL!Kinds
  <2>8. Synced'
    BY <1>1, <1>2, <2>1, <2>3, <2>4, <2>7, PushSynced
  <2>9. ShieldInv'
    BY <1>1, <1>2, <2>1, <2>2, <2>3, <2>4, <2>5, <2>7, PushShield
  <2> QED
    BY <1>3, <1>5, <2>6, <2>8, <2>9 DEF BlockingIInv
<1> QED
  BY <1>4, <1>6, <1>7, <1>8 DEF Reqs

\* A piece the server sends of its own accord.
LEMMA PushStep ==
  ASSUME BlockingIInv, NEW m \in Pieces, in' = IF on THEN Append(in, m) ELSE in,
         UNCHANGED <<BL!engineVars, out, blockingOrders, leaked>>, blockingKept' \subseteq Peers,
         listed' \subseteq Peers, steady' \subseteq listed', steady' \subseteq steady,
         m[1] # "archived",
         \A p \in Peers : Sets(m, p) => (BlockingPuts(m, p) <=> p \in listed'),
         \A p \in Peers : ~Sets(m, p) => (p \in listed <=> p \in listed'),
         \A p \in steady' : Harmless(m, p)
  PROVE  BlockingIInv'
<1>1. TypeInv /\ FetchFirst /\ Synced /\ ShieldInv /\ in \in Seq(Pieces)
  BY DEF BlockingIInv, TypeInv
<1>2. /\ on' = on /\ blocked' = blocked /\ out' = out /\ blockingOrders' = blockingOrders /\ leaked' = leaked
      /\ Fetching' <=> Fetching
  BY DEF BL!engineVars, Fetching
<1>3. TypeInv'
  BY <1>1, <1>2 DEF TypeInv
<1>4. FetchFirst' /\ BL!ArchiveFiltered'
  BY <1>1, <1>2 DEF BlockingIInv, FetchFirst, BL!ArchiveFiltered
<1>5. Synced'
  BY <1>1, <1>2, PushSynced
<1>6. ShieldInv'
  BY <1>1, <1>2, PushShield
<1> QED
  BY <1>3, <1>4, <1>5, <1>6 DEF BlockingIInv

LEMMA OtherClientStep ==
  ASSUME BlockingIInv, BL!OtherClient
  PROVE  BlockingIInv'
<1>1. UNCHANGED <<blockingOrders, BL!engineVars, out, blockingKept, leaked>>
  BY DEF BL!OtherClient
<1>2. steady \subseteq listed /\ listed \subseteq Peers /\ blockingKept \subseteq Peers
  BY DEF BlockingIInv, TypeInv
<1>3. ASSUME NEW p \in Peers, listed' = listed \cup {p}, BL!Pushed(<<"block", {p}>>), steady' = steady
      PROVE  BlockingIInv'
  <2> DEFINE m == <<"block", {p}>>
  <2>1. m \in Pieces /\ m[1] = "block" /\ m[2] = {p} /\ in' = IF on THEN Append(in, m) ELSE in
    BY <1>3 DEF Pieces, BL!Pushed
  <2> HIDE DEF m
  <2>2. /\ \A q \in Peers : Sets(m, q) => (BlockingPuts(m, q) <=> q \in listed')
        /\ \A q \in Peers : ~Sets(m, q) => (q \in listed <=> q \in listed')
        /\ \A q \in steady' : Harmless(m, q)
    BY <1>3, <2>1 DEF Sets, BlockingPuts, Harmless, BL!Kinds
  <2>3. listed' \subseteq Peers /\ steady' \subseteq listed' /\ steady' \subseteq steady
    BY <1>2, <1>3
  <2> QED
    BY <1>1, <1>2, <2>1, <2>2, <2>3, PushStep
<1>4. ASSUME NEW p \in listed, listed' = listed \ {p}, BL!Pushed(<<"unblock", {p}>>),
             steady' = steady \ {p}
      PROVE  BlockingIInv'
  <2> DEFINE m == <<"unblock", {p}>>
  <2>1. m \in Pieces /\ m[1] = "unblock" /\ m[2] = {p} /\ in' = IF on THEN Append(in, m) ELSE in
    BY <1>2, <1>4 DEF Pieces, BL!Pushed
  <2> HIDE DEF m
  <2>2. /\ \A q \in Peers : Sets(m, q) => (BlockingPuts(m, q) <=> q \in listed')
        /\ \A q \in Peers : ~Sets(m, q) => (q \in listed <=> q \in listed')
        /\ \A q \in steady' : Harmless(m, q)
    BY <1>4, <2>1 DEF Sets, BlockingPuts, Harmless, BL!Kinds
  <2>3. listed' \subseteq Peers /\ steady' \subseteq listed' /\ steady' \subseteq steady
    BY <1>2, <1>4
  <2> QED
    BY <1>1, <1>2, <2>1, <2>2, <2>3, PushStep
<1>5. ASSUME listed' = {}, BL!Pushed(<<"unblock", {}>>), steady' = {}
      PROVE  BlockingIInv'
  <2> DEFINE m == <<"unblock", {}>>
  <2>1. m \in Pieces /\ m[1] = "unblock" /\ m[2] = {} /\ in' = IF on THEN Append(in, m) ELSE in
    BY <1>5 DEF Pieces, BL!Pushed
  <2> HIDE DEF m
  <2>2. /\ \A q \in Peers : Sets(m, q) => (BlockingPuts(m, q) <=> q \in listed')
        /\ \A q \in Peers : ~Sets(m, q) => (q \in listed <=> q \in listed')
        /\ \A q \in steady' : Harmless(m, q)
    BY <1>5, <2>1 DEF Sets, BlockingPuts
  <2>3. listed' \subseteq Peers /\ steady' \subseteq listed' /\ steady' \subseteq steady
    BY <1>5
  <2> QED
    BY <1>1, <1>2, <2>1, <2>2, <2>3, PushStep
<1> QED
  BY <1>3, <1>4, <1>5, Zenon DEF BL!OtherClient

LEMMA SendStep ==
  ASSUME BlockingIInv, NEW p \in Peers, BL!Send(p)
  PROVE  BlockingIInv'
<1>1. p \notin listed /\ UNCHANGED <<blockingOrders, BL!engineVars, out, listed, steady, leaked>>
  BY DEF BL!Send, BL!history
<1>2. PICK kind \in BL!Kinds \ {"archived"} :
        BL!Pushed(<<kind, p>>) /\ blockingKept' = IF kind = "body" THEN blockingKept \cup {p} ELSE blockingKept
  BY DEF BL!Send
<1>3. steady \subseteq listed /\ listed \subseteq Peers /\ blockingKept' \subseteq Peers
  BY <1>2 DEF BlockingIInv, TypeInv
<1> DEFINE m == <<kind, p>>
<1>4. /\ m \in Pieces /\ m[1] \in BL!Kinds \ {"archived"} /\ m[2] = p
      /\ in' = IF on THEN Append(in, m) ELSE in
  BY <1>2 DEF Pieces, BL!Pushed
<1> HIDE DEF m
<1>5. /\ \A q \in Peers : ~Sets(m, q)
      /\ \A q \in steady' : Harmless(m, q)
  BY <1>1, <1>3, <1>4 DEF Sets, Harmless, BL!Kinds
<1>6. listed' \subseteq Peers /\ steady' \subseteq listed' /\ steady' \subseteq steady
  BY <1>1, <1>3
<1> QED
  BY <1>1, <1>3, <1>4, <1>5, <1>6, PushStep

LEMMA BlockingNext == BlockingIInv /\ [BL!Next]_(BL!vars) => BlockingIInv'
<1> SUFFICES ASSUME BlockingIInv, [BL!Next]_(BL!vars) PROVE BlockingIInv'
  OBVIOUS
<1>0. blockingOrders \subseteq BL!Orders
  BY DEF BlockingIInv, TypeInv
<1>1. CASE BL!OpenPanel
  BY <1>0, <1>1, QuietStep, Zenon DEF BL!OpenPanel
<1>2. CASE BL!Online
  BY <1>2, OnlineStep
<1>3. CASE BL!SessionEnd
  BY <1>3, SessionEndStep
<1>4. CASE BL!Command
  BY <1>4, CommandStep
<1>5. CASE BL!HandleIq
  BY <1>5, HandleIqStep
<1>6. CASE BL!HandleMessage
  BY <1>6, HandleMessageStep
<1>7. CASE BL!Serve
  BY <1>7, ServeStep
<1>8. CASE BL!OtherClient
  BY <1>8, OtherClientStep
<1>9. ASSUME NEW p \in Peers, BL!BlockPeer(p) \/ BL!AddJid(p) \/ BL!Unblock(p)
      PROVE  BlockingIInv'
  <2>1. UNCHANGED <<BL!engineVars, BL!stream, BL!serverVars, BL!history>>
    BY <1>9, Zenon DEF BL!BlockPeer, BL!AddJid, BL!Unblock
  <2>2. blockingOrders' = blockingOrders \cup {<<"block", p>>} \/ blockingOrders' = blockingOrders \cup {<<"unblock", p>>}
    BY <1>9, Zenon DEF BL!BlockPeer, BL!AddJid, BL!Unblock
  <2>3. blockingOrders' \subseteq BL!Orders
    BY <1>0, <2>2 DEF BL!Orders
  <2> QED
    BY <2>1, <2>3, QuietStep
<1>10. ASSUME NEW p \in Peers, BL!Send(p)
       PROVE  BlockingIInv'
  BY <1>10, SendStep
<1>11. CASE UNCHANGED BL!vars
  BY <1>0, <1>11, QuietStep, Zenon DEF BL!vars
<1> QED
  BY <1>1, <1>2, <1>3, <1>4, <1>5, <1>6, <1>7, <1>8, <1>9, <1>10, <1>11, Zenon DEF BL!Next

\* The conversations and the panel are of peers: what opens a conversation came
\* through the stream.
Opened == dialogs \subseteq Peers /\ listing \subseteq Peers

LEMMA OpenedStep == BlockingIInv /\ Opened /\ [BL!Next]_(BL!vars) => Opened'
<1> SUFFICES ASSUME BlockingIInv, Opened, [BL!Next]_(BL!vars) PROVE Opened'
  OBVIOUS
<1>1. CASE BL!HandleMessage
  <2>1. in \in Seq(Pieces) /\ in # <<>> /\ Head(in)[1] \in BL!Kinds
    BY <1>1 DEF BL!HandleMessage, BlockingIInv, TypeInv
  <2>2. Head(in) \in Pieces
    BY <2>1, HeadTailProperties
  <2>3. Head(in)[2] \in Peers
    BY <2>1, <2>2 DEF Pieces, BL!Kinds
  <2> QED
    BY <1>1, <2>3 DEF BL!HandleMessage, Opened
<1>2. CASE \E q \in Peers : BL!BlockPeer(q) \/ BL!AddJid(q) \/ BL!Unblock(q) \/ BL!Send(q)
  BY <1>2 DEF BL!BlockPeer, BL!AddJid, BL!Unblock, BL!Send, BL!uiVars, Opened
<1>3. CASE BL!OpenPanel \/ BL!Online \/ BL!SessionEnd \/ BL!Command
  BY <1>3 DEF BL!OpenPanel, BL!Online, BL!SessionEnd, BL!Command, BL!uiVars, Opened
<1>4. CASE BL!HandleIq \/ BL!Serve \/ BL!OtherClient \/ UNCHANGED BL!vars
  <2>1. UNCHANGED <<dialogs, listing>>
    BY <1>4, Zenon DEF BL!HandleIq, BL!Serve, BL!OtherClient, BL!vars, BL!uiVars
  <2> QED
    BY <2>1 DEF Opened
<1> QED
  BY <1>1, <1>2, <1>3, <1>4, Zenon DEF BL!Next

BlockingInv == BlockingIInv /\ Opened

LEMMA BlockingInit == ASSUME BL!Init PROVE BlockingInv
  BY BlockingStart DEF BlockingInv, Opened, BL!Init

LEMMA BlockingStep == ASSUME BlockingInv, BL!Next PROVE BlockingInv'
  BY BlockingNext, OpenedStep DEF BlockingInv

LEMMA BlockingStutter == ASSUME BlockingInv, UNCHANGED BL!vars PROVE BlockingInv'
  BY BlockingNext, OpenedStep DEF BlockingInv

LEMMA BlockingTyped == ASSUME BlockingInv PROVE BL!TypeOK
<1>1. {dialogs, listing, blocked, listed, blockingKept, steady, leaked} \subseteq SUBSET Peers
  BY DEF BlockingInv, Opened, BlockingIInv, TypeInv, BL!ArchiveFiltered
<1>2. \A i \in DOMAIN out : out[i] \in Reqs
  BY ElementOfSeq, LenProperties DEF BlockingInv, BlockingIInv, TypeInv
<1>3. \A i \in DOMAIN in : in[i] \in Pieces
  BY ElementOfSeq, LenProperties DEF BlockingInv, BlockingIInv, TypeInv
<1> QED
  BY <1>1, <1>2, <1>3, Zenon DEF BlockingInv, BlockingIInv, TypeInv, BL!TypeOK, Reqs, Pieces

LEMMA BlockingAgreed == ASSUME BlockingInv PROVE BL!BlockedAgrees /\ BL!ArchiveFiltered
<1> SUFFICES ASSUME on, in = <<>>, out = <<>> PROVE blocked = listed
  BY DEF BL!BlockedAgrees, BlockingInv, BlockingIInv
<1>1. \A p \in Peers : p \in blocked <=> p \in listed
  BY DEF BlockingInv, BlockingIInv, Synced, Fetching, LastWord
<1> QED
  BY <1>1 DEF BlockingInv, BlockingIInv, TypeInv

-----------------------------------------------------------------------------
(* Several accounts: the active account is a registered one.               *)

Marks == [entries : SUBSET Users, marked : Users \cup {Ghost}]

AccountsTypes ==
  /\ base \in {"Login", "Chat"} /\ adding \in BOOLEAN
  /\ mail \in 0..MaxMail
  /\ DOMAIN accounts \subseteq Users /\ \A u \in DOMAIN accounts : accounts[u] \in 0..mail
  /\ active \in Users \cup {Ghost} /\ focus \in Users \cup {Ghost}
  /\ last \in Users \cup {Ghost} /\ accountsShown.id \in Users \cup {Ghost}
  /\ engines \subseteq passwords /\ passwords \subseteq AC!Jids
  /\ switchers \in Seq(Marks)

AccountsInv == AccountsTypes /\ AC!ActiveIsRegistered

LEMMA AccountsInit == ASSUME AC!Init PROVE AccountsInv
<1>1. mail \in 0..MaxMail
  BY AccountsAssumption DEF AC!Init
<1>2. DOMAIN accounts = {} /\ engines \subseteq passwords /\ passwords \subseteq AC!Jids
  BY DEF AC!Init
<1>3. switchers \in Seq(Marks)
  BY EmptySeq DEF AC!Init
<1> QED
  BY <1>1, <1>2, <1>3 DEF AC!Init, AccountsInv, AccountsTypes, AC!ActiveIsRegistered, AC!Nothing

LEMMA AccountsTop ==
  ASSUME AccountsInv, AC!OnTop PROVE AC!Top \in Marks /\ AC!Below \in Seq(Marks)
  BY SubSeqProperties DEF AccountsInv, AccountsTypes, AC!OnTop, AC!Top, AC!Below

\* The active account is a registered one, whatever is done to the accounts.
LEMMA AccountsStep == ASSUME AccountsInv, AC!Next PROVE AccountsInv'
<1> USE DEF AccountsInv, AccountsTypes, AC!ActiveIsRegistered
<1>1. CASE AC!GoToAccountSwitcher
  <2>1. [entries |-> DOMAIN accounts, marked |-> active] \in Marks
    BY DEF Marks
  <2>2. switchers' \in Seq(Marks)
    BY <1>1, <2>1, AppendProperties DEF AC!GoToAccountSwitcher
  <2> QED
    BY <1>1, <2>2 DEF AC!GoToAccountSwitcher, AC!Deeds, AC!mgrVars, AC!multi
<1>2. ASSUME NEW u \in Users, AC!PickAccount(u) PROVE AccountsInv'
  <2>1. [AC!Top EXCEPT !.marked = u] \in Marks
    BY <1>2, AccountsTop DEF Marks, AC!PickAccount
  <2>2. switchers' \in Seq(Marks)
    BY <1>2, <2>1, AccountsTop, AppendProperties DEF AC!PickAccount
  <2> QED
    BY <1>2, <2>2 DEF AC!PickAccount, AC!Deeds, AC!SwitchTo
<1>3. ASSUME NEW u \in Users, AC!PickRemove(u) PROVE AccountsInv'
  <2>1. PICK m \in IF AC!Top.marked # u THEN {AC!Top.marked}
                   ELSE IF AC!Top.entries \ {u} = {} THEN {Ghost} ELSE AC!Top.entries \ {u} :
          switchers' = Append(AC!Below, [entries |-> AC!Top.entries \ {u}, marked |-> m])
    BY <1>3 DEF AC!PickRemove
  <2>2. [entries |-> AC!Top.entries \ {u}, marked |-> m] \in Marks
    BY <1>3, AccountsTop DEF Marks, AC!PickRemove
  <2>3. switchers' \in Seq(Marks)
    BY <1>3, <2>1, <2>2, AccountsTop, AppendProperties DEF AC!PickRemove
  <2>4. DOMAIN accounts' = DOMAIN accounts \ {u} /\ \A x \in DOMAIN accounts' : accounts'[x] = accounts[x]
    BY <1>3 DEF AC!PickRemove, AC!RemoveAccount
  <2> QED
    BY <1>3, <2>3, <2>4 DEF AC!PickRemove, AC!Deeds, AC!RemoveAccount, AC!multi
<1>4. CASE AC!PickAdd
  BY <1>4, EmptySeq DEF AC!PickAdd, AC!Deeds, AC!mgrVars, AC!Nothing
<1>5. CASE AC!Close
  BY <1>5, AccountsTop DEF AC!Close, AC!Deeds, AC!mgrVars, AC!multi
<1>6. CASE AC!Logout
  <2>1. active # Ghost => /\ DOMAIN accounts' = DOMAIN accounts \ {active} 
                          /\ \A x \in DOMAIN accounts' : accounts'[x] = accounts[x]
                          /\ active' = Ghost
    BY <1>6 DEF AC!Logout, AC!RemoveAccount
  <2> QED
    BY <1>6, <2>1, EmptySeq DEF AC!Logout, AC!Deeds, AC!mgrVars, AC!multi, AC!Nothing
<1>7. ASSUME NEW u \in Users, AC!Connected(u) PROVE AccountsInv'
  <2>1. passwords \subseteq passwords' /\ passwords' \subseteq AC!Jids
    BY <1>7 DEF AC!Connected
  <2>2. engines' \subseteq passwords'
    BY <1>7, <2>1 DEF AC!Connected, AC!StartAccount
  <2>3. /\ DOMAIN accounts' = DOMAIN accounts \cup {u}
        /\ \A x \in DOMAIN accounts' : accounts'[x] \in 0..mail
        /\ active' = IF DOMAIN accounts = {} THEN u ELSE active
    BY <1>7 DEF AC!Connected, AC!AddAccount
  <2>4. accountsShown'.id = u /\ switchers' \in Seq(Marks)
    BY <1>7, EmptySeq DEF AC!Connected
  <2> QED
    BY <1>7, <2>1, <2>2, <2>3, <2>4 DEF AC!Connected
<1>8. CASE AC!MessageReceived
  <2>1. mail' = mail + 1 /\ mail' \in 0..MaxMail
    BY <1>8, AccountsAssumption DEF AC!MessageReceived
  <2>2. DOMAIN accounts' = DOMAIN accounts /\ \A x \in DOMAIN accounts' : accounts'[x] \in 0..mail'
    <3>1. CASE active = Ghost
      BY <1>8, <2>1, <3>1 DEF AC!MessageReceived
    <3>2. CASE active # Ghost
      BY <1>8, <2>1, <3>2 DEF AC!MessageReceived
    <3> QED
      BY <3>1, <3>2
  <2> QED
    BY <1>8, <2>1, <2>2 DEF AC!MessageReceived, AC!multi
<1>9. CASE AC!Disconnected
  BY <1>9 DEF AC!Disconnected, AC!mgrVars, AC!multi, AC!bounds, AC!Nothing
<1> QED
  BY <1>1, <1>2, <1>3, <1>4, <1>5, <1>6, <1>7, <1>8, <1>9 DEF AC!Next

LEMMA AccountsStutter == ASSUME AccountsInv, UNCHANGED AC!vars PROVE AccountsInv'
  BY DEF AccountsInv, AccountsTypes, AC!ActiveIsRegistered, AC!vars, AC!uiVars, AC!mgrVars,
     AC!multi, AC!bounds

LEMMA AccountsTyped == ASSUME AccountsInv PROVE AC!TypeOK
<1> USE DEF AccountsInv, AccountsTypes
<1>1. \A u \in DOMAIN accounts : accounts[u] \in 0..MaxMail
  BY AccountsAssumption
<1>2. ASSUME NEW i \in DOMAIN switchers
      PROVE  switchers[i].entries \subseteq Users /\ switchers[i].marked \in Users \cup {Ghost}
  <2>1. switchers[i] \in Marks
    BY <1>2, ElementOfSeq
  <2> QED
    BY <2>1 DEF Marks
<1> QED
  BY <1>1, <1>2 DEF AC!TypeOK

-----------------------------------------------------------------------------
(* The profile editor and the pictures of the roster: each answer belongs to a *)
(* question that waits for it, and an address is asked for once.           *)

ProfileWords == Texts \cup {PR!Blank}
Editors == [open : BOOLEAN, text : ProfileWords, loading : BOOLEAN, saving : BOOLEAN, saved : BOOLEAN]
Ids == Nat \X PR!Commands
ProfileSaid == Nat \X PR!Commands \X BOOLEAN \X ProfileWords
Named == [q \in Ids \cup ProfileSaid |-> <<q[1], q[2]>>]
Fetch(m) == <<"fetch", m>>

ProfileTypes ==
  /\ editor \in Editors /\ faces \subseteq PR!Addresses /\ fetching \subseteq PR!Addresses
  /\ profileTasks \subseteq Ids /\ waiting \subseteq Ids /\ profileAsks \in Seq(Ids) /\ profileAnswers \in Seq(ProfileSaid)
  /\ card \in [text : ProfileWords, photo : BOOLEAN] /\ profileCalls \in [PR!Addresses -> Nat] /\ profileN \in Nat
  /\ live \in BOOLEAN

\* What is waited for is under way, once.
Matched ==
  /\ Keys(Named, profileAsks) \cup Keys(Named, profileAnswers) = waiting
  /\ Keys(Named, profileAsks) \cap Keys(Named, profileAnswers) = {}
  /\ Unlike(Named, profileAsks) /\ Unlike(Named, profileAnswers)
  /\ ~live => profileAsks = <<>> /\ profileAnswers = <<>>

ProfileNumbered == (\A t \in profileTasks \cup waiting : t[1] < profileN) /\ profileTasks \cap waiting = {}

\* Who is to be asked about by a task was not asked about yet, and is noted.
OnceAsked ==
  /\ \A m \in PR!Addresses : profileCalls[m] <= 1 /\ (profileCalls[m] > 0 => m \in fetching)
  /\ \A t \in profileTasks, m \in PR!Addresses : t[2] = Fetch(m) => m \in fetching /\ profileCalls[m] = 0
  /\ \A t, u \in profileTasks, m \in PR!Addresses : t[2] = Fetch(m) /\ u[2] = Fetch(m) => t = u

ProfileInv == ProfileTypes /\ Matched /\ ProfileNumbered /\ OnceAsked

LEMMA NamedIds ==
  /\ DOMAIN Named = Ids \cup ProfileSaid
  /\ \A q \in Ids : Named[q] = q /\ q = <<q[1], q[2]>>
  /\ \A a \in ProfileSaid : Named[a] = <<a[1], a[2]>> /\ Named[a] \in Ids
<1>1. ASSUME NEW q \in Ids PROVE Named[q] = q /\ q = <<q[1], q[2]>>
  BY DEF Named, Ids
<1>2. ASSUME NEW a \in ProfileSaid PROVE Named[a] = <<a[1], a[2]>> /\ <<a[1], a[2]>> \in Ids
  <2>1. a[1] \in Nat /\ a[2] \in PR!Commands
    BY DEF ProfileSaid
  <2> QED
    BY <2>1 DEF Named, Ids
<1>3. DOMAIN Named = Ids \cup ProfileSaid
  BY DEF Named
<1> QED
  BY <1>1, <1>2, <1>3

LEMMA CommandKinds ==
  /\ \A c \in PR!Commands : c[1] = "fetch" => c[2] \in PR!Addresses /\ c = Fetch(c[2])
  /\ \A m \in PR!Addresses : Fetch(m) \in PR!Commands /\ Fetch(m)[1] = "fetch" /\ Fetch(m)[2] = m
  /\ \A c \in PR!Commands : c[1] = "set own" => c[2] \in ProfileWords
  /\ <<"fetch own">> \in PR!Commands /\ \A t \in ProfileWords : <<"set own", t>> \in PR!Commands
<1>1. ASSUME NEW c \in PR!Commands
      PROVE  \/ c = <<"fetch own">> /\ c[1] = "fetch own"
             \/ c[1] = "set own" /\ c[2] \in ProfileWords
             \/ c[1] = "fetch" /\ c[2] \in PR!Addresses /\ c = <<c[1], c[2]>>
  <2>1. CASE c = <<"fetch own">>
    BY <2>1
  <2>2. CASE c \in {"set own"} \X ProfileWords
    BY <2>2
  <2>3. CASE c \in {"fetch"} \X PR!Addresses
    <3>1. PICK m \in PR!Addresses : c = <<"fetch", m>>
      BY <2>3
    <3> QED
      BY <3>1
  <2> QED
    BY <2>1, <2>2, <2>3, Zenon DEF PR!Commands, ProfileWords
<1>2. <<"fetch own">> \in PR!Commands /\ \A t \in ProfileWords : <<"set own", t>> \in PR!Commands
  BY DEF PR!Commands, ProfileWords
<1>3. \A m \in PR!Addresses : Fetch(m) \in PR!Commands /\ Fetch(m)[1] = "fetch" /\ Fetch(m)[2] = m
  BY DEF PR!Commands, Fetch
<1>4. \A c \in PR!Commands : c[1] = "fetch" => c[2] \in PR!Addresses /\ c = Fetch(c[2])
  BY <1>1 DEF Fetch
<1>5. \A c \in PR!Commands : c[1] = "set own" => c[2] \in ProfileWords
  BY <1>1
<1> QED
  BY <1>2, <1>3, <1>4, <1>5

LEMMA ProfileInit == ASSUME PR!Init PROVE ProfileInv
<1>1. PR!Closed \in Editors
  BY DEF PR!Closed, Editors, ProfileWords
<1>2. profileCalls \in [PR!Addresses -> Nat] /\ \A m \in PR!Addresses : profileCalls[m] = 0
  BY DEF PR!Init
<1>3. ProfileTypes
  BY <1>1, <1>2, EmptySeq DEF PR!Init, ProfileTypes, ProfileWords
<1>4. Matched
  <2>1. profileAsks = <<>> /\ profileAnswers = <<>> /\ waiting = {}
    BY DEF PR!Init
  <2>2. Keys(Named, profileAsks) = {} /\ Keys(Named, profileAnswers) = {} /\ Unlike(Named, profileAsks)
        /\ Unlike(Named, profileAnswers)
    BY <2>1, KeysEmpty, Zenon
  <2> QED
    BY <2>1, <2>2, Zenon DEF Matched
<1>5. ProfileNumbered /\ OnceAsked
  BY <1>2 DEF PR!Init, ProfileNumbered, OnceAsked
<1> QED
  BY <1>3, <1>4, <1>5 DEF ProfileInv

\* A task of its own takes a set of commands.
LEMMA TasksCarried ==
  ASSUME ProfileTypes, ProfileNumbered, NEW cs \in SUBSET PR!Commands, profileTasks' = profileTasks \cup PR!Carried(cs),
         profileN' = profileN + 1, waiting' = waiting
  PROVE  profileTasks' \subseteq Ids /\ profileN' \in Nat /\ ProfileNumbered'
<1>1. profileN \in Nat /\ profileTasks \subseteq Ids /\ waiting \subseteq Ids
  BY DEF ProfileTypes
<1>2. PR!Carried(cs) \subseteq Ids /\ \A t \in PR!Carried(cs) : t[1] = profileN
  BY <1>1 DEF PR!Carried, Ids
<1>3. \A t \in profileTasks \cup waiting : t[1] \in Nat /\ t[1] < profileN
  BY <1>1 DEF ProfileNumbered, Ids
<1>4. \A t \in PR!Carried(cs) : t \notin waiting
  BY <1>1, <1>2, <1>3
<1>5. \A t \in profileTasks' \cup waiting' : t[1] < profileN'
  BY <1>1, <1>2, <1>3
<1>6. profileTasks' \cap waiting' = {}
  BY <1>4, Zenon DEF ProfileNumbered
<1> QED
  BY <1>1, <1>2, <1>5, <1>6 DEF ProfileNumbered

\* Commands other than a fetch disturb no count.
LEMMA OnceWithout ==
  ASSUME ProfileTypes, OnceAsked, NEW cs \in SUBSET PR!Commands, \A c \in cs : c[1] # "fetch",
         profileTasks' = profileTasks \cup PR!Carried(cs), UNCHANGED <<fetching, profileCalls>>
  PROVE  OnceAsked'
<1>1. \A t \in PR!Carried(cs) : t[2] \in cs
  BY DEF PR!Carried
<1>2. \A t \in PR!Carried(cs), m \in PR!Addresses : t[2] # Fetch(m)
  BY <1>1, CommandKinds
<1> QED
  BY <1>2, Zenon DEF OnceAsked

\* Contacts that are not noted yet are asked about, and noted.
LEMMA OnceNoted ==
  ASSUME ProfileTypes, OnceAsked, NEW ms \in SUBSET PR!Addresses, ms \cap fetching = {},
         profileTasks' = profileTasks \cup PR!Carried({"fetch"} \X ms), fetching' = fetching \cup ms,
         UNCHANGED profileCalls
  PROVE  OnceAsked'
<1> DEFINE new == PR!Carried({"fetch"} \X ms)
<1>1. \A t \in new, m \in PR!Addresses : t[2] = Fetch(m) => t = <<profileN, Fetch(m)>> /\ m \in ms
  BY DEF PR!Carried, Fetch
<1> HIDE DEF new
<1>2. \A m \in ms : profileCalls[m] = 0
  BY DEF OnceAsked, ProfileTypes
<1>3. \A t \in profileTasks, m \in ms : t[2] # Fetch(m)
  BY DEF OnceAsked
<1>4. \A m \in PR!Addresses : profileCalls'[m] <= 1 /\ (profileCalls'[m] > 0 => m \in fetching')
  BY DEF OnceAsked
<1>5. \A t \in profileTasks', m \in PR!Addresses : t[2] = Fetch(m) => m \in fetching' /\ profileCalls'[m] = 0
  BY <1>1, <1>2, Zenon DEF OnceAsked, new
<1>6. \A t \in profileTasks', u \in profileTasks', m \in PR!Addresses :
        t[2] = Fetch(m) /\ u[2] = Fetch(m) => t = u
  <2> TAKE t \in profileTasks', u \in profileTasks', m \in PR!Addresses
  <2> HAVE t[2] = Fetch(m) /\ u[2] = Fetch(m)
  <2>1. CASE t \in profileTasks /\ u \in profileTasks
    BY <2>1, Zenon DEF OnceAsked
  <2>2. CASE t \in new \/ u \in new
    BY <2>2, <1>1, <1>3, Zenon DEF new
  <2> QED
    BY <2>1, <2>2, Zenon DEF new
<1> QED
  BY <1>4, <1>5, <1>6, Zenon DEF OnceAsked

LEMMA ProfileStep == ASSUME ProfileInv, PR!Next PROVE ProfileInv'
<1>0. ProfileTypes /\ Matched /\ ProfileNumbered /\ OnceAsked
  BY DEF ProfileInv
\* What an action leaves alone.
<1>a. ASSUME UNCHANGED <<PR!engineVars, PR!streamVars>> PROVE Matched'
  BY <1>a, <1>0 DEF PR!engineVars, PR!streamVars, Matched
<1>b. ASSUME UNCHANGED <<profileTasks, waiting, profileN>> PROVE ProfileNumbered'
  BY <1>b, <1>0 DEF ProfileNumbered
<1>c. ASSUME UNCHANGED <<profileTasks, fetching, profileCalls>> PROVE OnceAsked'
  BY <1>c, <1>0 DEF OnceAsked
<1>d. ASSUME UNCHANGED <<faces, fetching, profileTasks, PR!engineVars, PR!streamVars, card, PR!history, profileN>>,
             editor' \in Editors
      PROVE  ProfileInv'
  <2>1. ProfileTypes'
    BY <1>d, <1>0 DEF ProfileTypes, PR!engineVars, PR!streamVars, PR!history
  <2> QED
    BY <2>1, <1>a, <1>b, <1>c, <1>d DEF ProfileInv, PR!engineVars, PR!history
<1>e. editor \in Editors /\ editor.text \in ProfileWords
  BY <1>0 DEF ProfileTypes, Editors
<1>1. CASE PR!GoToVCardEditor
  <2>1. editor' = PR!Opened /\ profileTasks' = profileTasks \cup PR!Carried({<<"fetch own">>}) /\ profileN' = profileN + 1
        /\ UNCHANGED <<faces, fetching, PR!engineVars, PR!streamVars, card, PR!history>>
    BY <1>1, Zenon DEF PR!GoToVCardEditor
  <2>2. PR!Opened \in Editors
    BY DEF PR!Opened, PR!Closed, Editors, ProfileWords
  <2>3. profileTasks' \subseteq Ids /\ profileN' \in Nat /\ ProfileNumbered'
    <3>1. {<<"fetch own">>} \in SUBSET PR!Commands
      BY CommandKinds, Zenon
    <3>2. waiting' = waiting
      BY <2>1 DEF PR!engineVars
    <3> QED
      BY <2>1, <3>1, <3>2, <1>0, TasksCarried, Zenon
  <2>4. OnceAsked'
    <3>1. {<<"fetch own">>} \in SUBSET PR!Commands /\ \A c \in {<<"fetch own">>} : c[1] # "fetch"
      <4>1. <<"fetch own">>[1] # "fetch"
        OBVIOUS
      <4> QED
        BY <4>1, CommandKinds, Zenon
    <3>2. UNCHANGED <<fetching, profileCalls>>
      BY <2>1 DEF PR!history
    <3> QED
      BY <2>1, <3>1, <3>2, <1>0, OnceWithout, Zenon
  <2>5. ProfileTypes'
    BY <2>1, <2>2, <2>3, <1>0 DEF ProfileTypes, PR!engineVars, PR!streamVars, PR!history
  <2> QED
    BY <2>1, <2>3, <2>4, <2>5, <1>a DEF ProfileInv
<1>2. CASE \E t \in Texts : PR!FieldChanged(t)
  <2>1. PICK t \in Texts : PR!FieldChanged(t)
    BY <1>2, Zenon
  <2>2. editor' \in Editors
    BY <2>1, <1>e DEF PR!FieldChanged, Editors, ProfileWords
  <2> QED
    BY <2>1, <2>2, <1>d, Zenon DEF PR!FieldChanged
<1>3. CASE PR!FetchRequested
  <2>1. editor' \in Editors
    BY <1>3, <1>e DEF PR!FetchRequested, Editors
  <2> QED
    BY <1>3, <2>1, <1>d, Zenon DEF PR!FetchRequested
<1>4. CASE PR!SaveRequested
  <2>1. editor' = [editor EXCEPT !.saving = TRUE, !.saved = FALSE] /\ profileN' = profileN + 1
        /\ profileTasks' = profileTasks \cup PR!Carried({<<"set own", editor.text>>})
        /\ UNCHANGED <<faces, fetching, PR!engineVars, PR!streamVars, card, PR!history>>
    BY <1>4, Zenon DEF PR!SaveRequested
  <2>2. editor' \in Editors
    BY <2>1, <1>e DEF Editors
  <2>3. <<"set own", editor.text>> \in PR!Commands
    BY <1>e, CommandKinds, Zenon
  <2>4. profileTasks' \subseteq Ids /\ profileN' \in Nat /\ ProfileNumbered'
    BY <2>1, <2>3, <1>0, TasksCarried DEF PR!engineVars
  <2>5. OnceAsked'
    <3>1. {<<"set own", editor.text>>} \in SUBSET PR!Commands
          /\ \A c \in {<<"set own", editor.text>>} : c[1] # "fetch"
      <4>1. <<"set own", editor.text>>[1] # "fetch"
        OBVIOUS
      <4> QED
        BY <4>1, <2>3, Zenon
    <3>2. UNCHANGED <<fetching, profileCalls>>
      BY <2>1 DEF PR!history
    <3> QED
      BY <2>1, <3>1, <3>2, <1>0, OnceWithout, Zenon
  <2>6. ProfileTypes'
    BY <2>1, <2>2, <2>4, <1>0 DEF ProfileTypes, PR!engineVars, PR!streamVars, PR!history
  <2> QED
    BY <2>1, <2>4, <2>5, <2>6, <1>a DEF ProfileInv
<1>5. CASE PR!Close
  <2>1. editor' \in Editors
    BY <1>5 DEF PR!Close, PR!Closed, Editors, ProfileWords
  <2> QED
    BY <1>5, <2>1, <1>d, Zenon DEF PR!Close
<1>6. CASE PR!RosterReceived
  <2> DEFINE ms == PR!Unknown(PR!Roster)
  <2>1. fetching' = fetching \cup ms /\ profileTasks' = profileTasks \cup PR!Carried({"fetch"} \X ms) /\ profileN' = profileN + 1
        /\ UNCHANGED <<editor, faces, PR!engineVars, PR!streamVars, card, PR!history>>
    BY <1>6, Zenon DEF PR!RosterReceived
  <2>2. ms \subseteq PR!Addresses /\ ms \cap fetching = {}
    BY DEF PR!Unknown, PR!Addresses
  <2>3. {"fetch"} \X ms \subseteq PR!Commands
    BY <2>2 DEF PR!Commands
  <2> HIDE DEF ms
  <2>4. profileTasks' \subseteq Ids /\ profileN' \in Nat /\ ProfileNumbered'
    BY <2>1, <2>3, <1>0, TasksCarried DEF PR!engineVars
  <2>5. OnceAsked'
    BY <2>1, <2>2, <1>0, OnceNoted DEF PR!history
  <2>6. ProfileTypes'
    BY <2>1, <2>2, <2>4, <1>0 DEF ProfileTypes, PR!engineVars, PR!streamVars, PR!history
  <2> QED
    BY <2>1, <2>4, <2>5, <2>6, <1>a DEF ProfileInv
<1>7. CASE \E m \in PR!Addresses : PR!PresenceUpdated(m)
  <2>1. PICK m \in PR!Addresses : PR!PresenceUpdated(m)
    BY <1>7, Zenon
  <2>2. m \in PR!Unknown(PR!Addresses) /\ fetching' = fetching \cup {m}
        /\ profileTasks' = profileTasks \cup PR!Carried({<<"fetch", m>>}) /\ profileN' = profileN + 1
        /\ UNCHANGED <<editor, faces, PR!engineVars, PR!streamVars, card, PR!history>>
    BY <2>1, Zenon DEF PR!PresenceUpdated, PR!Noted
  <2>3. {m} \subseteq PR!Addresses /\ {m} \cap fetching = {} /\ {<<"fetch", m>>} = {"fetch"} \X {m}
    <3>1. m \notin fetching
      BY <2>2 DEF PR!Unknown
    <3>2. \A x \in {"fetch"} \X {m} : x = <<"fetch", m>>
      OBVIOUS
    <3>4. <<"fetch", m>> \in {"fetch"} \X {m}
      OBVIOUS
    <3>3. {<<"fetch", m>>} = {"fetch"} \X {m}
      BY <3>2, <3>4, Zenon
    <3> QED
      BY <3>1, <3>3
  <2>4. {"fetch"} \X {m} \subseteq PR!Commands
    BY <2>3 DEF PR!Commands
  <2>5. profileTasks' \subseteq Ids /\ profileN' \in Nat /\ ProfileNumbered'
    BY <2>2, <2>3, <2>4, <1>0, TasksCarried DEF PR!engineVars
  <2>6. OnceAsked'
    BY <2>2, <2>3, <1>0, OnceNoted DEF PR!history
  <2>7. ProfileTypes'
    BY <2>2, <2>5, <1>0 DEF ProfileTypes, PR!engineVars, PR!streamVars, PR!history
  <2> QED
    BY <2>2, <2>5, <2>6, <2>7, <1>a DEF ProfileInv
<1>8. CASE PR!Online
  <2>1. ~live /\ live' = TRUE
        /\ UNCHANGED <<PR!uiVars, profileTasks, waiting, PR!streamVars, card, PR!history, profileN>>
    BY <1>8, Zenon DEF PR!Online
  <2>2. ProfileTypes'
    BY <2>1, <1>0 DEF ProfileTypes, PR!uiVars, PR!streamVars, PR!history
  <2>3. Matched'
    BY <2>1, <1>0 DEF Matched, PR!streamVars
  <2> QED
    BY <2>1, <2>2, <2>3, <1>b, <1>c DEF ProfileInv, PR!uiVars, PR!history
<1>9. CASE PR!SessionEnd
  <2>1. live' = FALSE /\ waiting' = {} /\ profileAsks' = <<>> /\ profileAnswers' = <<>>
        /\ UNCHANGED <<PR!uiVars, profileTasks, card, PR!history, profileN>>
    BY <1>9, Zenon DEF PR!SessionEnd
  <2>2. profileAsks' \in Seq(Ids) /\ profileAnswers' \in Seq(ProfileSaid)
    BY <2>1, EmptySeq
  <2>3. ProfileTypes'
    BY <2>1, <2>2, <1>0 DEF ProfileTypes, PR!uiVars, PR!history
  <2>4. Keys(Named, profileAsks') = {} /\ Keys(Named, profileAnswers') = {} /\ Unlike(Named, profileAsks')
        /\ Unlike(Named, profileAnswers')
    BY <2>1, KeysEmpty, Zenon
  <2>5. Matched'
    BY <2>1, <2>4, Zenon DEF Matched
  <2>6. ProfileNumbered'
    BY <2>1, <1>0 DEF ProfileNumbered
  <2> QED
    BY <2>1, <2>3, <2>5, <2>6, <1>c DEF ProfileInv, PR!uiVars, PR!history
<1>10. CASE PR!Command
  <2>1. PICK t \in profileTasks :
          /\ profileTasks' = profileTasks \ {t}
          /\ IF live
               THEN /\ waiting' = waiting \cup {<<t[1], t[2]>>} /\ profileAsks' = Append(profileAsks, <<t[1], t[2]>>)
                    /\ profileCalls' = IF t[2][1] = "fetch" THEN [profileCalls EXCEPT ![t[2][2]] = @ + 1] ELSE profileCalls
               ELSE UNCHANGED <<waiting, profileAsks, profileCalls>>
          /\ UNCHANGED <<PR!uiVars, live, profileAnswers, card, refusal, PR!bounds, profileN>>
    BY <1>10, Zenon DEF PR!Command
  <2>2. t \in Ids /\ t = <<t[1], t[2]>> /\ t[2] \in PR!Commands /\ t \notin waiting /\ Named[t] = t
    <3>1. t \in Ids /\ t \notin waiting
      BY <1>0 DEF ProfileTypes, ProfileNumbered
    <3> QED
      BY <3>1, NamedIds DEF Ids
  <2>3. CASE ~live
    <3>1. profileTasks' \subseteq profileTasks /\ UNCHANGED <<waiting, profileAsks, profileCalls, PR!uiVars, live, profileAnswers, card, profileN>>
      BY <2>1, <2>3, Zenon
    <3>2. ProfileTypes'
      BY <3>1, <1>0 DEF ProfileTypes, PR!uiVars
    <3>3. ProfileNumbered' /\ OnceAsked'
      BY <3>1, <1>0 DEF ProfileNumbered, OnceAsked, PR!uiVars
    <3> QED
      BY <3>1, <3>2, <3>3, <1>a DEF ProfileInv, PR!engineVars, PR!streamVars
  <2>4. CASE live
    <3>1. profileTasks' = profileTasks \ {t} /\ waiting' = waiting \cup {t} /\ profileAsks' = Append(profileAsks, t)
          /\ UNCHANGED <<PR!uiVars, live, profileAnswers, card, profileN>>
      BY <2>1, <2>2, <2>4, Zenon
    <3>2. profileCalls' = IF t[2][1] = "fetch" THEN [profileCalls EXCEPT ![t[2][2]] = @ + 1] ELSE profileCalls
      BY <2>1, <2>4, Zenon
    <3>3. /\ profileAsks' \in Seq(Ids) /\ Keys(Named, profileAsks') = Keys(Named, profileAsks) \cup {t}
          /\ Unlike(Named, profileAsks) /\ t \notin Keys(Named, profileAsks) => Unlike(Named, profileAsks')
      <4>1. profileAsks \in Seq(Ids)
        BY <1>0 DEF ProfileTypes
      <4>2. /\ Append(profileAsks, t) \in Seq(Ids)
            /\ Keys(Named, Append(profileAsks, t)) = Keys(Named, profileAsks) \cup {Named[t]}
            /\ Unlike(Named, profileAsks) /\ Named[t] \notin Keys(Named, profileAsks)
                 => Unlike(Named, Append(profileAsks, t))
        BY <4>1, <2>2, KeysAppend, NamedIds
      <4> QED
        BY <4>2, <3>1, <2>2, Zenon
    <3>4. Matched'
      <4>1. t \notin Keys(Named, profileAsks) /\ t \notin Keys(Named, profileAnswers)
        BY <2>2, <1>0, Zenon DEF Matched
      <4>2. Keys(Named, profileAsks') \cup Keys(Named, profileAnswers') = waiting'
        BY <3>1, <3>3, <1>0 DEF Matched
      <4>3. Keys(Named, profileAsks') \cap Keys(Named, profileAnswers') = {}
        BY <3>1, <3>3, <4>1, <1>0 DEF Matched
      <4> QED
        BY <3>1, <3>3, <4>1, <4>2, <4>3, <1>0, <2>4, Zenon DEF Matched
    <3>5. ProfileNumbered'
      BY <3>1, <2>2, <1>0 DEF ProfileNumbered
    <3>6. profileCalls' \in [PR!Addresses -> Nat]
      <4>1. profileCalls \in [PR!Addresses -> Nat]
        BY <1>0 DEF ProfileTypes
      <4>2. t[2][1] = "fetch" => t[2][2] \in PR!Addresses
        BY <2>2, CommandKinds, Zenon
      <4>3. CASE t[2][1] = "fetch"
        <5>1. profileCalls' = [profileCalls EXCEPT ![t[2][2]] = profileCalls[t[2][2]] + 1] /\ t[2][2] \in PR!Addresses
          BY <3>2, <4>2, <4>3, Zenon
        <5> QED
          BY <4>1, <5>1
      <4> QED
        BY <3>2, <4>1, <4>3
    <3>7. ProfileTypes'
      BY <3>1, <3>3, <3>6, <2>2, <1>0 DEF ProfileTypes, PR!uiVars
    <3>8. OnceAsked'
      <4>1. CASE t[2][1] # "fetch"
        BY <4>1, <3>1, <3>2, <1>0 DEF OnceAsked, PR!uiVars
      <4>2. CASE t[2][1] = "fetch"
        <5>1. PICK m \in PR!Addresses : t[2] = Fetch(m)
          BY <4>2, <2>2, CommandKinds, Zenon
        <5>2. profileCalls \in [PR!Addresses -> Nat] /\ m \in fetching /\ profileCalls[m] = 0
              /\ profileCalls' = [profileCalls EXCEPT ![m] = profileCalls[m] + 1] /\ m \in PR!Addresses
          <6>1. t[2][2] = m
            BY <5>1, CommandKinds, Zenon
          <6>2. profileCalls' = [profileCalls EXCEPT ![m] = profileCalls[m] + 1]
            BY <6>1, <4>2, <3>2, Zenon
          <6> QED
            BY <6>2, <5>1, <1>0, Zenon DEF OnceAsked, ProfileTypes
        <5>3. profileCalls'[m] = 1 /\ \A k \in PR!Addresses : k # m => profileCalls'[k] = profileCalls[k]
          BY <5>2
        <5>4. \A u \in profileTasks' : u[2] # Fetch(m)
          BY <5>1, <3>1, <1>0 DEF OnceAsked
        <5>5. \A k \in PR!Addresses : profileCalls'[k] <= 1 /\ (profileCalls'[k] > 0 => k \in fetching')
          <6>1. fetching' = fetching
            BY <3>1 DEF PR!uiVars
          <6> QED
            BY <5>2, <5>3, <6>1, <1>0 DEF OnceAsked
        <5>6. \A u \in profileTasks', k \in PR!Addresses : u[2] = Fetch(k) => k \in fetching' /\ profileCalls'[k] = 0
          BY <5>3, <5>4, <3>1, <1>0 DEF OnceAsked, PR!uiVars
        <5>7. \A u, v \in profileTasks', k \in PR!Addresses : u[2] = Fetch(k) /\ v[2] = Fetch(k) => u = v
          BY <3>1, <1>0 DEF OnceAsked
        <5> QED
          BY <5>5, <5>6, <5>7, Zenon DEF OnceAsked
      <4> QED
        BY <4>1, <4>2
    <3> QED
      BY <3>4, <3>5, <3>7, <3>8 DEF ProfileInv
  <2> QED
    BY <2>3, <2>4
<1>11. CASE PR!HandleIq
  <2> DEFINE a == Head(profileAnswers)
  <2>1. live /\ profileAnswers # <<>> /\ profileAnswers' = Tail(profileAnswers) /\ waiting' = waiting \ {<<a[1], a[2]>>}
        /\ UNCHANGED <<fetching, profileTasks, live, profileAsks, card, PR!history, profileN>>
    BY <1>11, Zenon DEF PR!HandleIq
  <2>2. PR!OwnVCardReceived(a) \/ PR!OwnVCardSaved(a) \/ PR!AvatarReceived(a)
    BY <1>11, Zenon DEF PR!HandleIq
  <2>3. /\ a \in ProfileSaid /\ profileAnswers' \in Seq(ProfileSaid)
        /\ Keys(Named, profileAnswers) = Keys(Named, profileAnswers') \cup {Named[a]}
        /\ Unlike(Named, profileAnswers') /\ Named[a] \notin Keys(Named, profileAnswers')
    <3>1. profileAnswers \in Seq(ProfileSaid) /\ Unlike(Named, profileAnswers)
      BY <1>0 DEF ProfileTypes, Matched
    <3> QED
      BY <3>1, <2>1, KeysTail, NamedIds
  <2>4. Named[a] = <<a[1], a[2]>> /\ a[2] \in PR!Commands /\ a[4] \in ProfileWords
    BY <2>3, NamedIds DEF ProfileSaid
  <2> HIDE DEF a
  <2>5. Matched'
    <3>1. Named[a] \notin Keys(Named, profileAsks)
      BY <2>3, <1>0 DEF Matched
    <3>2. Keys(Named, profileAsks') \cup Keys(Named, profileAnswers') = waiting'
      <4>1. waiting' = waiting \ {Named[a]} /\ profileAsks' = profileAsks
        BY <2>1, <2>4, Zenon DEF a
      <4> QED
        BY <4>1, <3>1, <2>3, <1>0 DEF Matched
    <3>3. Keys(Named, profileAsks') \cap Keys(Named, profileAnswers') = {}
      BY <2>1, <2>3, <1>0 DEF Matched
    <3> QED
      BY <3>2, <3>3, <2>1, <2>3, <1>0, Zenon DEF Matched
  <2>6. ProfileNumbered'
    BY <2>1, <1>0 DEF ProfileNumbered
  <2>7. editor' \in Editors /\ faces' \subseteq PR!Addresses
    <3>1. faces \subseteq PR!Addresses
      BY <1>0 DEF ProfileTypes
    <3>2. CASE PR!OwnVCardReceived(a)
      BY <3>1, <3>2, <2>4, <1>e DEF PR!OwnVCardReceived, Editors
    <3>3. CASE PR!OwnVCardSaved(a)
      BY <3>1, <3>3, <1>e DEF PR!OwnVCardSaved, Editors
    <3>4. CASE PR!AvatarReceived(a)
      <4>1. a[2][2] \in PR!Addresses /\ editor' = editor
        BY <3>4, <2>4, CommandKinds, Zenon DEF PR!AvatarReceived
      <4> QED
        BY <3>1, <3>4, <4>1, <1>e DEF PR!AvatarReceived
    <3> QED
      BY <2>2, <3>2, <3>3, <3>4
  <2>8. ProfileTypes'
    BY <2>1, <2>3, <2>7, <1>0 DEF ProfileTypes, PR!history
  <2> QED
    BY <2>1, <2>5, <2>6, <2>8, <1>c DEF ProfileInv, PR!history
<1>12. CASE PR!Serve
  <2> DEFINE q == Head(profileAsks)
  <2>1. live /\ profileAsks # <<>> /\ profileAsks' = Tail(profileAsks)
        /\ UNCHANGED <<PR!uiVars, profileTasks, PR!engineVars, profileCalls, profileN>>
    BY <1>12, Zenon DEF PR!Serve
  <2>2. PICK ok \in BOOLEAN :
          /\ profileAnswers' = Append(profileAnswers, <<q[1], q[2], ok, card.text>>)
          /\ card' = IF q[2][1] = "set own" /\ ok THEN PR!Replaced(q[2][2]) ELSE card
          /\ refusal' = IF q[2][1] = "set own" THEN ~ok ELSE refusal
    BY <1>12, Zenon DEF PR!Serve
  <2> DEFINE a == <<q[1], q[2], ok, card.text>>
  <2>3. /\ q \in Ids /\ profileAsks' \in Seq(Ids) /\ Keys(Named, profileAsks) = Keys(Named, profileAsks') \cup {Named[q]}
        /\ Unlike(Named, profileAsks') /\ Named[q] \notin Keys(Named, profileAsks')
    <3>1. profileAsks \in Seq(Ids) /\ Unlike(Named, profileAsks)
      BY <1>0 DEF ProfileTypes, Matched
    <3> QED
      BY <3>1, <2>1, KeysTail, NamedIds
  <2> HIDE DEF q
  <2>4. a \in ProfileSaid /\ card' \in [text : ProfileWords, photo : BOOLEAN]
    <3>1. card \in [text : ProfileWords, photo : BOOLEAN] /\ q[1] \in Nat /\ q[2] \in PR!Commands
      BY <2>3, <1>0 DEF ProfileTypes, Ids
    <3>2. card.text \in ProfileWords /\ (q[2][1] = "set own" => q[2][2] \in ProfileWords)
      BY <3>1, CommandKinds
    <3>3. a \in ProfileSaid
      BY <3>1, <3>2 DEF ProfileSaid
    <3>4. card' \in [text : ProfileWords, photo : BOOLEAN]
      BY <2>2, <3>1, <3>2 DEF PR!Replaced
    <3> QED
      BY <3>3, <3>4
  <2>5. Named[a] = Named[q]
    <3>1. a[1] = q[1] /\ a[2] = q[2]
      OBVIOUS
    <3>2. Named[a] = <<a[1], a[2]>> /\ Named[q] = q /\ q = <<q[1], q[2]>>
      BY <2>3, <2>4, NamedIds, Zenon
    <3> HIDE DEF a
    <3> QED
      BY <3>1, <3>2, Zenon
  <2> HIDE DEF a
  <2>6. /\ profileAnswers' \in Seq(ProfileSaid) /\ Keys(Named, profileAnswers') = Keys(Named, profileAnswers) \cup {Named[q]}
        /\ Unlike(Named, profileAnswers) /\ Named[q] \notin Keys(Named, profileAnswers) => Unlike(Named, profileAnswers')
    <3>1. profileAnswers \in Seq(ProfileSaid) /\ profileAnswers' = Append(profileAnswers, a)
      BY <2>2, <1>0 DEF ProfileTypes, a
    <3> QED
      <4>1. /\ Append(profileAnswers, a) \in Seq(ProfileSaid)
            /\ Keys(Named, Append(profileAnswers, a)) = Keys(Named, profileAnswers) \cup {Named[a]}
            /\ Unlike(Named, profileAnswers) /\ Named[a] \notin Keys(Named, profileAnswers)
                 => Unlike(Named, Append(profileAnswers, a))
        BY <3>1, <2>4, KeysAppend, NamedIds
      <4> QED
        BY <3>1, <4>1, <2>5, Zenon
  <2>7. Matched'
    <3>1. Named[q] \notin Keys(Named, profileAnswers)
      BY <2>3, <1>0 DEF Matched
    <3>2. Keys(Named, profileAsks') \cup Keys(Named, profileAnswers') = waiting'
      BY <2>1, <2>3, <2>6, <1>0 DEF Matched, PR!engineVars
    <3>3. Keys(Named, profileAsks') \cap Keys(Named, profileAnswers') = {}
      BY <3>1, <2>3, <2>6, <1>0 DEF Matched
    <3> QED
      BY <3>1, <3>2, <3>3, <2>1, <2>3, <2>6, <1>0, Zenon DEF Matched, PR!engineVars
  <2>8. ProfileTypes'
    BY <2>1, <2>3, <2>4, <2>6, <1>0 DEF ProfileTypes, PR!uiVars, PR!engineVars
  <2> QED
    BY <2>1, <2>7, <2>8, <1>b, <1>c DEF ProfileInv, PR!uiVars, PR!engineVars
<1> QED
  BY <1>1, <1>2, <1>3, <1>4, <1>5, <1>6, <1>7, <1>8, <1>9, <1>10, <1>11, <1>12, Zenon DEF PR!Next

LEMMA ProfileStutter == ASSUME ProfileInv, UNCHANGED PR!vars PROVE ProfileInv'
  BY DEF ProfileInv, ProfileTypes, Matched, ProfileNumbered, OnceAsked, PR!vars, PR!uiVars,
     PR!engineVars, PR!streamVars,
         PR!history, PR!bounds

LEMMA ProfileTyped == ASSUME ProfileInv PROVE PR!TypeOK
<1>1. ProfileTypes /\ Matched /\ ProfileNumbered
  BY DEF ProfileInv
<1>2. {<<profileAsks[i][1], profileAsks[i][2]>> : i \in DOMAIN profileAsks} = Keys(Named, profileAsks)
  <2>1. \A i \in DOMAIN profileAsks : profileAsks[i] \in Ids
    BY <1>1, ElementOfSeq, LenProperties DEF ProfileTypes
  <2> QED
    BY <2>1, NamedIds DEF Keys
<1>3. {<<profileAnswers[i][1], profileAnswers[i][2]>> : i \in DOMAIN profileAnswers} = Keys(Named, profileAnswers)
  <2>1. \A i \in DOMAIN profileAnswers : profileAnswers[i] \in ProfileSaid
    BY <1>1, ElementOfSeq, LenProperties DEF ProfileTypes
  <2> QED
    BY <2>1, NamedIds DEF Keys
<1>4. \A t \in profileTasks : t[1] < profileN /\ t[2] \in PR!Commands
  BY <1>1 DEF ProfileTypes, ProfileNumbered, Ids
<1> QED
  BY <1>1, <1>2, <1>3, <1>4 DEF ProfileTypes, Matched, PR!TypeOK, Editors, ProfileWords

LEMMA ProfileOnce == ASSUME ProfileInv PROVE PR!AskedOnce
  BY DEF ProfileInv, OnceAsked, PR!AskedOnce

-----------------------------------------------------------------------------
(* Commands and room lists: while a command is Executing, the request it waits *)
(* for is under way, or was lost or not answered with a command.           *)

Places == Services \cup {MucService}

Steps == [kind : {"input", "discovering", "list", "executing", "form", "done"},
          node : Nodes \cup {QU!Nowhere}, session : Nat]
Asks == [kind : QU!Kinds, to : Places \cup {QU!Nowhere}, node : Nodes \cup {QU!Nowhere}, session : Nat]
Sent == Nat \X Asks
Statuses == {"error", "bare", "result", "executing", "completed", "canceled"}
Replies ==
  {r \in [id : Nat, items : BOOLEAN, from : Places \cup {QU!Nowhere}, node : Nodes \cup {QU!Nowhere},
          status : Statuses, session : Nat, commands : SUBSET Nodes] : r.items \/ r.status # "result"}

\* What a request is waited for under.
Pair(c) == <<c[1], c[2].kind = "items">>
Answers(r) == <<r.id, r.items>>
Out == [c \in Sent |-> Pair(c)]
Back == [r \in Replies |-> Answers(r)]

QueriesTypes ==
  /\ desk \in {"Chat", "Adhoc"} /\ target \in Services \cup {QU!Nowhere} /\ step \in Steps
  /\ offered \subseteq Nodes /\ catalogue \in Places \cup {QU!Nowhere}
  /\ carriers \subseteq Sent /\ queries \in Seq(Sent) /\ queriesReplies \in Seq(Replies)
  /\ attached \in BOOLEAN /\ queriesUnheard \in BOOLEAN /\ queriesAsked \in Nat
  /\ queriesN \in Nat
  /\ IsFiniteSet(running)

\* Whatever is under way is waited for, and stands for itself.
QueriesNumbered ==
  /\ Keys(Out, queries) \cup Keys(Back, queriesReplies) \subseteq awaited
  /\ Unlike(Out, queries) /\ Unlike(Back, queriesReplies)
  /\ Keys(Out, queries) \cap Keys(Back, queriesReplies) = {}
  /\ \A c \in carriers : Pair(c) \notin Keys(Out, queries) \cup Keys(Back, queriesReplies)
  /\ \A c, d \in carriers : Pair(c) = Pair(d) => c = d
  /\ \A p \in Keys(Out, queries) \cup Keys(Back, queriesReplies) : p[1] < queriesN
  /\ \A c \in carriers : c[1] < queriesN
  /\ ~attached => queries = <<>> /\ queriesReplies = <<>>

\* The command that is shown as being carried out is under way.
Waited == <<queriesAsked, FALSE>>
Underway ==
  desk = "Adhoc" /\ ~queriesUnheard /\ step.kind = "executing" =>
    \/ \E c \in carriers : Pair(c) = Waited
    \/ Waited \in Keys(Out, queries) \cup Keys(Back, queriesReplies)

QueriesInv == QueriesTypes /\ QueriesNumbered /\ Underway

LEMMA PairIs ==
  /\ \A c \in Sent : Pair(c)[1] = c[1] /\ c[1] \in Nat /\ c[2] \in Asks
  /\ \A r \in Replies : Answers(r)[1] = r.id /\ r.id \in Nat
  BY DEF Pair, Answers, Sent, Replies

LEMMA Maps ==
  /\ DOMAIN Out = Sent /\ \A c \in Sent : Out[c] = Pair(c)
  /\ DOMAIN Back = Replies /\ \A r \in Replies : Back[r] = Answers(r)
  BY Zenon DEF Out, Back

\* What waits on the stream is there under its number.
LEMMA KeysOnStream ==
  ASSUME QueriesTypes, NEW p \in Keys(Out, queries) \cup Keys(Back, queriesReplies)
  PROVE  p[1] \in QU!OnStream
<1>1. CASE p \in Keys(Out, queries)
  <2>1. PICK i \in DOMAIN queries : queries[i] \in DOMAIN Out /\ p = Out[queries[i]]
    BY <1>1, KeysMember
  <2>2. p[1] = queries[i][1]
    BY <2>1, Maps, PairIs
  <2> QED
    BY <2>2 DEF QU!OnStream
<1>2. CASE p \in Keys(Back, queriesReplies)
  <2>1. PICK i \in DOMAIN queriesReplies :
          queriesReplies[i] \in DOMAIN Back /\ p = Back[queriesReplies[i]]
    BY <1>2, KeysMember
  <2>2. p[1] = queriesReplies[i].id
    BY <2>1, Maps, PairIs
  <2> QED
    BY <2>2 DEF QU!OnStream
<1> QED
  BY <1>1, <1>2

LEMMA QueriesInit == ASSUME QU!Init PROVE QueriesInv
<1>1. /\ desk = "Chat" /\ target = QU!Nowhere /\ step = QU!Plain("input") /\ offered = {}
      /\ catalogue = QU!Nowhere /\ carriers = {} /\ attached = FALSE /\ queries = <<>> /\ queriesReplies = <<>>
      /\ running = {} /\ queriesUnheard = FALSE /\ queriesAsked = 0 /\ queriesN = 0
  BY Zenon DEF QU!Init
<1>2. queries \in Seq(Sent) /\ queriesReplies \in Seq(Replies)
  BY <1>1, EmptySeq
<1>3. QU!Plain("input") \in Steps
  BY DEF QU!Plain, Steps
<1>4. IsFiniteSet(running)
  BY <1>1, FS_EmptySet
<1>5. attached \in BOOLEAN /\ queriesUnheard \in BOOLEAN
  BY <1>1, Zenon
<1>6. QueriesTypes
  BY <1>1, <1>2, <1>3, <1>4, <1>5 DEF QueriesTypes
<1>7. Keys(Out, queries) = {} /\ Keys(Back, queriesReplies) = {} /\ Unlike(Out, queries)
      /\ Unlike(Back, queriesReplies)
  BY <1>1, KeysEmpty, Zenon
<1>8. QueriesNumbered
  BY <1>1, <1>7, Zenon DEF QueriesNumbered
<1> QED
  BY <1>1, <1>6, <1>8 DEF QueriesInv, Underway

\* A command of the user sets out with a number of its own.
LEMMA SizeOfRunning == ASSUME NEW S PROVE QU!Cardinality(S) = Cardinality(S)
  BY Zenon DEF QU!Cardinality, Cardinality

LEMMA SetOut ==
  ASSUME QueriesTypes, QueriesNumbered, NEW q \in Asks, QU!Carry(q),
         UNCHANGED <<attached, awaited, queries, queriesReplies>>
  PROVE  carriers' \subseteq Sent /\ queriesN' \in Nat /\ QueriesNumbered' /\ <<queriesN, q>> \in carriers'
         /\ Pair(<<queriesN, q>>) = <<queriesN, q.kind = "items">>
<1> DEFINE c == <<queriesN, q>>
<1>1. carriers' = carriers \cup {c} /\ queriesN' = queriesN + 1 /\ queriesN \in Nat /\ carriers \subseteq Sent
  BY DEF QU!Carry, QueriesTypes
<1>2. c \in Sent /\ c[1] = queriesN
  BY <1>1 DEF Sent
<1> HIDE DEF c
<1>3. Pair(c)[1] = queriesN
  BY <1>2, PairIs
<1>4. \A d \in carriers : Pair(d)[1] = d[1] /\ d[1] \in Nat /\ d[1] < queriesN
  BY <1>1, PairIs DEF QueriesNumbered
<1>5. \A p \in Keys(Out, queries) \cup Keys(Back, queriesReplies) : p[1] < queriesN /\ p[1] < queriesN'
  <2>1. ASSUME NEW p \in Keys(Out, queries) PROVE p[1] \in Nat
    <3>1. PICK i \in DOMAIN queries : queries[i] \in DOMAIN Out /\ p = Out[queries[i]]
      BY KeysMember
    <3> QED
      BY <3>1, Maps, PairIs
  <2>2. ASSUME NEW p \in Keys(Back, queriesReplies) PROVE p[1] \in Nat
    <3>1. PICK i \in DOMAIN queriesReplies : queriesReplies[i] \in DOMAIN Back /\ p = Back[queriesReplies[i]]
      BY KeysMember
    <3> QED
      BY <3>1, Maps, PairIs
  <2> QED
    BY <1>1, <2>1, <2>2 DEF QueriesNumbered
<1>6. Pair(c) \notin Keys(Out, queries) \cup Keys(Back, queriesReplies) /\ \A d \in carriers : Pair(d) # Pair(c)
  BY <1>1, <1>3, <1>4, <1>5
<1>7. \A d \in carriers' : d[1] < queriesN'
  BY <1>1, <1>2, <1>4
<1>8. QueriesNumbered'
  BY <1>1, <1>5, <1>6, <1>7 DEF QueriesNumbered
<1>9. Pair(c) = <<queriesN, q.kind = "items">>
  BY DEF c, Pair
<1> QED
  BY <1>1, <1>2, <1>8, <1>9 DEF c

LEMMA QueriesStep == ASSUME QueriesInv, QU!Next PROVE QueriesInv'
<1>0. QueriesTypes /\ QueriesNumbered /\ Underway
  BY DEF QueriesInv
<1>t. /\ target \in Places \cup {QU!Nowhere} /\ step.node \in Nodes \cup {QU!Nowhere} /\ step.session \in Nat
      /\ \A s \in {"input", "discovering", "list", "executing", "done"} :
           QU!Plain(s) \in Steps /\ QU!Plain(s).kind = s
      /\ queriesN \in Nat
  BY <1>0 DEF QueriesTypes, Places, Steps, QU!Plain
\* What an action leaves alone.
<1>a. ASSUME UNCHANGED <<carriers, queriesN, attached, awaited, queries, queriesReplies>> PROVE QueriesNumbered'
  BY <1>a, <1>0 DEF QueriesNumbered
\* A move of the user that sends nothing, and is not one to execute.
<1>b. ASSUME UNCHANGED <<carriers, queriesN, attached, awaited, queries, queriesReplies, running>>,
             desk' \in {"Chat", "Adhoc"}, target' \in Services \cup {QU!Nowhere}, step' \in Steps,
             offered' \subseteq Nodes, catalogue' \in Places \cup {QU!Nowhere}, UNCHANGED <<queriesAsked, queriesUnheard>>,
             \/ desk' = "Chat"
             \/ step'.kind # "executing"
      PROVE  QueriesInv'
  <2>1. QueriesTypes'
    BY <1>b, <1>0 DEF QueriesTypes
  <2>2. Underway'
    <3>1. Waited' = Waited
      BY <1>b DEF Waited
    <3> QED
      BY <3>1, <1>b, Zenon DEF Underway
  <2> QED
    BY <2>1, <2>2, <1>a, <1>b DEF QueriesInv
\* One that sends something.
<1>c. ASSUME NEW q \in Asks, QU!Carry(q), UNCHANGED <<desk, catalogue, attached, awaited, queries, queriesReplies,
                                                      running>>,
             target' \in Services \cup {QU!Nowhere}, step' \in Steps, offered' \subseteq Nodes,
             queriesAsked' \in Nat, queriesUnheard' \in BOOLEAN,
             \/ step' = step /\ UNCHANGED <<queriesAsked, queriesUnheard>>
             \/ step'.kind # "executing"
             \/ q.kind # "items" /\ queriesAsked' = queriesN
      PROVE  QueriesInv'
  <2>1. carriers' \subseteq Sent /\ queriesN' \in Nat /\ QueriesNumbered' /\ <<queriesN, q>> \in carriers'
        /\ Pair(<<queriesN, q>>) = <<queriesN, q.kind = "items">>
    BY <1>c, <1>0, SetOut
  <2>2. QueriesTypes'
    BY <1>c, <2>1, <1>0 DEF QueriesTypes
  <2>3. Underway'
    <3>1. CASE q.kind # "items" /\ queriesAsked' = queriesN
      <4>1. Waited' = <<queriesN, FALSE>> /\ (q.kind = "items") = FALSE
        BY <3>1 DEF Waited
      <4>2. Pair(<<queriesN, q>>) = Waited'
        BY <2>1, <4>1, Zenon
      <4> QED
        BY <2>1, <4>2, Zenon DEF Underway
    <3>2. CASE step'.kind # "executing"
      BY <3>2 DEF Underway
    <3>3. CASE step' = step /\ UNCHANGED <<queriesAsked, queriesUnheard>>
      <4>1. carriers \subseteq carriers'
        BY <1>c DEF QU!Carry
      <4>2. Waited' = Waited /\ desk' = desk /\ queries' = queries /\ queriesReplies' = queriesReplies
        BY <3>3, <1>c DEF Waited
      <4> QED
        BY <4>1, <4>2, <3>3, <1>0, Zenon DEF Underway
    <3> QED
      BY <1>c, <3>1, <3>2, <3>3
  <2> QED
    BY <2>1, <2>2, <2>3 DEF QueriesInv
<1>1. CASE QU!BrowseRooms
  <2> DEFINE q == QU!Ask("items", MucService, QU!Nowhere, 0)
  <2>1. QU!Carry(q) /\ UNCHANGED <<desk, target, step, offered, catalogue, attached, awaited, queries,
                                   queriesReplies, running, queriesAsked, queriesUnheard>>
    BY <1>1, Zenon DEF QU!BrowseRooms, QU!history, QU!screenVars, QU!engineVars, QU!wireVars
  <2>2. q \in Asks
    BY DEF QU!Ask, Asks, QU!Kinds, Places
  <2> HIDE DEF q
  <2>3. target' \in Services \cup {QU!Nowhere} /\ step' \in Steps /\ offered' \subseteq Nodes
        /\ queriesAsked' \in Nat /\ queriesUnheard' \in BOOLEAN
    BY <2>1, <1>0 DEF QueriesTypes
  <2> QED
    BY <2>1, <2>2, <2>3, <1>c
<1>2. CASE QU!GoToAdhoc
  <2>1. /\ desk' = "Adhoc" /\ target' = QU!Nowhere /\ step' = QU!Plain("input") /\ offered' = {}
        /\ UNCHANGED <<carriers, queriesN, catalogue, attached, awaited, queries, queriesReplies, running,
                       queriesAsked, queriesUnheard>>
    BY <1>2, Zenon DEF QU!GoToAdhoc, QU!Idle, QU!engineVars, QU!wireVars, QU!history
  <2>2. step' \in Steps /\ step'.kind = "input"
    BY <2>1, <1>t
  <2>3. catalogue' \in Places \cup {QU!Nowhere}
    BY <2>1, <1>0 DEF QueriesTypes
  <2> QED
    BY <2>1, <2>2, <2>3, <1>b
<1>3. CASE QU!Close
  <2>1. /\ desk' = "Chat"
        /\ UNCHANGED <<carriers, queriesN, target, step, offered, catalogue, attached, awaited, queries,
                       queriesReplies, running, queriesAsked, queriesUnheard>>
    BY <1>3, Zenon DEF QU!Close, QU!Idle, QU!engineVars, QU!wireVars, QU!history
  <2> QED
    BY <2>1, <1>0, <1>b DEF QueriesTypes
<1>4. CASE QU!DiscoverRequested
  <2> DEFINE q == QU!Ask("items", target', QU!Nowhere, 0)
  <2>1. /\ step' = QU!Plain("discovering") /\ offered' = {} /\ QU!Carry(q)
        /\ (target' \in Services \/ target' = target)
        /\ queriesAsked' = queriesN /\ queriesUnheard' = FALSE
        /\ UNCHANGED <<desk, catalogue, attached, awaited, queries, queriesReplies, running>>
    BY <1>4, Zenon DEF QU!DiscoverRequested, QU!Await, QU!engineVars, QU!wireVars
  <2>2. target' \in Services \cup {QU!Nowhere}
    BY <2>1, <1>0 DEF QueriesTypes
  <2>3. q \in Asks
    BY <2>2 DEF QU!Ask, Asks, QU!Kinds, Places
  <2> HIDE DEF q
  <2>4. step' \in Steps /\ step'.kind = "discovering" /\ queriesAsked' \in Nat /\ queriesUnheard' \in BOOLEAN
    BY <2>1, <1>t
  <2> QED
    BY <2>1, <2>2, <2>3, <2>4, <1>c
<1>5. CASE \E c \in Nodes : QU!CommandSelected(c)
  <2>1. PICK c \in Nodes : QU!CommandSelected(c)
    BY <1>5, Zenon
  <2> DEFINE q == QU!Ask("execute", target, c, 0)
  <2>2. /\ step' = QU!Plain("executing") /\ QU!Carry(q)
        /\ queriesAsked' = queriesN /\ queriesUnheard' = FALSE
        /\ UNCHANGED <<desk, target, offered, catalogue, attached, awaited, queries, queriesReplies, running>>
    BY <2>1, Zenon DEF QU!CommandSelected, QU!Await, QU!engineVars, QU!wireVars
  <2>3. q \in Asks /\ q.kind # "items"
    BY <1>t DEF QU!Ask, Asks, QU!Kinds
  <2> HIDE DEF q
  <2>4. step' \in Steps /\ target' \in Services \cup {QU!Nowhere} /\ offered' \subseteq Nodes
        /\ queriesAsked' \in Nat /\ queriesUnheard' \in BOOLEAN
    BY <2>2, <1>t, <1>0 DEF QueriesTypes
  <2> QED
    BY <2>2, <2>3, <2>4, <1>c
<1>6. CASE QU!SubmitForm
  <2> DEFINE q == QU!Ask("next", target, step.node, step.session)
  <2>1. QU!Carry(q) /\ UNCHANGED <<desk, target, step, offered, catalogue, attached, awaited, queries,
                                   queriesReplies, running, queriesAsked, queriesUnheard>>
    BY <1>6, Zenon DEF QU!SubmitForm, QU!history, QU!screenVars, QU!engineVars, QU!wireVars
  <2>2. q \in Asks
    BY <1>t DEF QU!Ask, Asks, QU!Kinds
  <2> HIDE DEF q
  <2>3. target' \in Services \cup {QU!Nowhere} /\ step' \in Steps /\ offered' \subseteq Nodes
        /\ queriesAsked' \in Nat /\ queriesUnheard' \in BOOLEAN
    BY <2>1, <1>0 DEF QueriesTypes
  <2> QED
    BY <2>1, <2>2, <2>3, <1>c
<1>7. CASE QU!CancelCommand
  <2> DEFINE q == QU!Ask("cancel", target, step.node, step.session)
  <2>1. QU!Carry(q) /\ step' = QU!Plain("list")
        /\ UNCHANGED <<desk, target, offered, catalogue, attached, awaited, queries, queriesReplies, running,
                       queriesAsked, queriesUnheard>>
    BY <1>7, Zenon DEF QU!CancelCommand, QU!history, QU!engineVars, QU!wireVars
  <2>2. q \in Asks
    BY <1>t DEF QU!Ask, Asks, QU!Kinds
  <2> HIDE DEF q
  <2>3. target' \in Services \cup {QU!Nowhere} /\ offered' \subseteq Nodes
        /\ queriesAsked' \in Nat /\ queriesUnheard' \in BOOLEAN
    BY <2>1, <1>0 DEF QueriesTypes
  <2>4. step' \in Steps /\ step'.kind = "list"
    BY <2>1, <1>t
  <2> QED
    BY <2>1, <2>2, <2>3, <2>4, <1>c
<1>8. CASE QU!BackToList
  <2>1. /\ step' = QU!Plain("list")
        /\ UNCHANGED <<carriers, queriesN, desk, target, offered, catalogue, attached, awaited, queries,
                       queriesReplies, running, queriesAsked, queriesUnheard>>
    BY <1>8, Zenon DEF QU!BackToList, QU!Idle, QU!history, QU!engineVars, QU!wireVars
  <2>2. step' \in Steps /\ step'.kind = "list"
    BY <2>1, <1>t
  <2> QED
    BY <2>1, <2>2, <1>0, <1>b DEF QueriesTypes
<1>9. CASE QU!Online
  <2>1. /\ ~attached /\ attached' = TRUE
        /\ UNCHANGED <<desk, target, step, offered, catalogue, carriers, awaited, queries, queriesReplies,
                       running, queriesAsked, queriesUnheard, queriesN>>
    BY <1>9, Zenon DEF QU!Online, QU!history, QU!screenVars, QU!wireVars
  <2>2. QueriesTypes'
    BY <2>1, <1>0 DEF QueriesTypes
  <2>3. QueriesNumbered' /\ Underway'
    BY <2>1, <1>0 DEF QueriesNumbered, Underway, Waited
  <2> QED
    BY <2>2, <2>3 DEF QueriesInv
<1>10. CASE QU!SessionEnd
  <2>1. /\ attached' = FALSE /\ awaited' = {} /\ queries' = <<>> /\ queriesReplies' = <<>>
        /\ queriesUnheard' = (queriesUnheard \/ queriesAsked \in QU!OnStream)
        /\ UNCHANGED <<desk, target, step, offered, catalogue, carriers, running, queriesAsked, queriesN>>
    BY <1>10, Zenon DEF QU!SessionEnd, QU!screenVars
  <2>2. queries' \in Seq(Sent) /\ queriesReplies' \in Seq(Replies) /\ queriesUnheard' \in BOOLEAN
    BY <2>1, EmptySeq
  <2>3. QueriesTypes'
    BY <2>1, <2>2, <1>0 DEF QueriesTypes
  <2>4. Keys(Out, queries') = {} /\ Keys(Back, queriesReplies') = {} /\ Unlike(Out, queries')
        /\ Unlike(Back, queriesReplies')
    BY <2>1, KeysEmpty, Zenon
  <2>5. QueriesNumbered'
    BY <2>1, <2>4, <1>0 DEF QueriesNumbered
  <2>6. Waited[1] = queriesAsked /\ Waited' = Waited
    BY <2>1 DEF Waited
  <2>7. Underway'
    <3>1. ASSUME desk' = "Adhoc", ~queriesUnheard', step'.kind = "executing"
          PROVE  \E c \in carriers' : Pair(c) = Waited'
      <4>1. desk = "Adhoc" /\ ~queriesUnheard /\ queriesAsked \notin QU!OnStream /\ step.kind = "executing"
        BY <3>1, <2>1
      <4>2. Waited \notin Keys(Out, queries) \cup Keys(Back, queriesReplies)
        BY <4>1, <2>6, <1>0, KeysOnStream
      <4> QED
        BY <4>1, <4>2, <2>1, <2>6, <1>0, Zenon DEF Underway
    <3> QED
      BY <3>1, Zenon DEF Underway
  <2> QED
    BY <2>3, <2>5, <2>7 DEF QueriesInv
<1>11. CASE QU!Command
  <2>1. PICK c \in carriers :
          /\ carriers' = carriers \ {c}
          /\ IF attached
               THEN /\ awaited' = awaited \cup QU!Built(c[1], c[2])
                    /\ queries' = Append(queries, c) /\ UNCHANGED queriesUnheard
               ELSE queriesUnheard' = (queriesUnheard \/ c[1] = queriesAsked) /\ UNCHANGED <<awaited, queries>>
          /\ UNCHANGED <<QU!screenVars, attached, queriesReplies, running, queriesAsked, moves, queriesStreams, queriesN>>
    BY <1>11, Zenon DEF QU!Command
  <2>2. UNCHANGED <<desk, target, step, offered, catalogue, attached, queriesReplies, running, queriesAsked,
                    queriesN>>
    BY <2>1, Zenon DEF QU!screenVars
  <2>w. Waited' = Waited /\ Waited[1] = queriesAsked
    BY <2>2 DEF Waited
  <2>3. CASE ~attached
    <3>1. queriesUnheard' = (queriesUnheard \/ c[1] = queriesAsked) /\ UNCHANGED <<awaited, queries>>
      BY <2>1, <2>3
    <3>2. QueriesTypes'
      BY <2>1, <2>2, <3>1, <1>0 DEF QueriesTypes
    <3>3. QueriesNumbered'
      BY <2>1, <2>2, <3>1, <1>0 DEF QueriesNumbered
    <3>4. Underway'
      <4>1. c[1] # queriesAsked => Pair(c) # Waited
        BY <2>w, <1>0, PairIs DEF QueriesTypes
      <4> QED
        BY <4>1, <3>1, <2>1, <2>2, <2>w, <1>0, Zenon DEF Underway
    <3> QED
      BY <3>2, <3>3, <3>4 DEF QueriesInv
  <2>4. CASE attached
    <3>1. awaited' = awaited \cup {Pair(c)} /\ queries' = Append(queries, c) /\ UNCHANGED queriesUnheard
      BY <2>1, <2>4 DEF QU!Built, Pair
    <3>2. c \in Sent /\ queries \in Seq(Sent) /\ c[1] < queriesN /\ Pair(c)[1] = c[1]
      BY <1>0, PairIs DEF QueriesTypes, QueriesNumbered
    <3>3. Pair(c) \notin Keys(Out, queries) /\ Pair(c) \notin Keys(Back, queriesReplies)
          /\ Unlike(Out, queries)
      BY <1>0, Zenon DEF QueriesNumbered
    <3>4. /\ queries' \in Seq(Sent) /\ Keys(Out, queries') = Keys(Out, queries) \cup {Pair(c)}
          /\ Unlike(Out, queries')
      <4>1. c \in DOMAIN Out /\ Out[c] = Pair(c)
        BY <3>2, Maps
      <4> QED
        BY <4>1, <3>1, <3>2, <3>3, KeysAppend
    <3>5. QueriesTypes'
      BY <2>1, <2>2, <3>1, <3>4, <1>0 DEF QueriesTypes
    <3>6. \A d \in carriers' : d \in carriers /\ Pair(d) # Pair(c)
      BY <2>1, <1>0, Zenon DEF QueriesNumbered
    <3>7. \A p \in Keys(Out, queries') \cup Keys(Back, queriesReplies') : p[1] < queriesN'
      BY <2>2, <3>2, <3>4, <1>0 DEF QueriesNumbered
    <3>8. Keys(Out, queries') \cup Keys(Back, queriesReplies') \subseteq awaited'
          /\ Keys(Out, queries') \cap Keys(Back, queriesReplies') = {}
      BY <2>2, <3>1, <3>3, <3>4, <1>0 DEF QueriesNumbered
    <3>9. \A d \in carriers' : Pair(d) \notin Keys(Out, queries') \cup Keys(Back, queriesReplies')
      BY <2>2, <3>4, <3>6, <1>0 DEF QueriesNumbered
    <3>10. QueriesNumbered'
      BY <2>2, <2>4, <3>4, <3>6, <3>7, <3>8, <3>9, <1>0 DEF QueriesNumbered
    <3>11. Underway'
      <4>1. \A d \in carriers : d = c \/ d \in carriers'
        BY <2>1
      <4>2. Keys(Out, queries) \subseteq Keys(Out, queries') /\ Pair(c) \in Keys(Out, queries')
        BY <3>4
      <4>3. ASSUME desk' = "Adhoc", ~queriesUnheard', step'.kind = "executing"
            PROVE  \/ \E d \in carriers' : Pair(d) = Waited'
                   \/ Waited' \in Keys(Out, queries') \cup Keys(Back, queriesReplies')
        <5>1. \/ \E d \in carriers : Pair(d) = Waited
              \/ Waited \in Keys(Out, queries) \cup Keys(Back, queriesReplies)
          BY <4>3, <2>2, <3>1, <1>0, Zenon DEF Underway
        <5> QED
          BY <5>1, <4>1, <4>2, <2>2, <2>w
      <4> QED
        BY <4>3, Zenon DEF Underway
    <3> QED
      BY <3>5, <3>10, <3>11 DEF QueriesInv
  <2> QED
    BY <2>3, <2>4
<1>12. CASE QU!HandleIq
  <2> DEFINE r == Head(queriesReplies)
  <2>1. /\ attached /\ queriesReplies # <<>> /\ queriesReplies' = Tail(queriesReplies)
        /\ queriesUnheard' = (queriesUnheard \/ (r.id = queriesAsked /\ QU!Mute(r)))
        /\ UNCHANGED <<desk, target, carriers, attached, queries, running, queriesAsked, queriesN>>
    BY <1>12, Zenon DEF QU!HandleIq
  <2>2. IF r.status = "error" \/ <<r.id, r.items>> \notin awaited
        THEN UNCHANGED <<awaited, step, offered, catalogue>>
        ELSE /\ awaited' = awaited \ {<<r.id, r.items>>}
             /\ \/ r.status = "bare" /\ UNCHANGED <<step, offered, catalogue>>
                \/ r.status # "bare" /\ r.items /\ QU!ShowItems(r.from, r.commands)
                \/ r.status # "bare" /\ ~r.items /\ QU!ShowResponse(r)
    BY <1>12, Zenon DEF QU!HandleIq
  <2>3. /\ r \in Replies /\ queriesReplies' \in Seq(Replies) /\ Unlike(Back, queriesReplies')
        /\ Keys(Back, queriesReplies) = Keys(Back, queriesReplies') \cup {Back[r]}
        /\ Back[r] \notin Keys(Back, queriesReplies')
    <3>1. queriesReplies \in Seq(Replies) /\ Unlike(Back, queriesReplies) /\ DOMAIN Back = Replies
      BY <1>0, Maps DEF QueriesTypes, QueriesNumbered
    <3> QED
      BY <3>1, <2>1, KeysTail
  <2> HIDE DEF r
  <2>5. Back[r] = <<r.id, r.items>> /\ Back[r] \in awaited /\ Back[r] \notin Keys(Out, queries)
    <3>1. Back[r] = <<r.id, r.items>>
      BY <2>3, Maps, Zenon DEF Answers
    <3> QED
      BY <3>1, <2>3, <1>0, Zenon DEF QueriesNumbered
  <2>6. awaited' \in {awaited, awaited \ {Back[r]}}
    BY <2>2, <2>5, Zenon
  <2>7. QueriesNumbered'
    <3>1. Keys(Back, queriesReplies') \subseteq Keys(Back, queriesReplies)
      BY <2>3
    <3>2. Keys(Out, queries') \cup Keys(Back, queriesReplies') \subseteq awaited'
      BY <2>1, <2>3, <2>5, <2>6, <1>0 DEF QueriesNumbered
    <3> QED
      BY <3>1, <3>2, <2>1, <2>3, <1>0 DEF QueriesNumbered
  <2>8. queriesUnheard' \in BOOLEAN /\ queriesAsked' \in Nat
    BY <2>1, <1>0 DEF QueriesTypes
  <2>w. Waited' = Waited
    BY <2>1 DEF Waited
\* As long as the screen stays as it is, the answer is that of another request, or
\* tells the screen nothing.
  <2>4. ASSUME step' = step, Back[r] = Waited => queriesUnheard' PROVE Underway'
    <3>1. ASSUME desk' = "Adhoc", ~queriesUnheard', step'.kind = "executing"
          PROVE  \/ \E d \in carriers' : Pair(d) = Waited'
                 \/ Waited' \in Keys(Out, queries') \cup Keys(Back, queriesReplies')
      <4>1. \/ \E d \in carriers : Pair(d) = Waited
            \/ Waited \in Keys(Out, queries) \cup Keys(Back, queriesReplies)
        BY <3>1, <2>1, <2>4, <1>0, Zenon DEF Underway
      <4>2. Waited # Back[r]
        BY <3>1, <2>4
      <4> QED
        BY <4>1, <4>2, <2>1, <2>3, <2>w
    <3> QED
      BY <3>1, Zenon DEF Underway
  <2>9. CASE QU!Mute(r)
    <3>1. UNCHANGED <<step, offered, catalogue>>
      <4>1. r.status = "error" \/ r.status = "bare"
        BY <2>9 DEF QU!Mute
      <4> QED
        BY <4>1, <2>2
    <3>2. QueriesTypes'
      BY <3>1, <2>1, <2>3, <2>8, <1>0 DEF QueriesTypes
    <3>3. Back[r] = Waited => queriesUnheard'
      <4>1. Back[r][1] = r.id /\ Waited[1] = queriesAsked
        BY <2>5 DEF Waited
      <4> QED
        BY <4>1, <2>1, <2>9, Zenon
    <3> QED
      BY <3>1, <3>2, <3>3, <2>4, <2>7 DEF QueriesInv
  <2>10. CASE ~QU!Mute(r) /\ r.items
    <3>0. r.status # "error" /\ r.status # "bare"
      BY <2>10 DEF QU!Mute
    <3>1. QU!ShowItems(r.from, r.commands)
      BY <3>0, <2>2, <2>5, <2>10
    <3>2. r.from \in Places \cup {QU!Nowhere} /\ r.commands \subseteq Nodes
      BY <2>3 DEF Replies
    <3>3. /\ step' = step \/ step' = QU!Plain("list")
          /\ offered' = offered \/ offered' = r.commands
          /\ catalogue' = catalogue \/ catalogue' = r.from
      BY <3>1 DEF QU!ShowItems
    <3>4. step' \in Steps
      BY <3>3, <1>t, <1>0 DEF QueriesTypes
    <3>5. QueriesTypes'
      BY <3>2, <3>3, <3>4, <2>1, <2>3, <2>8, <1>0 DEF QueriesTypes
    <3>6. Back[r] # Waited
      <4>1. r.items = TRUE
        <5>1. r.items \in BOOLEAN
          BY <2>3 DEF Replies
        <5> QED
          BY <5>1, <2>10, Zenon
      <4> QED
        <5>1. Back[r] = <<r.id, TRUE>>
          BY <4>1, <2>5, Zenon
        <5>2. Back[r][2] = TRUE /\ Waited[2] = FALSE
          BY <5>1 DEF Waited
        <5> QED
          BY <5>2, Zenon
    <3>7. Underway'
      <4>1. CASE step' = QU!Plain("list")
        BY <4>1, <1>t DEF Underway
      <4>2. CASE step' = step
        BY <4>2, <3>6, <2>4
      <4> QED
        BY <3>3, <4>1, <4>2
    <3> QED
      BY <3>5, <3>7, <2>7 DEF QueriesInv
  <2>11. CASE ~QU!Mute(r) /\ ~r.items
    <3>0. r.status # "error" /\ r.status # "bare"
      BY <2>11 DEF QU!Mute
    <3>1. QU!ShowResponse(r)
      BY <3>0, <2>2, <2>5, <2>11
    <3>2. r.status \in {"completed", "canceled", "executing"} /\ r.node \in Nodes \cup {QU!Nowhere}
          /\ r.session \in Nat
      BY <3>0, <2>3, <2>11 DEF Replies, Statuses
    <3>3. /\ desk # "Adhoc" => step' = step
          /\ desk = "Adhoc" => step' \in {QU!Plain("done"), QU!Plain("list"), QU!Form(r.node, r.session)}
          /\ UNCHANGED <<offered, catalogue>>
      BY <3>1, <3>2 DEF QU!ShowResponse
    <3>4. QU!Form(r.node, r.session) \in Steps /\ QU!Form(r.node, r.session).kind = "form"
      BY <3>2 DEF QU!Form, Steps
    <3>5. step' \in Steps /\ (desk = "Adhoc" => step'.kind # "executing")
      BY <3>3, <3>4, <1>t, <1>0 DEF QueriesTypes
    <3>6. QueriesTypes'
      BY <3>3, <3>5, <2>1, <2>3, <2>8, <1>0 DEF QueriesTypes
    <3> QED
      BY <3>5, <3>6, <2>1, <2>7 DEF QueriesInv, Underway
  <2> QED
    BY <2>9, <2>10, <2>11
<1>13. CASE QU!Serve
  <2> DEFINE c == Head(queries)  q == c[2]  fresh == Cardinality(running) + 1
  <2>1. /\ attached /\ queries # <<>> /\ queries' = Tail(queries)
        /\ UNCHANGED <<desk, target, step, offered, catalogue, carriers, attached, awaited, queriesAsked,
                       queriesUnheard, queriesN>>
    BY <1>13, Zenon DEF QU!Serve, QU!screenVars, QU!engineVars, QU!history
  <2>2. \/ /\ UNCHANGED running
           /\ \E s \in {"error", "bare"} : queriesReplies' = Append(queriesReplies, QU!Reply(c, s, 0, {}))
        \/ /\ q.kind = "items" /\ UNCHANGED running
           /\ queriesReplies' = Append(queriesReplies, QU!Reply(c, "result", 0, QU!Held(q.to)))
        \/ /\ running' = running \cup {<<q.to, fresh>>}
           /\ queriesReplies' = Append(queriesReplies, QU!Reply(c, "executing", fresh, {}))
        \/ /\ UNCHANGED running
           /\ queriesReplies' = Append(queriesReplies, QU!Reply(c, "completed", 0, {}))
        \/ /\ UNCHANGED running
           /\ queriesReplies' = Append(queriesReplies, QU!Reply(c, "executing", q.session, {}))
        \/ /\ running' = running \ {<<q.to, q.session>>}
           /\ queriesReplies' = Append(queriesReplies, QU!Reply(c, IF q.kind = "next" THEN "completed" ELSE "canceled",
                                                                q.session, {}))
    BY <1>13, SizeOfRunning, Zenon DEF QU!Serve
  <2>3. /\ c \in Sent /\ queries' \in Seq(Sent) /\ Unlike(Out, queries')
        /\ Keys(Out, queries) = Keys(Out, queries') \cup {Out[c]}
        /\ Out[c] \notin Keys(Out, queries')
    <3>1. queries \in Seq(Sent) /\ Unlike(Out, queries) /\ DOMAIN Out = Sent
      BY <1>0, Maps DEF QueriesTypes, QueriesNumbered
    <3> QED
      BY <3>1, <2>1, KeysTail
  <2>5. fresh \in Nat /\ IsFiniteSet(running)
    BY <1>0, FS_CardinalityType DEF QueriesTypes
  <2>6. c[1] \in Nat /\ q \in Asks /\ q.session \in Nat /\ q.to \in Places \cup {QU!Nowhere}
        /\ q.node \in Nodes \cup {QU!Nowhere} /\ q.kind \in QU!Kinds
    BY <2>3, PairIs DEF Asks
  <2>7. QU!Held(q.to) \subseteq Nodes
    BY <2>6, QueriesAssumption DEF QU!Held, Places
  <2> HIDE DEF c, fresh
  <2>8. ASSUME NEW s \in Statuses, NEW k \in Nat,
               NEW cs \in SUBSET Nodes, s # "result" \/ q.kind = "items"
        PROVE  /\ QU!Reply(c, s, k, cs) \in Replies /\ Answers(QU!Reply(c, s, k, cs)) = Pair(c)
               /\ QU!Reply(c, s, k, cs).items <=> q.kind = "items"
    <3> DEFINE x == QU!Reply(c, s, k, cs)
    <3>1. x = [id |-> c[1], items |-> q.kind = "items", from |-> q.to, node |-> q.node,
               status |-> s, session |-> k, commands |-> cs]
      BY Zenon DEF QU!Reply
    <3>3. x.items = (q.kind = "items")
      BY <3>1
    <3>2. x.id = c[1] /\ (x.items <=> q.kind = "items") /\ x.status = s
      <4>1. x.id = c[1] /\ x.status = s
        BY <3>1
      <4> QED
        BY <4>1, <3>3, Zenon
    <3>4. x \in [id : Nat, items : BOOLEAN, from : Places \cup {QU!Nowhere}, node : Nodes \cup {QU!Nowhere},
          status : Statuses, session : Nat, commands : SUBSET Nodes]
      BY <3>1, <2>6
    <3> HIDE DEF x
    <3>5. x \in Replies
      BY <3>2, <3>4, <2>8, Zenon DEF Replies
    <3>6. Answers(x) = Pair(c)
      BY <3>2, <3>3, Zenon DEF Answers, Pair
    <3> QED
      BY <3>2, <3>5, <3>6, Zenon DEF x
  <2>9. PICK x \in Replies : /\ queriesReplies' = Append(queriesReplies, x) /\ Answers(x) = Pair(c)
                             /\ x.items <=> q.kind = "items"
    <3>1. CASE \E s \in {"error", "bare"} : queriesReplies' = Append(queriesReplies, QU!Reply(c, s, 0, {}))
      BY <3>1, <2>8 DEF Statuses
    <3>2. CASE q.kind = "items" /\ queriesReplies' = Append(queriesReplies, QU!Reply(c, "result", 0, QU!Held(q.to)))
      BY <3>2, <2>7, <2>8 DEF Statuses
    <3>3. CASE \/ queriesReplies' = Append(queriesReplies, QU!Reply(c, "executing", fresh, {}))
               \/ queriesReplies' = Append(queriesReplies, QU!Reply(c, "executing", q.session, {}))
      BY <3>3, <2>5, <2>6, <2>8 DEF Statuses
    <3>5. CASE queriesReplies' = Append(queriesReplies, QU!Reply(c, "completed", 0, {}))
      BY <3>5, <2>8 DEF Statuses
    <3>4. CASE queriesReplies' = Append(queriesReplies, QU!Reply(c, IF q.kind = "next" THEN "completed" ELSE "canceled",
                                                                 q.session, {}))
      <4>1. (IF q.kind = "next" THEN "completed" ELSE "canceled") \in {"completed", "canceled"}
        OBVIOUS
      <4> QED
        BY <3>4, <4>1, <2>6, <2>8 DEF Statuses
    <3> QED
      BY <2>2, <3>1, <3>2, <3>3, <3>4, <3>5, Zenon
  <2>10. IsFiniteSet(running')
    BY SMTT(30), <2>2, <2>5, FS_AddElement, FS_RemoveElement
  <2>11. Out[c] = Pair(c) /\ Back[x] = Pair(c) /\ x \in DOMAIN Back
    BY <2>3, <2>9, Maps
  <2>12. Pair(c) \notin Keys(Back, queriesReplies) /\ Unlike(Back, queriesReplies) /\ queriesReplies \in Seq(Replies)
    BY <2>3, <2>11, <1>0, Zenon DEF QueriesNumbered, QueriesTypes
  <2>13. /\ queriesReplies' \in Seq(Replies) /\ Keys(Back, queriesReplies') = Keys(Back, queriesReplies) \cup {Pair(c)}
         /\ Unlike(Back, queriesReplies')
    BY <2>9, <2>11, <2>12, KeysAppend
  <2>14. QueriesTypes'
    BY <2>1, <2>3, <2>10, <2>13, <1>0 DEF QueriesTypes
  <2>15. QueriesNumbered'
    <3>1. Keys(Out, queries') \cup Keys(Back, queriesReplies') = Keys(Out, queries) \cup Keys(Back, queriesReplies)
      BY <2>3, <2>11, <2>13
    <3>2. Keys(Out, queries') \cap Keys(Back, queriesReplies') = {}
      BY <2>3, <2>11, <2>13, <1>0 DEF QueriesNumbered
    <3> QED
      BY <3>1, <3>2, <2>1, <2>3, <2>13, <1>0 DEF QueriesNumbered
  <2>16. Underway'
    <3>1. Keys(Out, queries') \cup Keys(Back, queriesReplies') = Keys(Out, queries) \cup Keys(Back, queriesReplies)
      BY <2>3, <2>11, <2>13
    <3>2. Waited' = Waited
      BY <2>1 DEF Waited
    <3> QED
      BY <3>1, <3>2, <2>1, <1>0, Zenon DEF Underway
  <2> QED
    BY <2>14, <2>15, <2>16 DEF QueriesInv
<1> QED
  BY <1>1, <1>2, <1>3, <1>4, <1>5, <1>6, <1>7, <1>8, <1>9, <1>10, <1>11, <1>12, <1>13,
     Zenon DEF QU!Next

LEMMA QueriesStutter == ASSUME QueriesInv, UNCHANGED QU!vars PROVE QueriesInv'
  BY DEF QueriesInv, QueriesTypes, QueriesNumbered, Underway, Waited, QU!vars, QU!screenVars,
     QU!engineVars, QU!wireVars, QU!history

LEMMA QueriesTyped == ASSUME QueriesInv PROVE QU!TypeOK
<1>1. QueriesTypes /\ QueriesNumbered
  BY DEF QueriesInv
<1>2. ASSUME NEW i \in DOMAIN queries PROVE queries[i][1] \in {p[1] : p \in awaited}
  <2>1. queries[i] \in Sent
    BY <1>1, ElementOfSeq, LenProperties DEF QueriesTypes
  <2>2. Pair(queries[i]) \in Keys(Out, queries) /\ Pair(queries[i])[1] = queries[i][1]
    BY <2>1, Maps, KeysHas, PairIs
  <2> QED
    BY <2>2, <1>1 DEF QueriesNumbered
<1>3. ASSUME NEW i \in DOMAIN queriesReplies PROVE queriesReplies[i].id \in {p[1] : p \in awaited}
  <2>1. queriesReplies[i] \in Replies
    BY <1>1, ElementOfSeq, LenProperties DEF QueriesTypes
  <2>2. Answers(queriesReplies[i]) \in Keys(Back, queriesReplies) /\ Answers(queriesReplies[i])[1] = queriesReplies[i].id
    BY <2>1, Maps, KeysHas, PairIs
  <2> QED
    BY <2>2, <1>1 DEF QueriesNumbered
<1>4. \A c \in carriers : c[1] < queriesN /\ c[2].kind \in QU!Kinds
  BY <1>1 DEF QueriesTypes, QueriesNumbered, Sent, Asks
<1>5. step.kind \in {"input", "discovering", "list", "executing", "form", "done"}
  BY <1>1 DEF QueriesTypes, Steps
<1>6. catalogue \in Services \cup {MucService, QU!Nowhere}
  BY <1>1 DEF QueriesTypes, Places
<1>7. {queries[i][1] : i \in DOMAIN queries} \cup {queriesReplies[i].id : i \in DOMAIN queriesReplies}
        \subseteq {p[1] : p \in awaited}
  BY <1>2, <1>3
<1> QED
  BY <1>1, <1>4, <1>5, <1>6, <1>7, Zenon DEF QueriesTypes, QueriesNumbered, QU!TypeOK

LEMMA QueriesAnswered == ASSUME QueriesInv PROVE QU!CommandsAnswered
<1>1. Waited[1] = queriesAsked
  BY DEF Waited
<1>2. ASSUME NEW c \in carriers, Pair(c) = Waited PROVE queriesAsked \in QU!Coming
  <2>1. c[1] = queriesAsked
    BY <1>1, <1>2, PairIs DEF QueriesInv, QueriesTypes
  <2> QED
    BY <2>1 DEF QU!Coming, QU!Sending
<1>3. Waited \in Keys(Out, queries) \cup Keys(Back, queriesReplies) => queriesAsked \in QU!Coming
  BY <1>1, KeysOnStream DEF QueriesInv, QU!Coming
<1> QED
  BY <1>2, <1>3, Zenon DEF QueriesInv, Underway, QU!CommandsAnswered

-----------------------------------------------------------------------------
(* Avatars: whatever is shown, asked for or answered under the name of a   *)
(* contact is a picture of that contact.                                   *)

Of(f) == Pictures[f] \cup {AV!NoFace}
All == {AV!NoFace} \cup UNION {Pictures[f] : f \in Friends}
Theirs == {g \in [Friends -> All] : \A f \in Friends : g[f] \in Of(f)}

\* A vCard is asked for under the number that stands for the contact, and comes
\* back under it.
Asked ==
  {q \in [kind : {"data"}, of : Friends, id : All] \cup [kind : {"vcard"}, of : Friends, id : Nat] :
     q.kind = "vcard" => /\ q.id <= fetches
                         /\ q.id \in DOMAIN pendingVcards => pendingVcards[q.id] = q.of}
AvatarsSaid ==
  {e \in [kind : {"metadata", "data", "error"}, of : Friends, id : All]
           \cup [kind : {"vcard"}, of : Nat, id : All] :
     /\ e.kind = "data" => e.id \in Of(e.of)
     /\ e.kind = "vcard" => /\ e.of <= fetches
                            /\ e.of \in DOMAIN pendingVcards => e.id \in Of(pendingVcards[e.of])}

AvatarsInv ==
  /\ pep \in Theirs /\ photo \in Theirs /\ avatarsKnown \in Theirs /\ avatarsKept \in Theirs
  /\ \A i \in DOMAIN pendingVcards : i \in 1..fetches /\ pendingVcards[i] \in Friends
  /\ wanted \in Seq(Asked) /\ incoming \in Seq(AvatarsSaid)
  /\ shots \in 0..MaxShots /\ fetches \in 0..MaxFetches /\ breaks \in 0..MaxBreaks

LEMMA AllFaces == AV!Faces = [Friends -> All] /\ \A f \in Friends : Of(f) \subseteq All
  BY DEF AV!Faces, All, Of

LEMMA AvatarsInit == ASSUME AV!Init PROVE AvatarsInv
<1>1. [f \in Friends |-> AV!NoFace] \in Theirs
  BY DEF Theirs, All, Of
<1>2. photo \in Theirs
  BY AllFaces DEF AV!Init, Theirs, Of
<1>3. pep = [f \in Friends |-> AV!NoFace] /\ avatarsKnown = [f \in Friends |-> AV!NoFace] /\ avatarsKept = avatarsKnown
      /\ wanted = <<>> /\ incoming = <<>> /\ pendingVcards = <<>> /\ shots = 0 /\ fetches = 0
      /\ breaks = 0
  BY Zenon DEF AV!Init
<1>4. wanted \in Seq(Asked) /\ incoming \in Seq(AvatarsSaid) /\ DOMAIN pendingVcards = {}
  BY <1>3, EmptySeq
<1> QED
  BY <1>1, <1>2, <1>3, <1>4, AvatarsAssumption DEF AvatarsInv

LEMMA Shown ==
  ASSUME avatarsKnown \in Theirs, avatarsKept \in Theirs, NEW f \in Friends, NEW p \in Of(f), AV!Show(f, p)
  PROVE  avatarsKnown' \in Theirs /\ avatarsKept' \in Theirs
<1>1. p \in All
  BY AllFaces
<1>2. ASSUME NEW g \in Theirs PROVE [g EXCEPT ![f] = p] \in Theirs
  <2>1. [g EXCEPT ![f] = p] \in [Friends -> All]
    BY <1>1, <1>2 DEF Theirs
  <2>2. ASSUME NEW h \in Friends PROVE [g EXCEPT ![f] = p][h] \in Of(h)
    BY <1>2, <2>2 DEF Theirs
  <2> QED
    BY <2>1, <2>2 DEF Theirs
<1> QED
  BY <1>2 DEF AV!Show

LEMMA AvatarsStep == ASSUME AvatarsInv, AV!Next PROVE AvatarsInv'
<1>0. /\ pep \in Theirs /\ photo \in Theirs /\ avatarsKnown \in Theirs /\ avatarsKept \in Theirs
      /\ \A i \in DOMAIN pendingVcards : i \in 1..fetches /\ pendingVcards[i] \in Friends
      /\ wanted \in Seq(Asked) /\ incoming \in Seq(AvatarsSaid)
      /\ shots \in 0..MaxShots /\ fetches \in 0..MaxFetches /\ breaks \in 0..MaxBreaks
      /\ fetches \in Nat
  BY AvatarsAssumption DEF AvatarsInv
\* What an action leaves alone.
<1>a. ASSUME UNCHANGED <<fetches, pendingVcards>> PROVE Asked' = Asked /\ AvatarsSaid' = AvatarsSaid
  BY <1>a DEF Asked, AvatarsSaid
<1>b. ASSUME AV!Shot
      PROVE  shots' \in 0..MaxShots /\ UNCHANGED <<fetches, breaks>>
  BY <1>b, <1>0, AvatarsAssumption DEF AV!Shot
<1>c. ASSUME UNCHANGED <<AV!peers, AV!stream, pendingVcards, AV!faces, fetches, breaks>>,
             shots' \in 0..MaxShots
      PROVE  AvatarsInv'
  <2>1. Asked' = Asked /\ AvatarsSaid' = AvatarsSaid
    BY <1>c, <1>a
  <2> QED
    BY <1>c, <2>1, <1>0 DEF AvatarsInv, AV!peers, AV!stream, AV!faces
<1>1. CASE \E f \in Friends : AV!FetchAvatar(f)
  <2>1. PICK f \in Friends : AV!FetchAvatar(f)
    BY <1>1, Zenon
  <2> DEFINE k == fetches + 1  q == [kind |-> "vcard", of |-> f, id |-> k]
  <2>2. /\ fetches < MaxFetches /\ fetches' = k /\ pendingVcards' = AV!Put(pendingVcards, k, f)
        /\ wanted' = Append(wanted, q) /\ UNCHANGED <<AV!peers, incoming, AV!faces, shots, breaks>>
    BY <2>1, Zenon DEF AV!FetchAvatar
  <2>3. k \in Nat /\ k \in 0..MaxFetches /\ k \in 1..k /\ \A i \in Nat : i <= fetches => i # k /\ i <= k
    BY <2>2, <1>0, AvatarsAssumption
  <2>4. /\ DOMAIN pendingVcards' = DOMAIN pendingVcards \cup {k} /\ pendingVcards'[k] = f
        /\ \A i \in DOMAIN pendingVcards : i # k => pendingVcards'[i] = pendingVcards[i]
    BY <2>2 DEF AV!Put
  <2>5. \A i \in DOMAIN pendingVcards' : i \in 1..fetches' /\ pendingVcards'[i] \in Friends
    BY <2>2, <2>3, <2>4, <1>0
  <2>6. ASSUME NEW i \in Nat, i <= fetches, i \in DOMAIN pendingVcards'
        PROVE  i \in DOMAIN pendingVcards /\ pendingVcards'[i] = pendingVcards[i] /\ i <= fetches'
    BY <2>2, <2>3, <2>4, <2>6
  <2>7. Asked \subseteq Asked'
    <3> SUFFICES ASSUME NEW x \in Asked PROVE x \in Asked'
      OBVIOUS
    <3>1. x.kind = "vcard" => x.id \in Nat /\ x.id <= fetches /\ x.id <= fetches'
      BY <2>2, <2>3 DEF Asked
    <3>2. x.kind = "vcard" /\ x.id \in DOMAIN pendingVcards' => pendingVcards'[x.id] = x.of
      BY <2>6, <3>1 DEF Asked
    <3> QED
      BY <3>1, <3>2 DEF Asked
  <2>8. AvatarsSaid \subseteq AvatarsSaid'
    <3> SUFFICES ASSUME NEW x \in AvatarsSaid PROVE x \in AvatarsSaid'
      OBVIOUS
    <3>1. x.kind = "vcard" => x.of \in Nat /\ x.of <= fetches /\ x.of <= fetches'
      BY <2>2, <2>3 DEF AvatarsSaid
    <3>2. x.kind = "vcard" /\ x.of \in DOMAIN pendingVcards' => x.id \in Of(pendingVcards'[x.of])
      BY <2>6, <3>1 DEF AvatarsSaid
    <3> QED
      BY <3>1, <3>2 DEF AvatarsSaid
  <2>9. q \in Asked'
    BY <2>2, <2>3, <2>4 DEF Asked
  <2> HIDE DEF q
  <2>10. wanted' \in Seq(Asked') /\ incoming' \in Seq(AvatarsSaid')
    <3>1. wanted \in Seq(Asked') /\ incoming \in Seq(AvatarsSaid')
      BY <2>7, <2>8, <1>0, SeqMonotonic
    <3> QED
      BY <3>1, <2>2, <2>9, AppendProperties
  <2> QED
    BY <2>2, <2>3, <2>5, <2>10, <1>0 DEF AvatarsInv, AV!peers, AV!faces
<1>2. CASE \E f \in Friends : \E p \in Pictures[f] : AV!Publish(f, p) \/ AV!SetPhoto(f, p)
  <2>1. PICK f \in Friends : \E p \in Pictures[f] : AV!Publish(f, p) \/ AV!SetPhoto(f, p)
    BY <1>2, Zenon
  <2>2. PICK p \in Pictures[f] : AV!Publish(f, p) \/ AV!SetPhoto(f, p)
    BY <2>1, Zenon
  <2>3. p \in Of(f) /\ p \in All
    BY AllFaces DEF Of
  <2>4. ASSUME NEW g \in Theirs PROVE [g EXCEPT ![f] = p] \in Theirs
    <3>1. [g EXCEPT ![f] = p] \in [Friends -> All]
      BY <2>3, <2>4 DEF Theirs
    <3>2. ASSUME NEW h \in Friends PROVE [g EXCEPT ![f] = p][h] \in Of(h)
      BY <2>3, <2>4, <3>2 DEF Theirs
    <3> QED
      BY <3>1, <3>2 DEF Theirs
  <2>5. CASE AV!Publish(f, p)
    <3> DEFINE e == [kind |-> "metadata", of |-> f, id |-> p]
    <3>1. AV!Shot /\ pep' = [pep EXCEPT ![f] = p] /\ incoming' = Append(incoming, e)
          /\ UNCHANGED <<photo, wanted, pendingVcards, AV!faces>>
      BY <2>5, Zenon DEF AV!Publish
    <3>2. Asked' = Asked /\ AvatarsSaid' = AvatarsSaid
      BY <3>1, <1>a, <1>b
    <3>3. e \in AvatarsSaid
      BY <2>3 DEF AvatarsSaid
    <3> HIDE DEF e
    <3>4. incoming' \in Seq(AvatarsSaid')
      BY <3>1, <3>2, <3>3, <1>0, AppendProperties
    <3> QED
      BY <3>1, <3>2, <3>4, <2>4, <1>0, <1>b DEF AvatarsInv, AV!faces
  <2>6. CASE AV!SetPhoto(f, p)
    <3>1. AV!Shot /\ photo' = [photo EXCEPT ![f] = p] /\ UNCHANGED <<pep, AV!stream, pendingVcards, AV!faces>>
      BY <2>6, Zenon DEF AV!SetPhoto
    <3>2. Asked' = Asked /\ AvatarsSaid' = AvatarsSaid
      BY <3>1, <1>a, <1>b
    <3> QED
      BY <3>1, <3>2, <2>4, <1>0, <1>b DEF AvatarsInv, AV!stream, AV!faces
  <2> QED
    BY <2>2, <2>5, <2>6
<1>3. CASE AV!Serve
  <2> DEFINE q == Head(wanted)
  <2>1. wanted # <<>> /\ wanted' = Tail(wanted) /\ incoming' = Append(incoming, AV!Answer(q))
        /\ UNCHANGED <<shots, fetches, breaks, AV!peers, pendingVcards, AV!faces>>
    BY <1>3, Zenon DEF AV!Serve, AV!Quietly
  <2>2. q \in Asked /\ wanted' \in Seq(Asked)
    BY <2>1, <1>0, HeadTailProperties
  <2> HIDE DEF q
  <2>3. q.of \in Friends /\ photo[q.of] \in Of(q.of) /\ pep[q.of] \in Of(q.of)
    BY <2>2, <1>0 DEF Asked, Theirs
  <2>4. AV!Answer(q) \in AvatarsSaid
    <3>1. CASE q.kind = "vcard"
      <4>1. q.id \in Nat /\ q.id <= fetches
            /\ (q.id \in DOMAIN pendingVcards => pendingVcards[q.id] = q.of)
        BY <2>2, <3>1 DEF Asked
      <4>2. photo[q.of] \in All
        BY <2>3, AllFaces
      <4>3. AV!Answer(q) = [kind |-> "vcard", of |-> q.id, id |-> photo[q.of]]
        BY <3>1 DEF AV!Answer
      <4> QED
        BY <4>1, <4>2, <4>3, <2>3 DEF AvatarsSaid
    <3>2. CASE q.kind # "vcard"
      <4>1. q.id \in All
        BY <2>2, <3>2 DEF Asked
      <4>2. \/ AV!Answer(q) = [kind |-> "data", of |-> q.of, id |-> q.id] /\ pep[q.of] = q.id
            \/ AV!Answer(q) = [kind |-> "error", of |-> q.of, id |-> q.id]
        BY <3>2 DEF AV!Answer
      <4> QED
        BY <4>1, <4>2, <2>3 DEF AvatarsSaid
    <3> QED
      BY <3>1, <3>2
  <2>5. Asked' = Asked /\ AvatarsSaid' = AvatarsSaid
    BY <2>1, <1>a
  <2>6. incoming' \in Seq(AvatarsSaid')
    BY <2>1, <2>4, <2>5, <1>0, AppendProperties
  <2> QED
    BY <2>1, <2>2, <2>5, <2>6, <1>0 DEF AvatarsInv, AV!peers, AV!faces
<1>4. CASE AV!Receive
  <2> DEFINE e == Head(incoming)
  <2>1. incoming # <<>> /\ incoming' = Tail(incoming) /\ UNCHANGED <<shots, fetches, breaks, AV!peers>>
    BY <1>4, Zenon DEF AV!Receive, AV!Quietly
  <2>2. \/ e.kind = "metadata" /\ AV!OnAvatarMetadataEvent(e)
        \/ e.kind = "data" /\ AV!OnAvatarDataResult(e)
        \/ e.kind = "vcard" /\ AV!OnVcardResult(e)
        \/ e.kind = "error" /\ UNCHANGED <<wanted, pendingVcards, AV!faces>>
    BY <1>4, Zenon DEF AV!Receive
  <2>3. e \in AvatarsSaid /\ incoming' \in Seq(AvatarsSaid)
    BY <2>1, <1>0, HeadTailProperties
  <2> HIDE DEF e
  <2>4. ASSUME UNCHANGED pendingVcards, avatarsKnown' \in Theirs, avatarsKept' \in Theirs, wanted' \in Seq(Asked)
        PROVE  AvatarsInv'
    <3>1. Asked' = Asked /\ AvatarsSaid' = AvatarsSaid
      BY <2>1, <2>4, <1>a
    <3> QED
      BY <3>1, <2>1, <2>3, <2>4, <1>0 DEF AvatarsInv, AV!peers
  <2>5. CASE e.kind = "metadata" /\ AV!OnAvatarMetadataEvent(e)
    <3> DEFINE q == [kind |-> "data", of |-> e.of, id |-> e.id]
    <3>1. wanted' = Append(wanted, q) /\ UNCHANGED <<pendingVcards, avatarsKnown, avatarsKept>>
      BY <2>5, Zenon DEF AV!OnAvatarMetadataEvent, AV!faces
    <3>2. e.of \in Friends /\ e.id \in All
      BY <2>3, <2>5 DEF AvatarsSaid
    <3>3. q \in Asked
      BY <3>2 DEF Asked
    <3> HIDE DEF q
    <3>4. wanted' \in Seq(Asked)
      BY <3>1, <3>3, <1>0, AppendProperties
    <3> QED
      BY <3>1, <3>4, <2>4, <1>0
  <2>6. CASE e.kind = "data" /\ AV!OnAvatarDataResult(e)
    <3>1. e.of \in Friends /\ e.id \in Of(e.of)
      BY <2>3, <2>6 DEF AvatarsSaid
    <3>2. AV!Show(e.of, e.id) /\ UNCHANGED <<wanted, pendingVcards>>
      BY <2>6 DEF AV!OnAvatarDataResult
    <3>3. avatarsKnown' \in Theirs /\ avatarsKept' \in Theirs
      BY <3>1, <3>2, <1>0, Shown
    <3> QED
      BY <3>2, <3>3, <2>4, <1>0
  <2>7. CASE e.kind = "vcard" /\ AV!OnVcardResult(e)
    <3>1. /\ e.of \in DOMAIN pendingVcards /\ UNCHANGED wanted
          /\ pendingVcards' = [i \in DOMAIN pendingVcards \ {e.of} |-> pendingVcards[i]]
          /\ IF e.id = AV!NoFace THEN UNCHANGED <<avatarsKnown, avatarsKept>> ELSE AV!Show(pendingVcards[e.of], e.id)
      BY <2>7, Zenon DEF AV!OnVcardResult, AV!faces
    <3>2. pendingVcards[e.of] \in Friends /\ e.id \in Of(pendingVcards[e.of])
      BY <3>1, <2>3, <2>7, <1>0 DEF AvatarsSaid
    <3>3. avatarsKnown' \in Theirs /\ avatarsKept' \in Theirs
      BY <3>1, <3>2, <1>0, Shown
    <3>4. DOMAIN pendingVcards' \subseteq DOMAIN pendingVcards
          /\ \A i \in DOMAIN pendingVcards' : pendingVcards'[i] = pendingVcards[i]
      BY <3>1
    <3>5. Asked \subseteq Asked' /\ AvatarsSaid \subseteq AvatarsSaid'
      BY <3>4, <2>1 DEF Asked, AvatarsSaid
    <3>6. wanted' \in Seq(Asked') /\ incoming' \in Seq(AvatarsSaid')
      BY <3>1, <3>5, <2>3, <1>0, SeqMonotonic
    <3> QED
      BY <3>3, <3>4, <3>6, <2>1, <1>0 DEF AvatarsInv, AV!peers
  <2>8. CASE e.kind = "error" /\ UNCHANGED <<wanted, pendingVcards, AV!faces>>
    BY <2>8, <2>4, <1>0 DEF AV!faces
  <2> QED
    BY <2>2, <2>5, <2>6, <2>7, <2>8
<1>5. CASE AV!NewSession \/ AV!Restart
  <2>1. /\ breaks < MaxBreaks /\ breaks' = breaks + 1 /\ wanted' = <<>> /\ incoming' = <<>>
        /\ pendingVcards' = <<>> /\ (avatarsKnown' = avatarsKnown \/ avatarsKnown' = avatarsKept)
        /\ UNCHANGED <<pep, photo, avatarsKept, shots, fetches>>
    BY <1>5, Zenon DEF AV!NewSession, AV!Restart, AV!peers, AV!faces
  <2>2. wanted' \in Seq(Asked') /\ incoming' \in Seq(AvatarsSaid') /\ DOMAIN pendingVcards' = {}
    BY <2>1, EmptySeq
  <2>3. breaks' \in 0..MaxBreaks
    BY <2>1, <1>0, AvatarsAssumption
  <2> QED
    BY <2>1, <2>2, <2>3, <1>0 DEF AvatarsInv
<1>6. CASE AV!ServerStores \/ \E c \in uploads : AV!SetAvatar(c)
  <2>1. UNCHANGED <<shots, fetches, breaks, AV!peers, AV!stream, pendingVcards, AV!faces>>
    BY <1>6, Zenon DEF AV!ServerStores, AV!SetAvatar, AV!Quietly
  <2> QED
    BY <2>1, <1>0, <1>c
<1>7. CASE \/ AV!AvatarFilePicked
           \/ \E dx \in {-5, 0, 6}, dy \in {-6, 5} : AV!AvatarCropPan(dx, dy)
           \/ \E v \in {0, 1, 3, 5, 6} : AV!AvatarCropZoom(v) \/ AV!AvatarCropRadius(v)
  <2>1. AV!Shot /\ UNCHANGED <<AV!peers, AV!stream, pendingVcards, AV!faces>>
    BY <1>7, Zenon DEF AV!AvatarFilePicked, AV!AvatarCropPan, AV!AvatarCropZoom,
       AV!AvatarCropRadius, AV!Apply
  <2> QED
    BY <2>1, <1>b, <1>c
<1> QED
  BY <1>1, <1>2, <1>3, <1>4, <1>5, <1>6, <1>7, Zenon DEF AV!Next

LEMMA AvatarsStutter == ASSUME AvatarsInv, UNCHANGED AV!avVars PROVE AvatarsInv'
  BY DEF AvatarsInv, Asked, AvatarsSaid, AV!avVars, AV!peers, AV!stream, AV!faces, AV!own

LEMMA AvatarsTyped == ASSUME AvatarsInv PROVE AV!TypeOK
<1>1. {pep, photo, avatarsKnown, avatarsKept} \subseteq AV!Faces
  BY AllFaces DEF AvatarsInv, Theirs
<1>2. \A i \in DOMAIN wanted : wanted[i].kind \in {"vcard", "data"} /\ wanted[i].of \in Friends
  <2>1. \A i \in DOMAIN wanted : wanted[i] \in Asked
    BY ElementOfSeq, LenProperties DEF AvatarsInv
  <2> QED
    BY <2>1 DEF Asked
<1>3. \A i \in DOMAIN pendingVcards : i \in 1..MaxFetches /\ pendingVcards[i] \in Friends
  BY AvatarsAssumption DEF AvatarsInv
<1> QED
  BY <1>1, <1>2, <1>3, Zenon DEF AvatarsInv, AV!TypeOK

LEMMA AvatarsTheirs == ASSUME AvatarsInv PROVE AV!FaceIsTheirs
  BY DEF AvatarsInv, Theirs, Of, AV!FaceIsTheirs

-----------------------------------------------------------------------------
(* Registration: the window is told once of each registration that was begun. *)

RegistrationWords == {"Connect", "Register", "Submit", "Disconnect"}

RegistrationTypes ==
  /\ registrationShown \in {"Idle", "Connecting", "Registering", "Error", "Chat"}
  /\ mode \in {"Idle", "Registration", "Session"} /\ registrationReplies \in 0..2
  /\ queue \in Seq(RegistrationWords) /\ \A t \in carried : t.cmd \in {"Connect", "Register"}
  /\ begun \in Nat /\ ended \in Nat /\ left \in Nat /\ says \in Nat /\ tries \in 0..MaxTries

RegistrationInv == RegistrationTypes /\ RE!RegistrationEnds

LEMMA RegistrationInit == ASSUME RE!Init PROVE RegistrationInv
<1>1. queue \in Seq(RegistrationWords)
  BY EmptySeq DEF RE!Init
<1>2. 0 \in 0..MaxTries
  BY RegistrationAssumption
<1> QED
  BY <1>1, <1>2 DEF RE!Init, RegistrationInv, RegistrationTypes, RE!RegistrationEnds

LEMMA RegistrationStep == ASSUME RegistrationInv, RE!Next PROVE RegistrationInv'
<1> USE RegistrationAssumption DEF RegistrationInv, RegistrationTypes, RE!RegistrationEnds, RE!window, RE!history
<1>1. ASSUME NEW c \in {"Connect", "Register"}, RE!Press(c) PROVE RegistrationInv'
  <2>1. \A t \in carried' : t.cmd \in {"Connect", "Register"}
    BY <1>1 DEF RE!Press
  <2> QED
    BY <1>1, <2>1 DEF RE!Press
<1>2. ASSUME NEW t \in carried, RE!Send(t) PROVE RegistrationInv'
  <2>1. queue' \in Seq(RegistrationWords)
    BY <1>2, AppendProperties DEF RE!Send, RegistrationWords
  <2>2. \A x \in carried' : x.cmd \in {"Connect", "Register"}
    <3>1. [t EXCEPT !.sent = TRUE].cmd = t.cmd
      OBVIOUS
    <3> QED
      BY <1>2, <3>1 DEF RE!Send
  <2> QED
    BY <1>2, <2>1, <2>2 DEF RE!Send
<1>3. ASSUME NEW t \in carried, RE!Sent(t) PROVE RegistrationInv'
  BY <1>3 DEF RE!Sent
<1>4. CASE RE!HandleEvent
  BY <1>4 DEF RE!HandleEvent
<1>5. CASE RE!SubmitRegistration
  BY <1>5, AppendProperties DEF RE!SubmitRegistration, RegistrationWords
<1>6. CASE RE!Logout
  BY <1>6, AppendProperties DEF RE!Logout, RegistrationWords
<1>7. ASSUME NEW c, RE!Take(c) PROVE queue' \in Seq(RegistrationWords)
  BY <1>7, HeadTailProperties DEF RE!Take
<1>8. CASE RE!Connect
  BY <1>7, <1>8 DEF RE!Connect
<1>9. CASE RE!Register
  <2>1. queue' \in Seq(RegistrationWords) /\ begun' = begun + 1 /\ mode = "Idle" /\ UNCHANGED <<registrationShown, carried, tries, says>>
    BY <1>7, <1>9 DEF RE!Register
  <2>2. \/ mode' = "Registration" /\ registrationReplies' = 1 /\ UNCHANGED <<ended, left>>
        \/ ended' = ended + 1 /\ UNCHANGED <<mode, registrationReplies, left>>
    BY <1>9 DEF RE!Register
  <2> QED
    BY <2>1, <2>2
<1>10. ASSUME queue # <<>>, queue' = Tail(queue) PROVE queue' \in Seq(RegistrationWords)
  BY <1>10, HeadTailProperties
<1>11. CASE RE!Ignore
  BY <1>10, <1>11 DEF RE!Ignore
<1>12. CASE RE!Submit
  <2>1. queue' \in Seq(RegistrationWords) /\ mode = "Registration"
        /\ UNCHANGED <<registrationShown, carried, tries, says>>
    BY <1>7, <1>12 DEF RE!Submit
  <2>2. \/ registrationReplies' \in 0..2 /\ UNCHANGED <<mode, begun, ended, left>>
        \/ mode' = "Idle" /\ registrationReplies' = 0 /\ ended' = ended + 1 /\ UNCHANGED <<begun, left>>
    BY <1>12 DEF RE!Submit, RE!End
  <2> QED
    BY <2>1, <2>2
<1>13. CASE RE!Disconnect
  BY <1>7, <1>13 DEF RE!Disconnect
<1>14. CASE RE!Other
  BY <1>10, <1>14 DEF RE!Other
<1>15. CASE RE!InSession
  BY <1>10, <1>15 DEF RE!InSession
<1>16. CASE RE!Form
  BY <1>16 DEF RE!Form
<1>17. CASE RE!Result
  BY <1>17 DEF RE!Result, RE!End
<1>18. CASE RE!StreamEnds
  BY <1>18 DEF RE!StreamEnds, RE!End
<1> QED
  BY <1>1, <1>2, <1>3, <1>4, <1>5, <1>6, <1>8, <1>9, <1>11, <1>12, <1>13, <1>14, <1>15, <1>16,
     <1>17, <1>18 DEF RE!Next

LEMMA RegistrationStutter == ASSUME RegistrationInv, UNCHANGED RE!regVars PROVE RegistrationInv'
  BY DEF RegistrationInv, RegistrationTypes, RE!RegistrationEnds, RE!regVars

LEMMA RegistrationTyped == ASSUME RegistrationInv PROVE RE!TypeOK
  BY ElementOfSeq DEF RegistrationInv, RegistrationTypes, RE!TypeOK, RegistrationWords

-----------------------------------------------------------------------------
(* Service discovery: the digest and the answer are made of the same identities *)
(* and features.                                                           *)

Ver == DI!ComputeVerHash(Identities, Features)
Self == [ver |-> Ver, identities |-> Identities, features |-> Features]
Info(p) == [kind |-> "info", to |-> p, identities |-> Identities, features |-> Features]
DiscoStanzas == {DI!Presence(DI!Absent), DI!Presence(Ver)} \cup {Info(p) : p \in Contacts}
                  \cup {DI!BuildTimeResponse(p) : p \in Contacts}
DiscoRequests == [from : Contacts, what : {"info", "time", "items"}]

DiscoInv ==
  /\ own = DI!Absent \/ own = Self
  /\ discoOutbox \in Seq(DiscoStanzas) /\ discoAsked \in Seq(DiscoRequests)
  /\ own = DI!Absent => discoOutbox = <<>>
  /\ clocks \subseteq Contacts
  /\ sends \in 0..MaxPresences /\ discoAsks \in 0..MaxRequests /\ discoStreams \in 0..MaxDiscoStreams

LEMMA SelfIsPresent == Self # DI!Absent
<1>1. "ver" \in DOMAIN Self
  BY DEF Self
<1>2. DOMAIN DI!Absent = {}
  BY DEF DI!Absent
<1> QED
  BY <1>1, <1>2

LEMMA DiscoInit == ASSUME DI!Init PROVE DiscoInv
<1>1. discoOutbox \in Seq(DiscoStanzas) /\ discoAsked \in Seq(DiscoRequests)
  BY EmptySeq DEF DI!Init
<1> QED
  BY <1>1, DiscoAssumption DEF DI!Init, DiscoInv

LEMMA DiscoStep == ASSUME DiscoInv, DI!Next PROVE DiscoInv'
<1> USE DiscoAssumption DEF DiscoInv
<1>1. CASE DI!Online
  <2>1. discoOutbox' \in Seq(DiscoStanzas)
    BY <1>1, AppendProperties DEF DI!Online, DiscoStanzas, Ver
  <2>2. own' = Self
    BY <1>1 DEF DI!Online, Self, Ver
  <2> QED
    BY <1>1, <2>1, <2>2, SelfIsPresent DEF DI!Online, DI!contacts
<1>2. CASE DI!SessionEnd
  BY <1>2, EmptySeq DEF DI!SessionEnd
<1>3. CASE DI!SetPresence
  <2>1. discoOutbox' \in Seq(DiscoStanzas)
    BY <1>3, AppendProperties DEF DI!SetPresence, DiscoStanzas
  <2> QED
    BY <1>3, <2>1 DEF DI!SetPresence, DI!contacts
<1>4. CASE DI!HandleGet
  <2>1. Head(discoAsked) \in DiscoRequests /\ discoAsked' \in Seq(DiscoRequests)
    BY <1>4, HeadTailProperties DEF DI!HandleGet
  <2>2. Head(discoAsked).from \in Contacts
    BY <2>1 DEF DiscoRequests
  <2>3. own = Self
    BY <1>4 DEF DI!HandleGet
  <2>4. /\ DI!BuildInfoResponse(Head(discoAsked).from) \in DiscoStanzas
        /\ DI!BuildTimeResponse(Head(discoAsked).from) \in DiscoStanzas
    BY <2>2, <2>3 DEF DI!BuildInfoResponse, Self, Info, DiscoStanzas
  <2>5. discoOutbox' \in Seq(DiscoStanzas)
    BY <1>4, <2>4, AppendProperties DEF DI!HandleGet
  <2> QED
    BY <1>4, <2>1, <2>3, <2>5 DEF DI!HandleGet, DI!contacts
<1>5. CASE DI!Receive
  <2>1. Head(discoOutbox) \in DiscoStanzas /\ discoOutbox' \in Seq(DiscoStanzas) /\ own # DI!Absent
    BY <1>5, HeadTailProperties DEF DI!Receive
  <2>2. clocks' \subseteq Contacts
    <3>1. CASE Head(discoOutbox).kind = "time"
      <4>1. PICK p \in Contacts : Head(discoOutbox) = DI!BuildTimeResponse(p)
        BY <2>1, <3>1 DEF DiscoStanzas, DI!Presence, Info
      <4>2. clocks' = clocks \cup {Head(discoOutbox).to}
        BY <1>5, <3>1 DEF DI!Receive, DI!Take
      <4> QED
        BY <4>1, <4>2 DEF DI!BuildTimeResponse
    <3>2. CASE Head(discoOutbox).kind # "time"
      <4>1. Head(discoOutbox).kind \in {"presence", "info"}
        BY <2>1, <3>2 DEF DiscoStanzas, DI!Presence, Info, DI!BuildTimeResponse
      <4> QED
        BY <1>5, <4>1 DEF DI!Receive, DI!Take
    <3> QED
      BY <3>1, <3>2
  <2> QED
    BY <1>5, <2>1, <2>2 DEF DI!Receive
<1>6. ASSUME NEW p \in Contacts, NEW w \in {"info", "time", "items"}, DI!Ask(p, w) PROVE DiscoInv'
  <2>1. discoAsked' \in Seq(DiscoRequests)
    BY <1>6, AppendProperties DEF DI!Ask, DiscoRequests
  <2> QED
    BY <1>6, <2>1 DEF DI!Ask, DI!contacts
<1> QED
  BY <1>1, <1>2, <1>3, <1>4, <1>5, <1>6 DEF DI!Next

LEMMA DiscoStutter == ASSUME DiscoInv, UNCHANGED DI!diVars PROVE DiscoInv'
  BY DEF DiscoInv, DI!diVars

LEMMA DiscoTyped == ASSUME DiscoInv PROVE DI!TypeOK
<1>1. own = DI!Absent \/ own.features = Features
  BY DEF DiscoInv, Self
<1>2. \A i \in DOMAIN discoOutbox : discoOutbox[i].kind \in {"presence", "info", "time"}
  <2>1. \A e \in DiscoStanzas : e.kind \in {"presence", "info", "time"}
    BY DEF DiscoStanzas, DI!Presence, Info, DI!BuildTimeResponse
  <2> QED
    BY <2>1, ElementOfSeq DEF DiscoInv
<1>3. \A i \in DOMAIN discoAsked : discoAsked[i].from \in Contacts
  <2>1. \A e \in DiscoRequests : e.from \in Contacts
    BY DEF DiscoRequests
  <2> QED
    BY <2>1, ElementOfSeq DEF DiscoInv
<1> QED
  BY <1>1, <1>2, <1>3 DEF DI!TypeOK, DiscoInv

LEMMA DiscoMatches == ASSUME DiscoInv PROVE DI!AnswersMatchDigest
<1> SUFFICES ASSUME NEW i \in DOMAIN discoOutbox, discoOutbox[i].kind = "info"
             PROVE  own # DI!Absent
                    /\ DI!Digest(discoOutbox[i].identities, discoOutbox[i].features) = DI!BuildCapsElement
  BY DEF DI!AnswersMatchDigest
<1>1. own # DI!Absent
  BY DEF DiscoInv
<1>2. discoOutbox[i] \in DiscoStanzas
  BY ElementOfSeq DEF DiscoInv
<1>3. PICK p \in Contacts : discoOutbox[i] = Info(p)
  BY <1>2 DEF DiscoStanzas, DI!Presence, Info, DI!BuildTimeResponse
<1>4. own = Self
  BY <1>1 DEF DiscoInv
<1> QED
  BY <1>1, <1>3, <1>4 DEF Info, Self, Ver, DI!Digest, DI!ComputeVerHash, DI!BuildCapsElement

-----------------------------------------------------------------------------
(* Dialling: the session connects where the choices of the last login lead. *)

\* Where a session that the configuration cfg asks for may be connected to.
Targets(cfg) == IF cfg.net.forceTls THEN DL!RunSession(cfg) ELSE DL!RunSessionPlain(cfg)

Lifecycles == [state : {"Stopped", "Starting", "Running"}, transport : {"TcpProxy", "WebSocket"},
               failures : Nat]

DialTypes ==
  /\ disk \in DL!Network /\ panel \in DL!Typed /\ proxy \in {None} \cup Lifecycles
  /\ dialLastCfg \in DL!Config \cup {None}

DialInv ==
  /\ DialTypes /\ dialChosen = dialLastCfg
  /\ broken => dialLastCfg \in DL!Config
  /\ session # None => dialLastCfg \in DL!Config /\ session \in Targets(dialLastCfg)

LEMMA DialInit == ASSUME DL!Init PROVE DialInv
  BY DEF DL!Init, DialInv, DialTypes, DL!Network, DL!Typed

LEMMA ConnectDials ==
  ASSUME NEW cfg \in DL!Config, DL!Connect(cfg), DialTypes
  PROVE  session' \in Targets(cfg) /\ proxy' \in {None} \cup Lifecycles /\ broken' = FALSE
<1>1. DL!New \in Lifecycles /\ DL!OnStarted(DL!Start(DL!New)) \in Lifecycles
  BY DEF DL!New, DL!OnStarted, DL!Start, Lifecycles
<1> QED
  BY <1>1 DEF DL!Connect, Targets

LEMMA DialStep == ASSUME DialInv, DL!Next PROVE DialInv'
<1>0. disk \in DL!Network /\ panel \in DL!Typed
  BY DEF DialInv, DialTypes
<1>1. CASE DL!ProxyTypeSelected
  <2>1. disk' \in DL!Network
    BY <1>0, <1>1 DEF DL!ProxyTypeSelected, DL!Network
  <2> QED
    BY <1>1, <2>1 DEF DialInv, DialTypes, DL!ProxyTypeSelected, DL!Edit
<1>2. CASE DL!ProxyHostChanged
  <2>1. panel' \in DL!Typed
    BY <1>0, <1>2 DEF DL!ProxyHostChanged, DL!Typed
  <2>2. \E v \in {None, "proxy"} : disk' = [disk EXCEPT !.host = v]
    BY <1>2 DEF DL!ProxyHostChanged, DL!Trimmed, DL!Blank
  <2>3. disk' \in DL!Network
    BY <1>0, <2>2 DEF DL!Network
  <2> QED
    BY <1>2, <2>1, <2>3 DEF DialInv, DialTypes, DL!ProxyHostChanged, DL!Edit
<1>3. CASE DL!ProxyPortChanged
  <2>1. panel' \in DL!Typed
    BY <1>0, <1>3 DEF DL!ProxyPortChanged, DL!Typed
  <2>2. \E v \in {None, 1080} : disk' = [disk EXCEPT !.port = v]
    <3>1. PICK t \in {"", "1080", "word"} :
            /\ panel' = [panel EXCEPT !.port = t]
            /\ disk' = [disk EXCEPT !.port = IF t = "1080" THEN 1080 ELSE None]
      BY <1>3 DEF DL!ProxyPortChanged
    <3>2. CASE t = "1080"
      BY <3>1, <3>2
    <3>3. CASE t # "1080"
      BY ZenonT(60), <3>1, <3>3
    <3> QED
      BY <3>2, <3>3
  <2>3. disk' \in DL!Network
    BY <1>0, <2>2 DEF DL!Network
  <2> QED
    BY <1>3, <2>1, <2>3 DEF DialInv, DialTypes, DL!ProxyPortChanged, DL!Edit
<1>4. CASE DL!ManualSrvChanged
  <2>1. panel' \in DL!Typed
    BY <1>0, <1>4 DEF DL!ManualSrvChanged, DL!Typed
  <2>2. \E v \in {None, "srv"} : disk' = [disk EXCEPT !.srv = v]
    BY <1>4 DEF DL!ManualSrvChanged, DL!Trimmed, DL!Blank
  <2>3. disk' \in DL!Network
    BY <1>0, <2>2 DEF DL!Network
  <2> QED
    BY <1>4, <2>1, <2>3 DEF DialInv, DialTypes, DL!ManualSrvChanged, DL!Edit
<1>5. CASE DL!ForceTlsToggled
  <2>1. disk' = [disk EXCEPT !.forceTls = ~disk.forceTls]
    BY <1>5 DEF DL!ForceTlsToggled
  <2>2. [disk EXCEPT !.forceTls = ~disk.forceTls] \in DL!Network
    <3> DEFINE b == ~disk.forceTls
    <3>1. b \in BOOLEAN
      BY Zenon
    <3> HIDE DEF b
    <3>2. [disk EXCEPT !.forceTls = b] \in DL!Network
      BY <1>0, <3>1 DEF DL!Network
    <3> QED
      BY <3>2 DEF b
  <2> QED
    BY <1>5, <2>1, <2>2 DEF DialInv, DialTypes, DL!ForceTlsToggled, DL!Edit
<1>6. CASE DL!Login
  <2>1. PICK s \in DL!Servers :
          /\ DL!Connect([net |-> disk, server |-> s])
          /\ dialLastCfg' = [net |-> disk, server |-> s] /\ dialChosen' = [net |-> disk, server |-> s]
    BY <1>6 DEF DL!Login
  <2>2. [net |-> disk, server |-> s] \in DL!Config
    BY <1>0 DEF DL!Config
  <2> QED
    BY <1>6, <2>1, <2>2, ConnectDials DEF DialInv, DialTypes, DL!Login, DL!shown
<1>7. CASE DL!Fail
  BY <1>7 DEF DialInv, DialTypes, DL!Fail, DL!shown
<1>8. CASE DL!Reconnecting
  BY <1>8, ConnectDials DEF DialInv, DialTypes, DL!Reconnecting, DL!shown
<1> QED
  BY <1>1, <1>2, <1>3, <1>4, <1>5, <1>6, <1>7, <1>8 DEF DL!Next

LEMMA DialStutter == ASSUME DialInv, UNCHANGED DL!vars PROVE DialInv'
  BY DEF DialInv, DialTypes, DL!vars

LEMMA DialTyped == ASSUME DialInv PROVE DL!TypeOK
  BY DEF DialInv, DialTypes, DL!TypeOK, Lifecycles

LEMMA DialTold == ASSUME DialInv PROVE DL!DialsAsTold
<1> SUFFICES ASSUME session # None PROVE DL!DialsAsTold!2
  BY DEF DL!DialsAsTold
<1>1. dialChosen \in DL!Config /\ session \in Targets(dialChosen)
  BY DEF DialInv
<1>2. dialChosen.server \in DL!Servers /\ dialChosen.net \in DL!Network
  BY <1>1 DEF DL!Config
<1>3. dialChosen.net.srv \in {None, "srv"}
  BY <1>2 DEF DL!Network
<1>4. ASSUME ~DL!Blank(dialChosen.server)
      PROVE  session = DL!ParseHostPort(dialChosen.server) /\ session[1] = "host"
  BY <1>1, <1>4 DEF Targets, DL!RunSession, DL!RunSessionPlain, DL!ParseHostPort
<1>5. ASSUME DL!Blank(dialChosen.server), ~dialChosen.net.forceTls
      PROVE  session[1] = "localhost"
  BY <1>1, <1>5 DEF Targets, DL!RunSessionPlain
<1>6. ASSUME DL!Blank(dialChosen.server), dialChosen.net.forceTls
      PROVE  session[1] = "discovered" \/ (session[1] = "srv" /\ dialChosen.net.srv = "srv")
  <2>1. session \in DL!RunSession(dialChosen)
    BY <1>1, <1>6 DEF Targets
  <2>2. CASE dialChosen.net.srv = None
    BY <1>6, <2>1, <2>2 DEF DL!RunSession, DL!Standard
  <2>3. CASE dialChosen.net.srv # None
    BY <1>3, <1>6, <2>1, <2>3 DEF DL!RunSession, DL!Standard, DL!LookupSrv
  <2> QED
    BY <2>2, <2>3
<1> QED
  BY <1>4, <1>5, <1>6

-----------------------------------------------------------------------------
(* What is kept at the server: the device is registered once, and the answer to *)
(* an account request finds the request that it was asked by.              *)

Push == [kind : {"enable", "disable"}, device : Nat] \cup [kind : {"disable all"}]
Requests == [kind : {"change", "delete"}, id : Nat]
Private == [kind : {"publish"}, room : Halls, users : SUBSET Trolls] \cup [kind : {"fetch"}, room : Halls]
             \cup [kind : {"save"}, convs : SUBSET Halls] \cup [kind : {"load"}]
Iqs == Push \cup Requests \cup Private
VaultWords == [kind : {"account"}, id : Nat, ok : BOOLEAN]
Lists == [kind : {"fetched"}, room : Halls, users : (SUBSET Trolls) \cup {VA!Absent}]
           \cup [kind : {"loaded"}, convs : SUBSET Halls]

\* The ids of the requests about the account, and of the words about them.
AskedFor == [q \in Requests |-> q.id]
Erasing == [q \in {r \in Requests : r.kind = "delete"} |-> q.id]
Changing == [q \in {r \in Requests : r.kind = "change"} |-> q.id]
Heard == [a \in VaultWords |-> a.id]
Passed == [a \in {w \in VaultWords : w.ok} |-> a.id]

\* What the connection sends of push, which is not tried again.
Refusable == {"enable", "disable all"}

VaultTypes ==
  /\ up \in BOOLEAN /\ toggled \in BOOLEAN /\ ignored \in [Halls -> SUBSET Trolls]
  /\ denied \subseteq Refusable
  /\ requests \in [change : SUBSET Nat, delete : SUBSET Nat]
  /\ vaultOutbox \in Seq(Iqs) /\ vaultAnswers \in Seq(VaultWords \cup Lists)
  /\ node \in [Halls -> (SUBSET Trolls) \cup {VA!Absent}] /\ stored \subseteq Halls
  /\ registered \subseteq Nat /\ account \in [changes : Nat, there : BOOLEAN]
  /\ vaultShown \in [changed : Nat, deleted : BOOLEAN, lists : [Halls -> SUBSET Trolls],
                     convs : SUBSET Halls]
  /\ vaultOrders \in 0..MaxOrders /\ vaultSessions \in 0..MaxVaultSessions

\* From the k-th on nothing is about push.
Quiet(s, k) == \A i \in DOMAIN s : i > k => s[i] \notin Push

\* No registration but this session's, if there is one at all.
Cleaned == "disable all" \notin denied => registered \subseteq IF WithPush THEN {vaultSessions} ELSE {}

\* What the connection sends about push is still to be served, in its order, or
\* was answered.
Pushing ==
  up /\ ~toggled =>
    \/ /\ Len(vaultOutbox) > 0 /\ vaultOutbox[1] = VA!BuildDisableAllIq
       /\ IF WithPush
            THEN Len(vaultOutbox) > 1 /\ vaultOutbox[2] = VA!BuildEnableIq(vaultSessions) /\ Quiet(vaultOutbox, 2)
            ELSE Quiet(vaultOutbox, 1)
    \/ /\ WithPush /\ Len(vaultOutbox) > 0 /\ vaultOutbox[1] = VA!BuildEnableIq(vaultSessions) /\ Cleaned
       /\ Quiet(vaultOutbox, 1)
    \/ /\ Quiet(vaultOutbox, 0) /\ Cleaned
       /\ WithPush /\ "enable" \notin denied => vaultSessions \in registered

\* A number stands for one request, at one place.
VaultNumbered ==
  /\ Unlike(AskedFor, vaultOutbox) /\ Unlike(Heard, vaultAnswers)
  /\ Keys(AskedFor, vaultOutbox) \cap Keys(Heard, vaultAnswers) = {}
  /\ Keys(Changing, vaultOutbox) \cap requests.delete = {}
  /\ Keys(Erasing, vaultOutbox) \cap requests.change = {}
  /\ requests.change \cap requests.delete = {}
  /\ \A k \in Keys(AskedFor, vaultOutbox) \cup Keys(Heard, vaultAnswers) \cup requests.change
              \cup requests.delete : k < vaultOrders

\* Changes that the client is still to hear of.
VaultNews == Keys(Passed, vaultAnswers) \cap requests.change

\* The server has done what was told, and what will be.
Done ==
  /\ vaultShown.changed + Cardinality(VaultNews) <= account.changes
  /\ vaultShown.deleted \/ Keys(Passed, vaultAnswers) \cap requests.delete # {} => ~account.there

VaultInv == VaultTypes /\ Pushing /\ VaultNumbered /\ Done

LEMMA IqKinds ==
  ASSUME NEW q \in Iqs
  PROVE  /\ q.kind \in {"enable", "disable", "disable all", "change", "delete", "publish", "fetch",
                        "save", "load"}
         /\ q \in Push <=> q.kind \in {"enable", "disable", "disable all"}
         /\ q \in Requests <=> q.kind \in {"change", "delete"}
         /\ q.kind \in {"enable", "disable"} => q.device \in Nat
         /\ q.kind = "publish" => q.room \in Halls /\ q.users \in SUBSET Trolls
         /\ q.kind = "fetch" => q.room \in Halls
         /\ q.kind = "save" => q.convs \in SUBSET Halls
         /\ q.kind \in {"change", "delete"} => q.id \in Nat
<1>1. CASE q \in Push
  <2>1. (q.kind \in {"enable", "disable"} /\ q.device \in Nat) \/ q.kind = "disable all"
    BY <1>1 DEF Push
  <2>2. q \notin Requests
    BY <2>1 DEF Requests
  <2> QED
    BY <1>1, <2>1, <2>2
<1>2. CASE q \in Requests
  <2>1. q.kind \in {"change", "delete"} /\ q.id \in Nat
    BY <1>2 DEF Requests
  <2>2. q \notin Push
    BY <2>1 DEF Push
  <2> QED
    BY <1>2, <2>1, <2>2
<1>3. CASE q \in Private
  <2>1. \/ q.kind = "publish" /\ q.room \in Halls /\ q.users \in SUBSET Trolls
        \/ q.kind = "fetch" /\ q.room \in Halls
        \/ q.kind = "save" /\ q.convs \in SUBSET Halls
        \/ q.kind = "load"
    BY <1>3 DEF Private
  <2>2. q \notin Push /\ q \notin Requests
    BY <2>1 DEF Push, Requests
  <2> QED
    BY <2>1, <2>2
<1> QED
  BY <1>1, <1>2, <1>3 DEF Iqs

LEMMA QuietAppend ==
  ASSUME NEW s \in Seq(Iqs), NEW e \in Iqs, e \notin Push, NEW k \in Nat, Quiet(s, k)
  PROVE  Quiet(Append(s, e), k) /\ Len(Append(s, e)) = Len(s) + 1
         /\ \A i \in 1..Len(s) : Append(s, e)[i] = s[i]
<1>1. Len(Append(s, e)) = Len(s) + 1 /\ Append(s, e)[Len(s) + 1] = e
      /\ \A i \in 1..Len(s) : Append(s, e)[i] = s[i]
  BY AppendProperties
<1>2. Len(s) \in Nat /\ DOMAIN s = 1..Len(s) /\ DOMAIN Append(s, e) = 1..(Len(s) + 1)
  BY <1>1, LenProperties, AppendProperties
<1> QED
  BY <1>1, <1>2 DEF Quiet

LEMMA QuietTail ==
  ASSUME NEW s \in Seq(Iqs), s # <<>>
  PROVE  /\ Len(Tail(s)) = Len(s) - 1 /\ Len(s) \in Nat /\ Head(s) = s[1]
         /\ Len(s) > 1 => Tail(s)[1] = s[2]
         /\ Quiet(s, 0) => Quiet(Tail(s), 0) /\ Head(s) \notin Push
         /\ Quiet(s, 1) => Quiet(Tail(s), 0)
         /\ Quiet(s, 2) => Quiet(Tail(s), 1)
<1>1. Len(Tail(s)) = Len(s) - 1 /\ Head(s) = s[1] /\ Tail(s) \in Seq(Iqs)
      /\ \A i \in 1..Len(Tail(s)) : Tail(s)[i] = s[i + 1]
  BY HeadTailProperties
<1>2. Len(s) \in Nat /\ Len(s) # 0 /\ DOMAIN s = 1..Len(s) /\ DOMAIN Tail(s) = 1..(Len(s) - 1)
  BY <1>1, LenProperties, EmptySeq
<1>3. 1 \in DOMAIN s /\ \A i \in DOMAIN Tail(s) : i \in Nat /\ i + 1 \in DOMAIN s /\ Tail(s)[i] = s[i + 1]
  BY <1>1, <1>2
<1> QED
  BY <1>1, <1>2, <1>3 DEF Quiet
LEMMA AnswerKinds ==
  ASSUME NEW a \in VaultWords \cup Lists
  PROVE  /\ a.kind \in {"account", "fetched", "loaded"}
         /\ a \in VaultWords <=> a.kind = "account"
         /\ a.kind = "account" => a.id \in Nat /\ a.ok \in BOOLEAN
         /\ a.kind = "fetched" => a.room \in Halls /\ a.users \in (SUBSET Trolls) \cup {VA!Absent}
         /\ a.kind = "loaded" => a.convs \in SUBSET Halls
<1>1. CASE a \in VaultWords
  BY <1>1 DEF VaultWords
<1>2. CASE a \in Lists
  <2>1. \/ a.kind = "fetched" /\ a.room \in Halls /\ a.users \in (SUBSET Trolls) \cup {VA!Absent}
        \/ a.kind = "loaded" /\ a.convs \in SUBSET Halls
    BY <1>2 DEF Lists
  <2>2. a \notin VaultWords
    BY <2>1 DEF VaultWords
  <2> QED
    BY <2>1, <2>2
<1> QED
  BY <1>1, <1>2

LEMMA Names ==
  /\ DOMAIN AskedFor = Requests /\ DOMAIN Heard = VaultWords
  /\ \A q : q \in DOMAIN Erasing <=> q \in Requests /\ q.kind = "delete"
  /\ \A q : q \in DOMAIN Changing <=> q \in Requests /\ q.kind = "change"
  /\ \A a : a \in DOMAIN Passed <=> a \in VaultWords /\ a.ok
  /\ \A q \in DOMAIN AskedFor : AskedFor[q] = q.id
  /\ \A q \in DOMAIN Erasing : Erasing[q] = q.id
  /\ \A q \in DOMAIN Changing : Changing[q] = q.id
  /\ \A a \in DOMAIN Heard : Heard[a] = a.id
  /\ \A a \in DOMAIN Passed : Passed[a] = a.id
  BY Zenon DEF AskedFor, Erasing, Changing, Heard, Passed

LEMMA Narrower ==
  ASSUME NEW s
  PROVE  /\ Keys(Erasing, s) \subseteq Keys(AskedFor, s)
         /\ Keys(Changing, s) \subseteq Keys(AskedFor, s)
         /\ Keys(Passed, s) \subseteq Keys(Heard, s)
<1>1. ASSUME NEW k \in Keys(Erasing, s) PROVE k \in Keys(AskedFor, s)
  <2>1. PICK i \in DOMAIN s : s[i] \in DOMAIN Erasing /\ k = Erasing[s[i]]
    BY KeysMember
  <2>2. s[i] \in DOMAIN AskedFor /\ k = AskedFor[s[i]]
    BY <2>1, Names, Zenon
  <2> QED
    BY <2>2, KeysHas, Zenon
<1>2. ASSUME NEW k \in Keys(Changing, s) PROVE k \in Keys(AskedFor, s)
  <2>1. PICK i \in DOMAIN s : s[i] \in DOMAIN Changing /\ k = Changing[s[i]]
    BY KeysMember
  <2>2. s[i] \in DOMAIN AskedFor /\ k = AskedFor[s[i]]
    BY <2>1, Names, Zenon
  <2> QED
    BY <2>2, KeysHas, Zenon
<1>3. ASSUME NEW k \in Keys(Passed, s) PROVE k \in Keys(Heard, s)
  <2>1. PICK i \in DOMAIN s : s[i] \in DOMAIN Passed /\ k = Passed[s[i]]
    BY KeysMember
  <2>2. s[i] \in DOMAIN Heard /\ k = Heard[s[i]]
    BY <2>1, Names, Zenon
  <2> QED
    BY <2>2, KeysHas, Zenon
<1> QED
  BY <1>1, <1>2, <1>3, Zenon

LEMMA Nameless ==
  ASSUME NEW f, NEW s, \A i \in DOMAIN s : s[i] \notin DOMAIN f
  PROVE  Keys(f, s) = {} /\ Unlike(f, s)
<1>1. \A k : k \notin Keys(f, s)
  BY Zenon DEF Keys
<1> QED
  BY <1>1, Zenon DEF Unlike

LEMMA NewsFinite ==
  ASSUME VaultTypes, VaultNumbered PROVE IsFiniteSet(VaultNews) /\ Cardinality(VaultNews) \in Nat
<1>1. requests.change \subseteq Nat /\ vaultOrders \in Nat
  BY VaultAssumption DEF VaultTypes
<1>2. VaultNews \subseteq 0..vaultOrders
  BY <1>1 DEF VaultNews, VaultNumbered
<1>3. 0 \in Int /\ vaultOrders \in Int
  BY <1>1
<1> QED
  BY <1>2, <1>3, FS_Interval, FS_Subset, FS_CardinalityType

LEMMA VaultInit == ASSUME VA!Init PROVE VaultInv
<1>1. vaultOutbox = <<>> /\ vaultAnswers = <<>> /\ requests = [change |-> {}, delete |-> {}] /\ up = FALSE
      /\ toggled = FALSE /\ account = [changes |-> 0, there |-> TRUE] /\ vaultOrders = 0 /\ vaultSessions = 0
      /\ vaultShown = [changed |-> 0, deleted |-> FALSE, lists |-> [r \in Halls |-> {}], convs |-> {}]
      /\ ignored = [r \in Halls |-> {}] /\ node = [r \in Halls |-> VA!Absent] /\ stored = {}
      /\ registered = {} /\ denied = {}
  BY Zenon DEF VA!Init
<1>2. VaultTypes
  <2>1. vaultOutbox \in Seq(Iqs) /\ vaultAnswers \in Seq(VaultWords \cup Lists)
    BY <1>1, EmptySeq
  <2>2. node \in [Halls -> (SUBSET Trolls) \cup {VA!Absent}]
    BY <1>1
  <2>3. vaultShown \in [changed : Nat, deleted : BOOLEAN, lists : [Halls -> SUBSET Trolls],
                        convs : SUBSET Halls]
    <3> DEFINE L == [r \in Halls |-> {}]
    <3>1. L \in [Halls -> SUBSET Trolls] /\ {} \in SUBSET Halls
      OBVIOUS
    <3>2. vaultShown = [changed |-> 0, deleted |-> FALSE, lists |-> L, convs |-> {}]
      BY <1>1, Zenon
    <3> HIDE DEF L
    <3> QED
      BY <3>1, <3>2
  <2>4. requests \in [change : SUBSET Nat, delete : SUBSET Nat]
        /\ account \in [changes : Nat, there : BOOLEAN]
    BY <1>1
  <2>5. ignored \in [Halls -> SUBSET Trolls] /\ stored \subseteq Halls /\ registered \subseteq Nat
        /\ denied \subseteq Refusable
    BY <1>1
  <2>6. up \in BOOLEAN /\ toggled \in BOOLEAN /\ vaultOrders \in 0..MaxOrders /\ vaultSessions \in 0..MaxVaultSessions
    <3>1. up = FALSE /\ toggled = FALSE /\ vaultOrders = 0 /\ vaultSessions = 0
      BY Zenon DEF VA!Init
    <3>2. up \in BOOLEAN /\ toggled \in BOOLEAN
      BY <3>1, Zenon
    <3>3. vaultOrders \in 0..MaxOrders /\ vaultSessions \in 0..MaxVaultSessions
      BY <3>1, VaultAssumption
    <3> QED
      BY <3>2, <3>3, Zenon
  <2> QED
    BY <2>1, <2>2, <2>3, <2>4, <2>5, <2>6, Zenon DEF VaultTypes
<1>3. Keys(AskedFor, vaultOutbox) = {} /\ Unlike(AskedFor, vaultOutbox) /\ Keys(Heard, vaultAnswers) = {}
      /\ Unlike(Heard, vaultAnswers) /\ Keys(Changing, vaultOutbox) = {} /\ Keys(Erasing, vaultOutbox) = {}
      /\ Keys(Passed, vaultAnswers) = {}
  BY <1>1, KeysEmpty, Zenon
<1>4. requests.change = {} /\ requests.delete = {}
  BY <1>1
<1>5. VaultNumbered
  BY <1>3, <1>4, Zenon DEF VaultNumbered
<1>6. Cardinality(VaultNews) = 0
  BY <1>4, FS_EmptySet DEF VaultNews
<1>7. vaultShown.changed = 0 /\ vaultShown.deleted = FALSE /\ account.changes = 0
  BY <1>1
<1>8. Done
  BY <1>3, <1>6, <1>7 DEF Done
<1> QED
  BY <1>1, <1>2, <1>5, <1>8 DEF VaultInv, Pushing

LEMMA Numbers == Keys(AskedFor, vaultOutbox) \subseteq Nat /\ Keys(Heard, vaultAnswers) \subseteq Nat
<1>1. ASSUME NEW k \in Keys(AskedFor, vaultOutbox) PROVE k \in Nat
  <2>1. PICK i \in DOMAIN vaultOutbox : vaultOutbox[i] \in DOMAIN AskedFor /\ k = AskedFor[vaultOutbox[i]]
    BY KeysMember
  <2>2. vaultOutbox[i] \in Requests /\ k = vaultOutbox[i].id
    BY <2>1, Names, Zenon
  <2> QED
    BY <2>2 DEF Requests
<1>2. ASSUME NEW k \in Keys(Heard, vaultAnswers) PROVE k \in Nat
  <2>1. PICK i \in DOMAIN vaultAnswers : vaultAnswers[i] \in DOMAIN Heard /\ k = Heard[vaultAnswers[i]]
    BY KeysMember
  <2>2. vaultAnswers[i] \in VaultWords /\ k = vaultAnswers[i].id
    BY <2>1, Names, Zenon
  <2> QED
    BY <2>2 DEF VaultWords
<1> QED
  BY <1>1, <1>2, Zenon

\* A command that sends something that is not about the account.
LEMMA Ordered ==
  ASSUME VaultTypes, VaultNumbered, NEW e \in Iqs, e \notin Requests, vaultOutbox' = Append(vaultOutbox, e),
         vaultOrders' = vaultOrders + 1, UNCHANGED <<requests, vaultAnswers>>
  PROVE  VaultNumbered'
<1>0. vaultOutbox \in Seq(Iqs) /\ vaultOrders \in Nat /\ requests.change \subseteq Nat
      /\ requests.delete \subseteq Nat
  BY VaultAssumption DEF VaultTypes
<1>1. e \notin DOMAIN AskedFor /\ e \notin DOMAIN Erasing /\ e \notin DOMAIN Changing
  BY Names, Zenon
<1>2. Keys(AskedFor, vaultOutbox') = Keys(AskedFor, vaultOutbox) /\ Unlike(AskedFor, vaultOutbox')
  BY <1>0, <1>1, KeysAppend DEF VaultNumbered
<1>3. Keys(Erasing, vaultOutbox') = Keys(Erasing, vaultOutbox)
  BY <1>0, <1>1, KeysAppend
<1>4. Keys(Changing, vaultOutbox') = Keys(Changing, vaultOutbox)
  BY <1>0, <1>1, KeysAppend
<1>5. \A k \in Keys(Heard, vaultAnswers) : k < vaultOrders
  BY DEF VaultNumbered
<1>7. \A k \in Keys(AskedFor, vaultOutbox) \cup Keys(Heard, vaultAnswers) \cup requests.change
             \cup requests.delete : k \in Nat /\ k < vaultOrders
  BY <1>0, Numbers DEF VaultNumbered
<1>8. \A k \in Keys(AskedFor, vaultOutbox') \cup Keys(Heard, vaultAnswers') \cup requests'.change
             \cup requests'.delete : k < vaultOrders'
  BY <1>0, <1>2, <1>7
<1> QED
  BY <1>2, <1>3, <1>4, <1>8, Zenon DEF VaultNumbered

\* The same of a change and of a deletion, whose number is a new one.
LEMMA Requested ==
  ASSUME VaultTypes, VaultNumbered, NEW e \in Requests, e.id = vaultOrders, vaultOutbox' = Append(vaultOutbox, e),
         vaultOrders' = vaultOrders + 1, UNCHANGED vaultAnswers,
         \/ e.kind = "change" /\ requests' = [requests EXCEPT !.change = @ \cup {vaultOrders}]
         \/ e.kind = "delete" /\ requests' = [requests EXCEPT !.delete = @ \cup {vaultOrders}]
  PROVE  VaultNumbered' /\ VaultNews' = VaultNews
         /\ Keys(Passed, vaultAnswers') \cap requests'.delete = Keys(Passed, vaultAnswers) \cap requests.delete
<1>0. vaultOutbox \in Seq(Iqs) /\ vaultOrders \in Nat /\ requests.change \subseteq Nat
      /\ requests.delete \subseteq Nat /\ e \in Iqs
  BY VaultAssumption DEF VaultTypes, Iqs
<1>1. \A k \in Keys(AskedFor, vaultOutbox) \cup Keys(Heard, vaultAnswers) \cup requests.change
             \cup requests.delete : k \in Nat /\ k < vaultOrders
  BY <1>0, Numbers DEF VaultNumbered
<1>2. vaultOrders \notin Keys(AskedFor, vaultOutbox) /\ vaultOrders \notin Keys(Heard, vaultAnswers)
      /\ vaultOrders \notin requests.change /\ vaultOrders \notin requests.delete
      /\ vaultOrders \notin Keys(Erasing, vaultOutbox) /\ vaultOrders \notin Keys(Changing, vaultOutbox)
      /\ vaultOrders \notin Keys(Passed, vaultAnswers)
  <2>1. vaultOrders \notin Keys(AskedFor, vaultOutbox) \cup Keys(Heard, vaultAnswers) \cup requests.change
             \cup requests.delete
    BY <1>0, <1>1
  <2> QED
    BY <2>1, Narrower, Zenon
<1>3. Keys(AskedFor, vaultOutbox') = Keys(AskedFor, vaultOutbox) \cup {vaultOrders} /\ Unlike(AskedFor, vaultOutbox')
  <2>1. e \in DOMAIN AskedFor /\ AskedFor[e] = vaultOrders
    BY Names, Zenon
  <2> QED
    BY <1>0, <1>2, <2>1, KeysAppend DEF VaultNumbered
<1>4. \/ /\ requests'.change = requests.change \cup {vaultOrders} /\ requests'.delete = requests.delete
         /\ Keys(Changing, vaultOutbox') = Keys(Changing, vaultOutbox) \cup {vaultOrders}
         /\ Keys(Erasing, vaultOutbox') = Keys(Erasing, vaultOutbox)
      \/ /\ requests'.delete = requests.delete \cup {vaultOrders} /\ requests'.change = requests.change
         /\ Keys(Erasing, vaultOutbox') = Keys(Erasing, vaultOutbox) \cup {vaultOrders}
         /\ Keys(Changing, vaultOutbox') = Keys(Changing, vaultOutbox)
  <2>0. requests \in [change : SUBSET Nat, delete : SUBSET Nat]
    BY DEF VaultTypes
  <2>1. CASE e.kind = "change" /\ requests' = [requests EXCEPT !.change = @ \cup {vaultOrders}]
    <3>1. e \in DOMAIN Changing /\ Changing[e] = vaultOrders /\ e \notin DOMAIN Erasing
      BY <2>1, Names
    <3>2. requests'.change = requests.change \cup {vaultOrders} /\ requests'.delete = requests.delete
      BY <2>0, <2>1
    <3>3. Keys(Changing, vaultOutbox') = Keys(Changing, vaultOutbox) \cup {vaultOrders}
      BY <1>0, <3>1, KeysAppend
    <3>4. Keys(Erasing, vaultOutbox') = Keys(Erasing, vaultOutbox)
      BY <1>0, <3>1, KeysAppend
    <3> QED
      BY <3>2, <3>3, <3>4
  <2>2. CASE e.kind = "delete" /\ requests' = [requests EXCEPT !.delete = @ \cup {vaultOrders}]
    <3>1. e \in DOMAIN Erasing /\ Erasing[e] = vaultOrders /\ e \notin DOMAIN Changing
      BY <2>2, Names
    <3>2. requests'.delete = requests.delete \cup {vaultOrders} /\ requests'.change = requests.change
      BY <2>0, <2>2
    <3>3. Keys(Erasing, vaultOutbox') = Keys(Erasing, vaultOutbox) \cup {vaultOrders}
      BY <1>0, <3>1, KeysAppend
    <3>4. Keys(Changing, vaultOutbox') = Keys(Changing, vaultOutbox)
      BY <1>0, <3>1, KeysAppend
    <3> QED
      BY <3>2, <3>3, <3>4
  <2> QED
    BY <2>1, <2>2
<1>5. \A k \in Keys(AskedFor, vaultOutbox') \cup Keys(Heard, vaultAnswers') \cup requests'.change
             \cup requests'.delete : k < vaultOrders'
  <2>1. Keys(AskedFor, vaultOutbox') \cup Keys(Heard, vaultAnswers') \cup requests'.change \cup requests'.delete
          \subseteq (Keys(AskedFor, vaultOutbox) \cup Keys(Heard, vaultAnswers) \cup requests.change
                       \cup requests.delete) \cup {vaultOrders}
    BY <1>3, <1>4
  <2> QED
    BY <1>0, <1>1, <2>1
<1>6. Keys(AskedFor, vaultOutbox') \cap Keys(Heard, vaultAnswers') = {}
  BY <1>2, <1>3 DEF VaultNumbered
<1>7. /\ Keys(Changing, vaultOutbox') \cap requests'.delete = {}
      /\ Keys(Erasing, vaultOutbox') \cap requests'.change = {}
      /\ requests'.change \cap requests'.delete = {}
  BY <1>2, <1>4 DEF VaultNumbered
<1>8. VaultNumbered'
  BY <1>3, <1>5, <1>6, <1>7, Zenon DEF VaultNumbered
<1>9. VaultNews' = VaultNews
      /\ Keys(Passed, vaultAnswers') \cap requests'.delete = Keys(Passed, vaultAnswers) \cap requests.delete
  BY <1>2, <1>4 DEF VaultNews
<1> QED
  BY <1>8, <1>9
\* A command that sends something that the user did not switch push by.
LEMMA PushingKept ==
  ASSUME VaultTypes, Pushing, NEW e \in Iqs, e \notin Push, vaultOutbox' = Append(vaultOutbox, e),
         UNCHANGED <<up, toggled, registered, denied, vaultSessions>>
  PROVE  Pushing'
<1>1. vaultOutbox \in Seq(Iqs) /\ Len(vaultOutbox) \in Nat
  BY LenProperties DEF VaultTypes
<1>2. /\ Quiet(vaultOutbox, 0) => Quiet(vaultOutbox', 0)
      /\ Quiet(vaultOutbox, 1) => Quiet(vaultOutbox', 1)
      /\ Quiet(vaultOutbox, 2) => Quiet(vaultOutbox', 2)
  BY <1>1, QuietAppend
<1>3. Len(vaultOutbox') = Len(vaultOutbox) + 1 /\ \A i \in 1..Len(vaultOutbox) : vaultOutbox'[i] = vaultOutbox[i]
  BY <1>1, AppendProperties
<1>4. /\ Len(vaultOutbox) > 0 => Len(vaultOutbox') > 0 /\ vaultOutbox'[1] = vaultOutbox[1]
      /\ Len(vaultOutbox) > 1 => Len(vaultOutbox') > 1 /\ vaultOutbox'[2] = vaultOutbox[2]
  BY <1>1, <1>3
<1> QED
  BY <1>2, <1>4, Zenon DEF Pushing, Cleaned

LEMMA VaultStep == ASSUME VaultInv, VA!Next PROVE VaultInv'
<1>0. VaultTypes /\ Pushing /\ VaultNumbered /\ Done
  BY DEF VaultInv
<1>t. /\ vaultOutbox \in Seq(Iqs) /\ vaultAnswers \in Seq(VaultWords \cup Lists) /\ vaultOrders \in Nat /\ vaultSessions \in Nat
      /\ requests \in [change : SUBSET Nat, delete : SUBSET Nat]
      /\ ignored \in [Halls -> SUBSET Trolls] /\ registered \subseteq Nat
  BY <1>0, VaultAssumption DEF VaultTypes
<1>o. ASSUME VA!Order
      PROVE  up /\ vaultOrders' = vaultOrders + 1 /\ vaultOrders' \in 0..MaxOrders
             /\ UNCHANGED <<up, vaultAnswers, node, stored, registered, account, vaultShown, denied, vaultSessions>>
  <2>1. up /\ vaultOrders < MaxOrders /\ vaultOrders' = vaultOrders + 1
        /\ UNCHANGED <<up, vaultAnswers, node, stored, registered, account, vaultShown, denied, vaultSessions>>
    BY <1>o, Zenon DEF VA!Order, VA!serverVars
  <2> QED
    BY <2>1, <1>t, VaultAssumption
\* A command that sends what is not about the account.
<1>p. ASSUME VA!Order, NEW e \in Iqs, e \notin Requests, vaultOutbox' = Append(vaultOutbox, e),
             ignored' \in [Halls -> SUBSET Trolls], UNCHANGED requests,
             toggled' = TRUE \/ (e \notin Push /\ toggled' = toggled)
      PROVE  VaultInv'
  <2>1. vaultOutbox' \in Seq(Iqs)
    BY <1>p, <1>t, AppendProperties
  <2>2. toggled' \in BOOLEAN
    BY <1>p, <1>0 DEF VaultTypes
  <2>3. VaultTypes'
    BY <1>p, <1>o, <2>1, <2>2, <1>0 DEF VaultTypes
  <2>4. VaultNumbered'
    BY <1>p, <1>o, <1>0, Ordered
  <2>5. Pushing'
    <3>1. CASE toggled' = TRUE
      BY <3>1 DEF Pushing
    <3>2. CASE e \notin Push /\ toggled' = toggled
      BY <3>2, <1>p, <1>o, <1>0, PushingKept
    <3> QED
      BY <1>p, <3>1, <3>2
  <2>6. Done'
    BY <1>p, <1>o, <1>0 DEF Done, VaultNews
  <2> QED
    BY <2>3, <2>4, <2>5, <2>6 DEF VaultInv
<1>1. CASE VA!Online
  <2>1. /\ vaultSessions < MaxVaultSessions /\ vaultSessions' = vaultSessions + 1 /\ up' = TRUE /\ vaultOutbox' = VA!OnlinePush
        /\ toggled' = FALSE /\ denied' = {}
        /\ UNCHANGED <<ignored, requests, vaultAnswers, node, stored, registered, account, vaultShown, vaultOrders>>
    BY <1>1, Zenon DEF VA!Online, VA!serverVars
  <2>2. vaultSessions' \in 0..MaxVaultSessions /\ vaultSessions' \in Nat
    BY <2>1, <1>t, VaultAssumption
  <2>3. VA!BuildDisableAllIq \in Push /\ VA!BuildEnableIq(vaultSessions') \in Push
    BY <2>2 DEF VA!BuildDisableAllIq, VA!BuildEnableIq, Push
  <2>4. vaultOutbox' = IF WithPush THEN <<VA!BuildDisableAllIq, VA!BuildEnableIq(vaultSessions')>>
                       ELSE <<VA!BuildDisableAllIq>>
    BY <2>1, VaultAssumption DEF VA!OnlinePush
  <2>5. vaultOutbox' \in Seq(Push) /\ Len(vaultOutbox') > 0 /\ vaultOutbox'[1] = VA!BuildDisableAllIq
        /\ IF WithPush
             THEN Len(vaultOutbox') > 1 /\ vaultOutbox'[2] = VA!BuildEnableIq(vaultSessions') /\ Quiet(vaultOutbox', 2)
             ELSE Quiet(vaultOutbox', 1)
    BY <2>3, <2>4, VaultAssumption DEF Quiet
  <2>6. Pushing'
    BY <2>5, Zenon DEF Pushing
  <2>7. \A i \in DOMAIN vaultOutbox' : vaultOutbox'[i] \in Push
    BY <2>5, ElementOfSeq, LenProperties
  <2>8. vaultOutbox' \in Seq(Iqs)
    BY <2>5, SeqMonotonic DEF Iqs
  <2>9. VaultTypes'
    BY <2>1, <2>2, <2>8, <1>0 DEF VaultTypes
  <2>10. \A q \in Push : q \notin Requests
    BY IqKinds DEF Iqs
  <2>11. Keys(AskedFor, vaultOutbox') = {} /\ Unlike(AskedFor, vaultOutbox') /\ Keys(Changing, vaultOutbox') = {}
         /\ Keys(Erasing, vaultOutbox') = {}
    <3>1. \A i \in DOMAIN vaultOutbox' : vaultOutbox'[i] \notin DOMAIN AskedFor
            /\ vaultOutbox'[i] \notin DOMAIN Changing /\ vaultOutbox'[i] \notin DOMAIN Erasing
      BY <2>7, <2>10, Names, Zenon
    <3> QED
      BY <3>1, Nameless, Zenon
  <2>12. VaultNumbered'
    BY <2>1, <2>11, <1>0 DEF VaultNumbered
  <2>13. Done'
    BY <2>1, <1>0 DEF Done, VaultNews
  <2> QED
    BY <2>6, <2>9, <2>12, <2>13 DEF VaultInv
<1>2. CASE VA!SessionEnd
  <2>1. /\ up' = FALSE /\ vaultOutbox' = <<>> /\ vaultAnswers' = <<>>
        /\ ignored' = [r \in Halls |-> {}] /\ requests' = [change |-> {}, delete |-> {}]
        /\ UNCHANGED <<node, stored, registered, account, vaultShown, toggled, denied, vaultOrders, vaultSessions>>
    BY <1>2, Zenon DEF VA!SessionEnd, VA!serverVars
  <2>2. vaultOutbox' \in Seq(Iqs) /\ vaultAnswers' \in Seq(VaultWords \cup Lists)
    BY <2>1, EmptySeq
  <2>3. requests' \in [change : SUBSET Nat, delete : SUBSET Nat] /\ requests'.change = {}
        /\ requests'.delete = {} /\ ignored' \in [Halls -> SUBSET Trolls]
    BY <2>1
  <2>4. VaultTypes'
    BY <2>1, <2>2, <2>3, <1>0 DEF VaultTypes
  <2>5. Pushing'
    BY <2>1, Zenon DEF Pushing
  <2>6. Keys(AskedFor, vaultOutbox') = {} /\ Unlike(AskedFor, vaultOutbox') /\ Keys(Heard, vaultAnswers') = {}
        /\ Unlike(Heard, vaultAnswers') /\ Keys(Changing, vaultOutbox') = {} /\ Keys(Erasing, vaultOutbox') = {}
        /\ Keys(Passed, vaultAnswers') = {}
    BY <2>1, KeysEmpty, Zenon
  <2>7. VaultNumbered'
    BY <2>3, <2>6, Zenon DEF VaultNumbered
  <2>8. Cardinality(VaultNews') = 0
    BY <2>3, FS_EmptySet DEF VaultNews
  <2>9. vaultShown.changed <= account.changes
    <3>1. Cardinality(VaultNews) \in Nat /\ vaultShown.changed \in Nat /\ account.changes \in Nat
      BY <1>0, NewsFinite DEF VaultTypes
    <3> QED
      BY <3>1, <1>0 DEF Done
  <2>10. vaultShown.changed \in Nat
    BY <1>0 DEF VaultTypes
  <2>11. Done'
    BY <2>1, <2>6, <2>8, <2>9, <2>10, <1>0 DEF Done
  <2> QED
    BY <2>4, <2>5, <2>7, <2>11 DEF VaultInv
<1>3. CASE VA!EnablePush
  <2>1. VA!Fresh \in Nat
    BY <1>t DEF VA!Fresh
  <2>2. VA!BuildEnableIq(VA!Fresh) \in Iqs /\ VA!BuildEnableIq(VA!Fresh).kind = "enable"
    BY <2>1 DEF VA!BuildEnableIq, Iqs, Push
  <2>3. VA!BuildEnableIq(VA!Fresh) \notin Requests
    BY <2>2, IqKinds
  <2> QED
    BY <1>3, <2>2, <2>3, <1>t, <1>p DEF VA!EnablePush, VA!Send
<1>4. CASE VA!DisablePush
  <2>1. VA!Fresh \in Nat
    BY <1>t DEF VA!Fresh
  <2>2. VA!BuildDisableIq(VA!Fresh) \in Iqs /\ VA!BuildDisableIq(VA!Fresh).kind = "disable"
    BY <2>1 DEF VA!BuildDisableIq, Iqs, Push
  <2>3. VA!BuildDisableIq(VA!Fresh) \notin Requests
    BY <2>2, IqKinds
  <2> QED
    BY <1>4, <2>2, <2>3, <1>t, <1>p DEF VA!DisablePush, VA!Send
<1>5. CASE VA!DisableAllPush
  <2>2. VA!BuildDisableAllIq \in Iqs /\ VA!BuildDisableAllIq.kind = "disable all"
    BY DEF VA!BuildDisableAllIq, Iqs, Push
  <2>3. VA!BuildDisableAllIq \notin Requests
    BY <2>2, IqKinds
  <2> QED
    BY <1>5, <2>2, <2>3, <1>t, <1>p DEF VA!DisableAllPush, VA!Send
<1>6. CASE VA!FetchConversations
  <2>1. [kind |-> "load"] \in Iqs /\ [kind |-> "load"].kind = "load"
    BY DEF Iqs, Private
  <2>2. [kind |-> "load"] \notin Requests /\ [kind |-> "load"] \notin Push
    BY <2>1, IqKinds
  <2> QED
    BY <1>6, <2>1, <2>2, <1>t, <1>p DEF VA!FetchConversations, VA!Send, VA!Kept
<1>7. CASE \E r \in Halls : VA!FetchIgnoreList(r)
  <2>1. PICK r \in Halls : VA!FetchIgnoreList(r)
    BY <1>7, Zenon
  <2> DEFINE e == [kind |-> "fetch", room |-> r]
  <2>2. e \in Iqs /\ e.kind = "fetch"
    BY DEF Iqs, Private
  <2> HIDE DEF e
  <2>3. e \notin Requests /\ e \notin Push
    BY <2>2, IqKinds
  <2>4. VA!Order /\ vaultOutbox' = Append(vaultOutbox, e) /\ UNCHANGED <<ignored, requests, toggled>>
    BY <2>1, Zenon DEF VA!FetchIgnoreList, VA!Send, VA!Kept, e
  <2> QED
    BY <2>2, <2>3, <2>4, <1>t, <1>p
<1>8. CASE \E cs \in SUBSET Halls : VA!SyncConversations(cs)
  <2>1. PICK cs \in SUBSET Halls : VA!SyncConversations(cs)
    BY <1>8, Zenon
  <2> DEFINE e == [kind |-> "save", convs |-> cs]
  <2>2. e \in Iqs /\ e.kind = "save"
    BY DEF Iqs, Private
  <2> HIDE DEF e
  <2>3. e \notin Requests /\ e \notin Push
    BY <2>2, IqKinds
  <2>4. VA!Order /\ vaultOutbox' = Append(vaultOutbox, e) /\ UNCHANGED <<ignored, requests, toggled>>
    BY <2>1, Zenon DEF VA!SyncConversations, VA!Send, VA!Kept, e
  <2> QED
    BY <2>2, <2>3, <2>4, <1>t, <1>p
<1>9. CASE \E r \in Halls, u \in Trolls : VA!IgnoreUser(r, u) \/ VA!UnignoreUser(r, u)
  <2>1. PICK r \in Halls, u \in Trolls : VA!IgnoreUser(r, u) \/ VA!UnignoreUser(r, u)
    BY <1>9, Zenon
  <2>2. /\ VA!Order /\ UNCHANGED <<requests, toggled>> /\ vaultOutbox' = Append(vaultOutbox, VA!BuildPublishIq(r, ignored'[r]))
        /\ \/ ignored' = [ignored EXCEPT ![r] = @ \cup {u}]
           \/ ignored' = [ignored EXCEPT ![r] = @ \ {u}]
    BY <2>1, Zenon DEF VA!IgnoreUser, VA!UnignoreUser, VA!Send
  <2>3. ignored' \in [Halls -> SUBSET Trolls]
    BY <2>2, <1>t
  <2> DEFINE e == VA!BuildPublishIq(r, ignored'[r])
  <2>4. ignored'[r] \in SUBSET Trolls
    BY <2>3
  <2>5. e \in Iqs /\ e.kind = "publish"
    BY <2>4 DEF VA!BuildPublishIq, Iqs, Private
  <2> HIDE DEF e
  <2>6. e \notin Requests /\ e \notin Push
    BY <2>5, IqKinds
  <2>7. vaultOutbox' = Append(vaultOutbox, e)
    BY <2>2, Zenon DEF e
  <2> QED
    BY <2>2, <2>3, <2>5, <2>6, <2>7, <1>p
<1>10. CASE VA!ChangePassword \/ VA!DeleteAccount
  <2>1. PICK kind \in {"change", "delete"} :
          /\ VA!Order /\ vaultOutbox' = Append(vaultOutbox, [kind |-> kind, id |-> vaultOrders])
          /\ \/ kind = "change" /\ requests' = [requests EXCEPT !.change = @ \cup {vaultOrders}]
             \/ kind = "delete" /\ requests' = [requests EXCEPT !.delete = @ \cup {vaultOrders}]
          /\ UNCHANGED <<ignored, toggled>>
    BY <1>10, Zenon DEF VA!ChangePassword, VA!DeleteAccount, VA!Send
  <2> DEFINE e == [kind |-> kind, id |-> vaultOrders]
  <2>2. e \in Requests /\ e.id = vaultOrders /\ e.kind = kind
    BY <1>t DEF Requests
  <2>3. vaultOutbox' = Append(vaultOutbox, e)
    BY <2>1, Zenon
  <2> HIDE DEF e
  <2>4. e \in Iqs /\ e \notin Push
    BY <2>2, IqKinds DEF Iqs
  <2>5. vaultOutbox' \in Seq(Iqs)
    BY <2>3, <2>4, <1>t, AppendProperties
  <2>6. requests' \in [change : SUBSET Nat, delete : SUBSET Nat]
    BY <2>1, <1>t
  <2>7. VaultTypes'
    BY <2>1, <2>5, <2>6, <1>o, <1>0 DEF VaultTypes
  <2>8. Pushing'
    BY <2>1, <2>3, <2>4, <1>o, <1>0, PushingKept
  <2>9. VaultNumbered' /\ VaultNews' = VaultNews
         /\ Keys(Passed, vaultAnswers') \cap requests'.delete = Keys(Passed, vaultAnswers) \cap requests.delete
    <3>1. \/ e.kind = "change" /\ requests' = [requests EXCEPT !.change = @ \cup {vaultOrders}]
          \/ e.kind = "delete" /\ requests' = [requests EXCEPT !.delete = @ \cup {vaultOrders}]
      BY <2>1, <2>2, Zenon
    <3> QED
      BY <3>1, <2>1, <2>2, <2>3, <1>o, <1>0, Requested, Zenon
  <2>10. Done'
    BY <2>1, <2>9, <1>o, <1>0 DEF Done
  <2> QED
    BY <2>7, <2>8, <2>9, <2>10 DEF VaultInv
<1>11. CASE VA!HandleIq
  <2> DEFINE e == Head(vaultAnswers)
  <2>1. /\ vaultAnswers # <<>> /\ vaultAnswers' = Tail(vaultAnswers)
        /\ UNCHANGED <<up, vaultOutbox, node, stored, registered, account, toggled, denied, vaultOrders, vaultSessions>>
    BY <1>11, Zenon DEF VA!HandleIq, VA!serverVars
  <2>2. \/ /\ e.kind = "fetched" /\ VA!ParseIgnored(e) /\ UNCHANGED requests
           /\ vaultShown' = [vaultShown EXCEPT !.lists[e.room] = ignored'[e.room]]
        \/ /\ e.kind = "loaded" /\ vaultShown' = [vaultShown EXCEPT !.convs = e.convs]
           /\ UNCHANGED <<ignored, requests>>
        \/ e.kind = "account" /\ VA!OnIqResult(e) /\ UNCHANGED ignored
    BY <1>11, Zenon DEF VA!HandleIq
  <2>3. /\ e \in VaultWords \cup Lists /\ vaultAnswers' \in Seq(VaultWords \cup Lists)
        /\ Unlike(Heard, vaultAnswers')
        /\ e \in DOMAIN Heard => Keys(Heard, vaultAnswers) = Keys(Heard, vaultAnswers') \cup {Heard[e]}
                                 /\ Heard[e] \notin Keys(Heard, vaultAnswers')
        /\ e \notin DOMAIN Heard => Keys(Heard, vaultAnswers) = Keys(Heard, vaultAnswers')
        /\ e \in DOMAIN Passed => Keys(Passed, vaultAnswers) = Keys(Passed, vaultAnswers') \cup {Passed[e]}
        /\ e \notin DOMAIN Passed => Keys(Passed, vaultAnswers) = Keys(Passed, vaultAnswers')
    <3>1. Unlike(Heard, vaultAnswers)
      BY <1>0 DEF VaultNumbered
    <3> QED
      BY <3>1, <2>1, <1>t, KeysTail
  <2> HIDE DEF e
  <2>4. vaultShown \in [changed : Nat, deleted : BOOLEAN, lists : [Halls -> SUBSET Trolls],
                        convs : SUBSET Halls]
    BY <1>0 DEF VaultTypes
  <2>5. Pushing'
    BY <2>1, <1>0 DEF Pushing, Cleaned
  <2>6. Keys(Heard, vaultAnswers') \subseteq Keys(Heard, vaultAnswers)
        /\ Keys(Passed, vaultAnswers') \subseteq Keys(Passed, vaultAnswers)
    BY <2>3, Zenon
  <2>7. CASE e.kind # "account"
    <3>1. e \notin DOMAIN Heard /\ e \notin DOMAIN Passed
      BY <2>3, <2>7, AnswerKinds, Names
    <3>2. UNCHANGED requests
      BY <2>2, <2>7
    <3>3. ignored' \in [Halls -> SUBSET Trolls]
      <4>1. CASE e.kind = "fetched" /\ VA!ParseIgnored(e)
        <5>1. e.room \in Halls /\ e.users \in (SUBSET Trolls) \cup {VA!Absent}
          BY <4>1, <2>3, AnswerKinds
        <5> QED
          BY <4>1, <5>1, <1>t DEF VA!ParseIgnored
      <4>2. CASE UNCHANGED ignored
        BY <4>2, <1>t
      <4> QED
        BY <2>2, <2>7, <4>1, <4>2
    <3>4. vaultShown' \in [changed : Nat, deleted : BOOLEAN, lists : [Halls -> SUBSET Trolls],
                           convs : SUBSET Halls]
          /\ vaultShown'.changed = vaultShown.changed /\ vaultShown'.deleted = vaultShown.deleted
      <4>1. CASE e.kind = "fetched" /\ vaultShown' = [vaultShown EXCEPT !.lists[e.room] = ignored'[e.room]]
        <5>1. e.room \in Halls
          BY <4>1, <2>3, AnswerKinds
        <5>2. ignored'[e.room] \in SUBSET Trolls
          BY <5>1, <3>3
        <5> QED
          BY <4>1, <5>1, <5>2, <2>4
      <4>2. CASE e.kind = "loaded" /\ vaultShown' = [vaultShown EXCEPT !.convs = e.convs]
        <5>1. e.convs \in SUBSET Halls
          BY <4>2, <2>3, AnswerKinds
        <5> QED
          BY <4>2, <5>1, <2>4
      <4> QED
        BY <2>2, <2>7, <4>1, <4>2
    <3>5. VaultTypes'
      BY <2>1, <2>3, <3>2, <3>3, <3>4, <1>0 DEF VaultTypes
    <3>6. VaultNumbered'
      BY <2>1, <2>3, <3>1, <3>2, <1>0 DEF VaultNumbered
    <3>7. Done'
      BY <2>1, <2>3, <3>1, <3>2, <3>4, <1>0 DEF Done, VaultNews
    <3> QED
      BY <2>5, <3>5, <3>6, <3>7 DEF VaultInv
  <2>8. CASE e.kind = "account"
    <3>1. VA!OnIqResult(e) /\ UNCHANGED ignored
      BY <2>2, <2>8
    <3>2. e \in VaultWords /\ e.id \in Nat /\ e.ok \in BOOLEAN
      BY <2>3, <2>8, AnswerKinds
    <3>3. /\ Keys(Heard, vaultAnswers) = Keys(Heard, vaultAnswers') \cup {e.id} /\ e.id \notin Keys(Heard, vaultAnswers')
          /\ e.ok => Keys(Passed, vaultAnswers) = Keys(Passed, vaultAnswers') \cup {e.id}
          /\ ~e.ok => Keys(Passed, vaultAnswers) = Keys(Passed, vaultAnswers')
      BY <2>3, <3>2, Names, Zenon
    <3>4. e.id \notin Keys(Passed, vaultAnswers')
      <4>1. Keys(Passed, vaultAnswers') \subseteq Keys(Heard, vaultAnswers')
        BY Narrower
      <4> QED
        BY <3>3, <4>1
    <3>5. /\ requests' \in [change : SUBSET Nat, delete : SUBSET Nat]
          /\ requests'.change = requests.change \ {e.id} /\ requests'.delete = requests.delete \ {e.id}
      BY <3>1, <1>t DEF VA!OnIqResult
    <3>6. \/ e.id \in requests.change /\ e.ok /\ vaultShown' = [vaultShown EXCEPT !.changed = @ + 1]
          \/ e.id \in requests.delete /\ e.ok /\ vaultShown' = [vaultShown EXCEPT !.deleted = TRUE]
          \/ ~(e.id \in requests.change /\ e.ok) /\ ~(e.id \in requests.delete /\ e.ok)
             /\ vaultShown' = vaultShown
      BY <3>1 DEF VA!OnIqResult
    <3>7. /\ vaultShown' \in [changed : Nat, deleted : BOOLEAN, lists : [Halls -> SUBSET Trolls],
                              convs : SUBSET Halls]
          /\ vaultShown'.changed = IF e.id \in requests.change /\ e.ok THEN vaultShown.changed + 1
                                   ELSE vaultShown.changed
          /\ vaultShown'.deleted = (vaultShown.deleted \/ (e.id \in requests.delete /\ e.ok))
      <4>1. e.id \in requests.change => e.id \notin requests.delete
        BY <1>0, Zenon DEF VaultNumbered
      <4>2. CASE e.id \in requests.change /\ e.ok /\ vaultShown' = [vaultShown EXCEPT !.changed = @ + 1]
        BY <4>1, <4>2, <2>4
      <4>3. CASE e.id \in requests.delete /\ e.ok /\ vaultShown' = [vaultShown EXCEPT !.deleted = TRUE]
        BY <4>1, <4>3, <2>4
      <4>4. CASE ~(e.id \in requests.change /\ e.ok) /\ ~(e.id \in requests.delete /\ e.ok)
                 /\ vaultShown' = vaultShown
        BY <4>4, <2>4
      <4> QED
        BY <3>6, <4>2, <4>3, <4>4
    <3>8. VaultTypes'
      BY <2>1, <2>3, <3>1, <3>5, <3>7, <1>0 DEF VaultTypes
    <3>9. VaultNumbered'
      BY <2>1, <2>3, <2>6, <3>5, <1>0 DEF VaultNumbered
    <3>10. VaultNews' = VaultNews \ {e.id} /\ (e.id \in VaultNews <=> e.id \in requests.change /\ e.ok)
      BY <2>6, <3>2, <3>3, <3>4, <3>5 DEF VaultNews
    <3>11. /\ vaultShown'.changed + Cardinality(VaultNews') <= account.changes
      <4>1. IsFiniteSet(VaultNews) /\ Cardinality(VaultNews) \in Nat /\ vaultShown.changed \in Nat
        BY <1>0, NewsFinite, <2>4
      <4>2. Cardinality(VaultNews \ {e.id}) = IF e.id \in VaultNews THEN Cardinality(VaultNews) - 1
                                              ELSE Cardinality(VaultNews)
        BY <4>1, FS_RemoveElement
      <4> QED
        BY <3>7, <3>10, <4>1, <4>2, <1>0 DEF Done
    <3>12. vaultShown'.deleted \/ Keys(Passed, vaultAnswers') \cap requests'.delete # {} => ~account.there
      <4>1. CASE vaultShown.deleted \/ Keys(Passed, vaultAnswers) \cap requests.delete # {}
        BY <4>1, <1>0, Zenon DEF Done
      <4>2. CASE ~(vaultShown.deleted \/ Keys(Passed, vaultAnswers) \cap requests.delete # {})
        <5>1. Keys(Passed, vaultAnswers') \cap requests'.delete = {}
          BY <4>2, <2>6, <3>5
        <5>2. ~(e.id \in requests.delete /\ e.ok)
          BY <4>2, <3>3
        <5> QED
          BY <4>2, <5>1, <5>2, <3>7
      <4> QED
        BY <4>1, <4>2
    <3>13. Done'
      BY <2>1, <3>11, <3>12 DEF Done
    <3> QED
      BY <2>5, <3>8, <3>9, <3>13 DEF VaultInv
  <2> QED
    BY <2>7, <2>8
<1>12. CASE VA!Serve
  <2> DEFINE q == Head(vaultOutbox)
  <2>1. /\ up /\ vaultOutbox # <<>> /\ vaultOutbox' = Tail(vaultOutbox)
        /\ UNCHANGED <<up, ignored, requests, vaultShown, wished, toggled, vaultOrders, vaultSessions>>
    BY <1>12, Zenon DEF VA!Serve
  <2>2. \/ VA!Grant(q)
        \/ VA!Refuse(q)
    BY <1>12, Zenon DEF VA!Serve
  <2>g. ASSUME VA!Grant(q)
        PROVE  /\ \/ /\ q.kind = "publish" /\ node' = [node EXCEPT ![q.room] = q.users]
                     /\ UNCHANGED <<vaultAnswers, stored, registered, account>>
                  \/ /\ q.kind = "fetch" /\ UNCHANGED <<node, stored, registered, account>>
                     /\ vaultAnswers' = Append(vaultAnswers, [kind |-> "fetched", room |-> q.room, users |-> node[q.room]])
                  \/ q.kind = "save" /\ stored' = q.convs /\ UNCHANGED <<vaultAnswers, node, registered, account>>
                  \/ /\ q.kind = "load" /\ UNCHANGED <<node, stored, registered, account>>
                     /\ vaultAnswers' = Append(vaultAnswers, [kind |-> "loaded", convs |-> stored])
                  \/ /\ q.kind = "enable" /\ registered' = registered \cup {q.device}
                     /\ UNCHANGED <<vaultAnswers, node, stored, account>>
                  \/ /\ q.kind = "disable" /\ registered' = registered \ {q.device}
                     /\ UNCHANGED <<vaultAnswers, node, stored, account>>
                  \/ /\ q.kind = "disable all" /\ registered' = {}
                     /\ UNCHANGED <<vaultAnswers, node, stored, account>>
                  \/ /\ q.kind \in {"change", "delete"} /\ UNCHANGED <<node, stored, registered>>
                     /\ account' = IF q.kind = "change" THEN [account EXCEPT !.changes = @ + 1]
                                   ELSE [account EXCEPT !.there = FALSE]
                     /\ vaultAnswers' = Append(vaultAnswers, [kind |-> "account", id |-> q.id, ok |-> TRUE])
               /\ denied' = denied
    BY <2>g, Zenon DEF VA!Grant, VA!serverVars, VA!Answer, VA!Silent
  <2>r. ASSUME VA!Refuse(q)
        PROVE  /\ UNCHANGED <<node, stored, registered, account>>
               /\ denied' = denied \cup ({q.kind} \cap {"enable", "disable all"})
               /\ IF q.kind \in {"change", "delete"}
                    THEN vaultAnswers' = Append(vaultAnswers, [kind |-> "account", id |-> q.id, ok |-> FALSE])
                    ELSE UNCHANGED vaultAnswers
    BY <2>r, Zenon DEF VA!Refuse, VA!serverVars, VA!Answer, VA!Silent
  <2>s. q.kind \notin {"change", "delete"} =>
          /\ UNCHANGED account
          /\ \/ UNCHANGED vaultAnswers
             \/ /\ q.kind = "fetch"
                /\ vaultAnswers' = Append(vaultAnswers, [kind |-> "fetched", room |-> q.room, users |-> node[q.room]])
             \/ vaultAnswers' = Append(vaultAnswers, [kind |-> "loaded", convs |-> stored])
          /\ node' = node \/ (q.kind = "publish" /\ node' = [node EXCEPT ![q.room] = q.users])
          /\ stored' = stored \/ (q.kind = "save" /\ stored' = q.convs)
          /\ registered' = registered \/ registered' \subseteq registered
             \/ (q.kind = "enable" /\ registered' = registered \cup {q.device})
    <3>1. CASE VA!Grant(q)
      <4>1. registered \ {q.device} \subseteq registered /\ {} \subseteq registered
        OBVIOUS
      <4> QED
        BY <3>1, <2>g, <4>1
    <3>2. CASE VA!Refuse(q)
      BY <3>2, <2>r, Zenon
    <3> QED
      BY <2>2, <3>1, <3>2
  <2>d. denied \subseteq denied' /\ denied' \subseteq Refusable
        /\ (VA!Refuse(q) => {q.kind} \cap {"enable", "disable all"} \subseteq denied')
    <3>1. denied \subseteq Refusable
      BY <1>0 DEF VaultTypes
    <3> QED
      BY <2>2, <2>g, <2>r, <3>1 DEF Refusable
  <2>3. /\ q \in Iqs /\ vaultOutbox' \in Seq(Iqs) /\ Unlike(AskedFor, vaultOutbox')
        /\ q \in DOMAIN AskedFor => Keys(AskedFor, vaultOutbox) = Keys(AskedFor, vaultOutbox') \cup {AskedFor[q]}
                                    /\ AskedFor[q] \notin Keys(AskedFor, vaultOutbox')
        /\ q \notin DOMAIN AskedFor => Keys(AskedFor, vaultOutbox) = Keys(AskedFor, vaultOutbox')
    <3>1. Unlike(AskedFor, vaultOutbox)
      BY <1>0 DEF VaultNumbered
    <3> QED
      BY <3>1, <2>1, <1>t, KeysTail
  <2>4. /\ q \in DOMAIN Erasing => Keys(Erasing, vaultOutbox) = Keys(Erasing, vaultOutbox') \cup {Erasing[q]}
        /\ q \notin DOMAIN Erasing => Keys(Erasing, vaultOutbox) = Keys(Erasing, vaultOutbox')
    BY <2>1, <1>t, KeysTail
  <2>5. /\ q \in DOMAIN Changing => Keys(Changing, vaultOutbox) = Keys(Changing, vaultOutbox') \cup {Changing[q]}
        /\ q \notin DOMAIN Changing => Keys(Changing, vaultOutbox) = Keys(Changing, vaultOutbox')
    BY <2>1, <1>t, KeysTail
  <2>6. /\ Len(vaultOutbox') = Len(vaultOutbox) - 1 /\ Len(vaultOutbox) \in Nat /\ q = vaultOutbox[1]
        /\ Len(vaultOutbox) > 1 => vaultOutbox'[1] = vaultOutbox[2]
        /\ Quiet(vaultOutbox, 0) => Quiet(vaultOutbox', 0) /\ q \notin Push
        /\ Quiet(vaultOutbox, 1) => Quiet(vaultOutbox', 0)
        /\ Quiet(vaultOutbox, 2) => Quiet(vaultOutbox', 1)
    BY <2>1, <1>t, QuietTail
  <2> HIDE DEF q
  <2>7. Keys(AskedFor, vaultOutbox') \subseteq Keys(AskedFor, vaultOutbox)
        /\ Keys(Erasing, vaultOutbox') \subseteq Keys(Erasing, vaultOutbox)
        /\ Keys(Changing, vaultOutbox') \subseteq Keys(Changing, vaultOutbox)
    BY <2>3, <2>4, <2>5, Zenon
  <2>8. node \in [Halls -> (SUBSET Trolls) \cup {VA!Absent}] /\ stored \subseteq Halls
        /\ account \in [changes : Nat, there : BOOLEAN]
    BY <1>0 DEF VaultTypes
  <2>9. Pushing'
    <3>1. CASE toggled
      BY <3>1, <2>1 DEF Pushing
    <3>2. CASE ~toggled
      <4>1. CASE /\ Len(vaultOutbox) > 0 /\ vaultOutbox[1] = VA!BuildDisableAllIq
                 /\ IF WithPush
                      THEN Len(vaultOutbox) > 1 /\ vaultOutbox[2] = VA!BuildEnableIq(vaultSessions) /\ Quiet(vaultOutbox, 2)
                      ELSE Quiet(vaultOutbox, 1)
        <5>1. q.kind = "disable all"
          <6>1. q = VA!BuildDisableAllIq
            BY <4>1, <2>6, Zenon
          <6> QED
            BY <6>1 DEF VA!BuildDisableAllIq
        <5>2. Cleaned'
          <6>1. CASE VA!Grant(q)
            <7>1. registered' = {}
              BY <5>1, <6>1, <2>g
            <7> QED
              BY <7>1 DEF Cleaned
          <6>2. CASE VA!Refuse(q)
            BY <5>1, <6>2, <2>d DEF Cleaned
          <6> QED
            BY <6>1, <6>2, <2>2
        <5>3. WithPush => Len(vaultOutbox') > 0 /\ vaultOutbox'[1] = VA!BuildEnableIq(vaultSessions) /\ Quiet(vaultOutbox', 1)
          BY <4>1, <2>6
        <5>4. ~WithPush => Quiet(vaultOutbox', 0)
          BY <4>1, <2>6
        <5> QED
          BY <5>2, <5>3, <5>4, <2>1, Zenon DEF Pushing
      <4>2. CASE /\ WithPush /\ Len(vaultOutbox) > 0 /\ vaultOutbox[1] = VA!BuildEnableIq(vaultSessions)
                 /\ Cleaned /\ Quiet(vaultOutbox, 1)
        <5>1. q.kind = "enable" /\ q.device = vaultSessions
          BY <4>2, <2>6 DEF VA!BuildEnableIq
        <5>2. Cleaned' /\ ("enable" \notin denied' => vaultSessions \in registered')
          <6>1. CASE VA!Grant(q)
            <7>1. registered' = registered \cup {vaultSessions} /\ denied' = denied
              BY <5>1, <6>1, <2>g
            <7> QED
              BY <4>2, <7>1, <2>1 DEF Cleaned
          <6>2. CASE VA!Refuse(q)
            <7>1. registered' = registered /\ "enable" \in denied'
              BY <5>1, <6>2, <2>r
            <7> QED
              BY <4>2, <7>1, <2>1, <2>d DEF Cleaned
          <6> QED
            BY <6>1, <6>2, <2>2
        <5>3. Quiet(vaultOutbox', 0)
          BY <4>2, <2>6
        <5> QED
          BY <4>2, <5>2, <5>3, <2>1, Zenon DEF Pushing
      <4>3. CASE Quiet(vaultOutbox, 0) /\ Cleaned /\ (WithPush /\ "enable" \notin denied => vaultSessions \in registered)
        <5>1. q.kind \notin {"enable", "disable", "disable all"}
          BY <4>3, <2>3, <2>6, IqKinds
        <5>2. registered' = registered /\ denied' = denied
          BY <5>1, <2>2, <2>g, <2>r
        <5>3. Quiet(vaultOutbox', 0)
          BY <4>3, <2>6
        <5> QED
          BY <4>3, <5>2, <5>3, <2>1, Zenon DEF Pushing, Cleaned
      <4> QED
        BY <3>2, <4>1, <4>2, <4>3, <2>1, <1>0, Zenon DEF Pushing
    <3> QED
      BY <3>1, <3>2
  <2>10. CASE q.kind \notin {"change", "delete"}
    <3>1. q \notin DOMAIN AskedFor
      BY <2>3, <2>10, IqKinds, Names
    <3>2. UNCHANGED account
      BY <2>s, <2>10, Zenon
    <3>3. vaultAnswers' = vaultAnswers \/ \E a \in Lists : vaultAnswers' = Append(vaultAnswers, a)
      <4>1. CASE /\ q.kind = "fetch"
                 /\ vaultAnswers' = Append(vaultAnswers, [kind |-> "fetched", room |-> q.room, users |-> node[q.room]])
        <5>1. q.room \in Halls
          BY <4>1, <2>3, IqKinds
        <5>2. node[q.room] \in (SUBSET Trolls) \cup {VA!Absent}
          BY <5>1, <2>8
        <5>3. [kind |-> "fetched", room |-> q.room, users |-> node[q.room]] \in Lists
          BY <5>1, <5>2 DEF Lists
        <5> QED
          BY <4>1, <5>3, Zenon
      <4>2. CASE vaultAnswers' = Append(vaultAnswers, [kind |-> "loaded", convs |-> stored])
        <5>1. [kind |-> "loaded", convs |-> stored] \in Lists
          BY <2>8 DEF Lists
        <5> QED
          BY <4>2, <5>1, Zenon
      <4>3. CASE vaultAnswers' = vaultAnswers
        BY <4>3
      <4> QED
        BY <2>s, <2>10, <4>1, <4>2, <4>3, Zenon
    <3>4. /\ vaultAnswers' \in Seq(VaultWords \cup Lists) /\ Keys(Heard, vaultAnswers') = Keys(Heard, vaultAnswers)
          /\ Keys(Passed, vaultAnswers') = Keys(Passed, vaultAnswers) /\ Unlike(Heard, vaultAnswers')
      <4>0. Unlike(Heard, vaultAnswers)
        BY <1>0 DEF VaultNumbered
      <4>1. CASE vaultAnswers' = vaultAnswers
        BY <4>0, <4>1, <1>t
      <4>2. ASSUME NEW a \in Lists, vaultAnswers' = Append(vaultAnswers, a)
            PROVE  /\ vaultAnswers' \in Seq(VaultWords \cup Lists) /\ Keys(Heard, vaultAnswers') = Keys(Heard, vaultAnswers)
                   /\ Keys(Passed, vaultAnswers') = Keys(Passed, vaultAnswers) /\ Unlike(Heard, vaultAnswers')
        <5>1. a \notin VaultWords
          BY DEF VaultWords, Lists
        <5>2. a \notin DOMAIN Heard /\ a \notin DOMAIN Passed
          BY <5>1, Names, Zenon
        <5>3. a \in VaultWords \cup Lists
          BY <4>2
        <5>4. /\ Append(vaultAnswers, a) \in Seq(VaultWords \cup Lists)
              /\ Keys(Heard, Append(vaultAnswers, a)) = Keys(Heard, vaultAnswers)
              /\ Unlike(Heard, Append(vaultAnswers, a))
          BY <4>0, <5>2, <5>3, <1>t, KeysAppend
        <5>5. Keys(Passed, Append(vaultAnswers, a)) = Keys(Passed, vaultAnswers)
          BY <5>2, <5>3, <1>t, KeysAppend
        <5> QED
          BY <4>2, <5>4, <5>5, Zenon
      <4> QED
        BY <3>3, <4>1, <4>2
    <3>5. node' \in [Halls -> (SUBSET Trolls) \cup {VA!Absent}]
      <4>1. CASE q.kind = "publish" /\ node' = [node EXCEPT ![q.room] = q.users]
        <5>1. q.users \in SUBSET Trolls /\ q.room \in Halls
          BY <4>1, <2>3, IqKinds
        <5> QED
          BY <4>1, <5>1, <2>8
      <4>2. CASE node' = node
        BY <4>2, <2>8
      <4> QED
        BY <2>s, <2>10, <4>1, <4>2, Zenon
    <3>6. stored' \subseteq Halls
      <4>1. q.kind = "save" => q.convs \in SUBSET Halls
        BY <2>3, IqKinds
      <4> QED
        BY <4>1, <2>s, <2>8, <2>10
    <3>7. registered' \subseteq Nat
      <4>1. q.kind = "enable" => q.device \in Nat
        BY <2>3, IqKinds
      <4> QED
        BY <4>1, <2>s, <1>t, <2>10
    <3>8. VaultTypes'
      BY <2>1, <2>3, <2>d, <3>2, <3>4, <3>5, <3>6, <3>7, <1>0 DEF VaultTypes
    <3>9. VaultNumbered'
      BY <2>1, <2>3, <2>7, <3>4, <1>0 DEF VaultNumbered
    <3>10. Done'
      BY <2>1, <3>2, <3>4, <1>0 DEF Done, VaultNews
    <3> QED
      BY <2>9, <3>8, <3>9, <3>10 DEF VaultInv
  <2>11. CASE q.kind \in {"change", "delete"}
    <3>1. UNCHANGED <<node, stored, registered>>
      BY <2>2, <2>g, <2>r, <2>11
    <3>2. PICK ok \in BOOLEAN :
            /\ account' = IF ~ok THEN account
                          ELSE IF q.kind = "change" THEN [account EXCEPT !.changes = @ + 1]
                          ELSE [account EXCEPT !.there = FALSE]
            /\ vaultAnswers' = Append(vaultAnswers, [kind |-> "account", id |-> q.id, ok |-> ok])
      <4>1. CASE VA!Grant(q)
        <5>1. /\ account' = IF q.kind = "change" THEN [account EXCEPT !.changes = @ + 1]
                            ELSE [account EXCEPT !.there = FALSE]
              /\ vaultAnswers' = Append(vaultAnswers, [kind |-> "account", id |-> q.id, ok |-> TRUE])
          BY <4>1, <2>g, <2>11
        <5> QED
          BY <5>1
      <4>2. CASE VA!Refuse(q)
        <5>1. account' = account
              /\ vaultAnswers' = Append(vaultAnswers, [kind |-> "account", id |-> q.id, ok |-> FALSE])
          BY <4>2, <2>r, <2>11
        <5> QED
          BY <5>1
      <4> QED
        BY <2>2, <4>1, <4>2
    <3> DEFINE a == [kind |-> "account", id |-> q.id, ok |-> ok]
    <3>3. q \in Requests /\ q.id \in Nat
      BY <2>3, <2>11, IqKinds
    <3>4. a \in VaultWords /\ a.id = q.id /\ a.ok = ok
      BY <3>3 DEF VaultWords
    <3>5. vaultAnswers' = Append(vaultAnswers, a)
      BY <3>2, Zenon
    <3> HIDE DEF a
    <3>6. Keys(AskedFor, vaultOutbox) = Keys(AskedFor, vaultOutbox') \cup {q.id}
          /\ q.id \notin Keys(AskedFor, vaultOutbox')
      BY <2>3, <3>3, Names
    <3>7. q.id \notin Keys(Heard, vaultAnswers) /\ q.id \notin Keys(Passed, vaultAnswers)
      <4>1. q.id \notin Keys(Heard, vaultAnswers)
        BY <3>6, <1>0 DEF VaultNumbered
      <4> QED
        BY <4>1, Narrower
    <3>8. /\ vaultAnswers' \in Seq(VaultWords \cup Lists) /\ Keys(Heard, vaultAnswers') = Keys(Heard, vaultAnswers) \cup {q.id}
          /\ Unlike(Heard, vaultAnswers')
      <4>1. a \in DOMAIN Heard /\ Heard[a] = q.id /\ a \in VaultWords \cup Lists
        BY <3>4, Names
      <4> QED
        <5>1. vaultAnswers \in Seq(VaultWords \cup Lists) /\ Unlike(Heard, vaultAnswers)
          BY <1>0, <1>t DEF VaultNumbered
        <5>2. Keys(Heard, Append(vaultAnswers, a)) = Keys(Heard, vaultAnswers) \cup {q.id}
              /\ Append(vaultAnswers, a) \in Seq(VaultWords \cup Lists)
              /\ Unlike(Heard, Append(vaultAnswers, a))
          BY <4>1, <5>1, <3>7, KeysAppend
        <5> QED
          BY <5>2, <3>5, Zenon
    <3>9. Keys(Passed, vaultAnswers') = IF ok THEN Keys(Passed, vaultAnswers) \cup {q.id}
                                        ELSE Keys(Passed, vaultAnswers)
      <4>1. a \in VaultWords \cup Lists /\ (ok => a \in DOMAIN Passed /\ Passed[a] = q.id)
            /\ (~ok => a \notin DOMAIN Passed)
        BY <3>4, Names
      <4> QED
        <5>1. CASE ok
          BY <4>1, <5>1, <3>5, <1>t, KeysAppend
        <5>2. CASE ~ok
          BY <4>1, <5>2, <3>5, <1>t, KeysAppend
        <5> QED
          BY <5>1, <5>2
    <3>10. account' \in [changes : Nat, there : BOOLEAN]
           /\ account'.changes = (IF ok /\ q.kind = "change" THEN account.changes + 1 ELSE account.changes)
           /\ (account'.there => account.there) /\ (ok /\ q.kind = "delete" => ~account'.there)
      <4>1. CASE ~ok
        BY <4>1, <2>8, <3>2
      <4>2. CASE ok /\ q.kind = "change"
        <5>1. account' = [account EXCEPT !.changes = account.changes + 1] /\ account.changes \in Nat
          BY <4>2, <2>8, <3>2
        <5> QED
          BY <4>2, <5>1, <2>8
      <4>3. CASE ok /\ q.kind = "delete"
        BY <4>3, <2>8, <3>2
      <4> QED
        BY <2>11, <4>1, <4>2, <4>3
    <3>11. VaultTypes'
      BY <2>1, <2>3, <2>d, <3>1, <3>8, <3>10, <1>0 DEF VaultTypes
    <3>12. VaultNumbered'
      <4>1. Keys(AskedFor, vaultOutbox') \cap Keys(Heard, vaultAnswers') = {}
        BY <2>7, <3>6, <3>8, <1>0 DEF VaultNumbered
      <4>2. \A k \in Keys(AskedFor, vaultOutbox') \cup Keys(Heard, vaultAnswers') \cup requests'.change
                  \cup requests'.delete : k < vaultOrders'
        BY <2>1, <2>7, <3>6, <3>8, <1>0 DEF VaultNumbered
      <4> QED
        BY <2>1, <2>3, <2>7, <3>8, <4>1, <4>2, <1>0 DEF VaultNumbered
    <3>13. q.kind = "delete" => q.id \notin requests.change
      <4>1. q.kind = "delete" => q.id \in Keys(Erasing, vaultOutbox)
        BY <2>4, <3>3, Names
      <4> QED
        BY <4>1, <1>0 DEF VaultNumbered
    <3>14. q.kind = "change" => q.id \notin requests.delete
      <4>1. q.kind = "change" => q.id \in Keys(Changing, vaultOutbox)
        BY <2>5, <3>3, Names
      <4> QED
        BY <4>1, <1>0 DEF VaultNumbered
    <3>15. vaultShown'.changed + Cardinality(VaultNews') <= account'.changes
      <4>1. IsFiniteSet(VaultNews) /\ Cardinality(VaultNews) \in Nat /\ vaultShown.changed \in Nat
            /\ account.changes \in Nat
        BY <1>0, <2>8, NewsFinite DEF VaultTypes
      <4>2. CASE VaultNews' = VaultNews
        BY <4>1, <4>2, <2>1, <3>10, <1>0 DEF Done
      <4>3. CASE VaultNews' = VaultNews \cup {q.id} /\ ok /\ q.kind = "change"
        <5>1. Cardinality(VaultNews \cup {q.id}) <= Cardinality(VaultNews) + 1
              /\ Cardinality(VaultNews \cup {q.id}) \in Nat
          <6>1. Cardinality(VaultNews \cup {q.id}) = IF q.id \in VaultNews THEN Cardinality(VaultNews)
                                                     ELSE Cardinality(VaultNews) + 1
            BY <4>1, FS_AddElement
          <6> QED
            BY <4>1, <6>1
        <5> QED
          BY <4>1, <4>3, <5>1, <2>1, <3>10, <1>0 DEF Done
      <4>4. VaultNews' = VaultNews \/ (VaultNews' = VaultNews \cup {q.id} /\ ok /\ q.kind = "change")
        <5>1. CASE ok /\ q.id \in requests.change
          BY <5>1, <2>1, <2>11, <3>9, <3>13 DEF VaultNews
        <5>2. CASE ~ok \/ q.id \notin requests.change
          BY <5>2, <2>1, <3>9 DEF VaultNews
        <5> QED
          BY <5>1, <5>2
      <4> QED
        BY <4>2, <4>3, <4>4
    <3>16. vaultShown'.deleted \/ Keys(Passed, vaultAnswers') \cap requests'.delete # {} => ~account'.there
      <4>1. CASE vaultShown.deleted \/ Keys(Passed, vaultAnswers) \cap requests.delete # {}
        BY <4>1, <3>10, <1>0 DEF Done
      <4>2. CASE ~(vaultShown.deleted \/ Keys(Passed, vaultAnswers) \cap requests.delete # {})
        <5>1. \/ ok /\ q.kind = "delete"
              \/ Keys(Passed, vaultAnswers') \cap requests'.delete = {}
          BY <4>2, <2>1, <2>11, <3>9, <3>14
        <5> QED
          BY <4>2, <5>1, <2>1, <3>10
      <4> QED
        BY <4>1, <4>2
    <3>17. Done'
      BY <3>15, <3>16, Zenon DEF Done
    <3> QED
      BY <2>9, <3>11, <3>12, <3>17 DEF VaultInv
  <2> QED
    BY <2>10, <2>11
<1> QED
  BY <1>1, <1>2, <1>3, <1>4, <1>5, <1>6, <1>7, <1>8, <1>9, <1>10, <1>11, <1>12, Zenon DEF VA!Next

LEMMA VaultStutter == ASSUME VaultInv, UNCHANGED VA!vaVars PROVE VaultInv'
  BY DEF VaultInv, VaultTypes, Pushing, Cleaned, VaultNumbered, Done, VaultNews, VA!vaVars

LEMMA VaultTyped == ASSUME VaultInv PROVE VA!TypeOK
<1>1. requests.change \cup requests.delete \subseteq 0..MaxOrders
  <2>1. requests.change \subseteq Nat /\ requests.delete \subseteq Nat /\ vaultOrders \in Nat
        /\ vaultOrders <= MaxOrders
    BY VaultAssumption DEF VaultInv, VaultTypes
  <2> QED
    BY <2>1, VaultAssumption DEF VaultInv, VaultNumbered
<1>2. \A r \in Halls : node[r] = VA!Absent \/ node[r] \subseteq Trolls
  BY DEF VaultInv, VaultTypes
<1> QED
  BY <1>1, <1>2, Zenon DEF VaultInv, VaultTypes, VA!TypeOK

LEMMA VaultServes == ASSUME VaultInv PROVE VA!PushIsSingle /\ VA!WordIsTrue
<1>1. VaultTypes /\ Pushing /\ VaultNumbered /\ Done
  BY DEF VaultInv
<1>2. VA!PushIsSingle
  <2>1. vaultOutbox = <<>> => Len(vaultOutbox) = 0
    BY EmptySeq
  <2>2. ASSUME up, vaultOutbox = <<>>, ~toggled
        PROVE  Cleaned /\ (WithPush /\ "enable" \notin denied => vaultSessions \in registered)
    <3>1. Len(vaultOutbox) = 0
      BY <2>1, <2>2
    <3>2. ~(Len(vaultOutbox) > 0)
      BY <3>1
    <3> QED
      BY <1>1, <2>2, <3>2, Zenon DEF Pushing
  <2> QED
    BY <2>2, Zenon DEF VA!PushIsSingle, Cleaned
<1>3. VA!WordIsTrue
  <2>1. Cardinality(VaultNews) \in Nat /\ vaultShown.changed \in Nat /\ account.changes \in Nat
    BY <1>1, NewsFinite DEF VaultTypes
  <2> QED
    BY <1>1, <2>1 DEF VA!WordIsTrue, Done
<1> QED
  BY <1>2, <1>3

-----------------------------------------------------------------------------
(* Uploads: a request for a slot is in one place only on its way from the  *)
(* task to the file put into the slot, and the guard on concurrent requests *)
(* waits for nothing the server does not owe.                              *)

USE UploadAssumption

(* Sequences and commands *)

LEMMA TailAt ==
  ASSUME NEW S, NEW s \in Seq(S), s # <<>>
  PROVE  /\ Tail(s) \in Seq(S) /\ Head(s) \in S /\ Head(s) = s[1] /\ 1 \in DOMAIN s
         /\ \A i \in DOMAIN Tail(s) :
              i + 1 \in DOMAIN s /\ Tail(s)[i] = s[i + 1] /\ i + 1 # 1
         /\ \A i, j \in DOMAIN Tail(s) : i + 1 = j + 1 => i = j
BY SMT

LEMMA AppendAt ==
  ASSUME NEW S, NEW s \in Seq(S), NEW x \in S
  PROVE  /\ Append(s, x) \in Seq(S)
         /\ \A i \in DOMAIN Append(s, x) :
              \/ i \in DOMAIN s /\ Append(s, x)[i] = s[i]
              \/ i = Len(s) + 1 /\ Append(s, x)[i] = x
BY SMT

LEMMA Commands ==
  /\ \A f \in Files : Request(f) \in Cmds /\ Request(f).op = "request" /\ Request(f).file = f
  /\ \A p \in Puts : Post(p) \in Cmds /\ Post(p).op = "post" /\ Post(p).put = p
  /\ \A c \in Cmds : c.op = "request" => c.file \in Files /\ c = Request(c.file)
  /\ \A c \in Cmds : c.op # "request" => c.op = "post" /\ c.put \in Puts /\ c = Post(c.put)
BY SMT DEF Cmds, Request, Post

(* The invariant *)

\* The session and its requests.
Guarded ==
  /\ asked # {} => stream = "online"
  /\ stream = "connecting" => pending \subseteq early
  /\ stream = "online" => pending \subseteq asked \cup early \cup misread
  /\ \A f, g \in pending : f = g

\* What is posted was put before.
PostsArePut ==
  /\ puts \subseteq used
  /\ \A t \in tasks : \A i \in DOMAIN t : t[i].op = "post" => t[i].put \in used
  /\ \A i \in DOMAIN cmds : cmds[i].op = "post" => cmds[i].put \in used

\* Where a request can be: in a task, in the command channel, with the server
\* (asked), in the answers on their way to the UI, and in a slot that was used.
AsksFor(s, f) == \E i \in DOMAIN s : s[i] = Request(f)
InTasks  == {f \in Files : \E t \in tasks : AsksFor(t, f)}
InCmds   == {f \in Files : AsksFor(cmds, f)}
InEvents == {f \in Files : \E i \in DOMAIN events : events[i].file = f}
Slots    == {p.slot : p \in used}

UploadOnce(s) == \A i, j \in DOMAIN s : s[i] = s[j] /\ s[i].op = "request" => i = j

OnceEach ==
  /\ \A t \in tasks : UploadOnce(t)
  /\ \A t, u \in tasks, f \in Files : AsksFor(t, f) /\ AsksFor(u, f) => t = u
  /\ UploadOnce(cmds)
  /\ \A i, j \in DOMAIN events : events[i].file = events[j].file => i = j

Apart(T, C, A, E, U) ==
  /\ T \cap C = {} /\ T \cap A = {} /\ T \cap E = {} /\ T \cap U = {}
  /\ C \cap A = {} /\ C \cap E = {} /\ C \cap U = {}
  /\ A \cap E = {} /\ A \cap U = {} /\ E \cap U = {}

OnePlace ==
  /\ Apart(InTasks, InCmds, asked, InEvents, Slots)
  /\ InTasks \cup InCmds \cup asked \cup InEvents \cup Slots \subseteq sent

\* The remembered file has not been put, and what was put had been sent.
Unput ==
  /\ \A p \in used : p.file \in sent /\ p.file # upload
  /\ upload # None => upload \in sent

Stages == OnceEach /\ OnePlace
UploadIInv == TypeOK /\ Guarded /\ PostsArePut /\ Stages /\ Unput /\ PutOnce

(* Types and the session *)

LEMMA BatchFacts ==
  ASSUME NEW b \in Batches
  PROVE  /\ \E k \in 1..MaxBatch : b \in [1..k -> Files \ sent]
         /\ 1 \in DOMAIN b
         /\ \A i \in DOMAIN b : b[i] \in Files /\ b[i] \notin sent
         /\ \A i, j \in DOMAIN b : b[i] = b[j] => i = j
         /\ [i \in DOMAIN b |-> Request(b[i])] \in Seq(Cmds) \ {<<>>}
<1>1. /\ \A i, j \in DOMAIN b : b[i] = b[j] => i = j
      /\ \E k \in 1..MaxBatch : b \in [1..k -> Files \ sent]
  BY DEF Batches
<1>2. PICK k \in 1..MaxBatch : b \in [1..k -> Files \ sent]
  BY <1>1
<1>3. DOMAIN b = 1..k /\ 1 \in DOMAIN b /\ k \in Nat /\ k >= 1
  BY <1>2, SMT
<1>4. \A i \in DOMAIN b : b[i] \in Files /\ b[i] \notin sent
  BY <1>2
<1> DEFINE t == [i \in DOMAIN b |-> Request(b[i])]
<1>5. t \in [1..k -> Cmds]
  BY <1>3, <1>4, Commands
<1>6. t \in Seq(Cmds)
  BY <1>3, <1>5, SMT
<1>7. t # <<>>
  <2>1. DOMAIN t = DOMAIN b /\ DOMAIN <<>> = {}
    BY SMT
  <2> QED
    BY <1>3, <2>1
<1> QED
  BY <1>1, <1>3, <1>4, <1>6, <1>7

LEMMA UploadInit == Init => UploadIInv
<1> SUFFICES ASSUME Init PROVE UploadIInv
  OBVIOUS
<1>1. TypeOK
  <2>1. <<>> \in Seq(Cmds) /\ <<>> \in Seq(Events)
    BY SMT
  <2> QED
    BY <2>1 DEF Init, TypeOK
<1>2. Guarded /\ PostsArePut /\ OnceEach /\ Unput /\ PutOnce
  BY SMT DEF Init, Guarded, PostsArePut, OnceEach, UploadOnce, Unput, PutOnce
<1>3. InTasks = {} /\ InCmds = {} /\ InEvents = {} /\ Slots = {} /\ asked = {}
  BY SMT DEF Init, InTasks, InCmds, InEvents, Slots, AsksFor
<1>4. OnePlace
  BY <1>3 DEF OnePlace, Apart
<1> QED
  BY <1>1, <1>2, <1>4 DEF UploadIInv, Stages

LEMMA RestFacts ==
  ASSUME TypeOK, NEW t \in tasks
  PROVE  /\ t \in Seq(Cmds) /\ t # <<>>
         /\ Rest(t) \subseteq {Tail(t)} /\ Rest(t) \subseteq Seq(Cmds) \ {<<>>}
<1>1. t \in Seq(Cmds) /\ t # <<>>
  BY DEF TypeOK
<1>2. Len(t) \in Nat /\ Len(t) # 0 /\ Len(Tail(t)) = Len(t) - 1 /\ Len(<<>>) = 0
  BY <1>1, SMT
<1>3. Len(t) # 1 => Tail(t) # <<>>
  <2>1. Len(t) # 1 => Len(Tail(t)) # 0
    BY <1>2, SMT
  <2> QED
    BY <1>2, <2>1, Zenon
<1>4. Tail(t) \in Seq(Cmds)
  BY <1>1, TailAt
<1> QED
  BY <1>1, <1>3, <1>4, Zenon DEF Rest

LEMMA TypeStep == UploadIInv /\ [Next]_(vars) => TypeOK'
<1> SUFFICES ASSUME UploadIInv, [Next]_(vars) PROVE TypeOK'
  OBVIOUS
<1> USE DEF TypeOK
<1>0. TypeOK /\ Guarded /\ PostsArePut
  BY DEF UploadIInv
<1>1. ASSUME NEW b \in Batches, UserSend(b) PROVE TypeOK'
  <2>0. /\ \A i \in DOMAIN b : b[i] \in Files
        /\ 1 \in DOMAIN b
        /\ [i \in DOMAIN b |-> Request(b[i])] \in Seq(Cmds) \ {<<>>}
    BY BatchFacts
  <2>1. sent' \subseteq Files
    <3>1. \A f \in sent' : f \in sent \/ \E i \in DOMAIN b : f = b[i]
      BY <1>1 DEF UserSend
    <3> QED
      BY <1>0, <2>0, <3>1
  <2>2. upload' \in Files \cup {None}
    BY <1>0, <1>1, <2>0, Zenon DEF UserSend
  <2>3. tasks' \subseteq Seq(Cmds) \ {<<>>}
    BY <1>0, <1>1, <2>0, Zenon DEF UserSend
  <2> QED
    BY <1>0, <1>1, <2>1, <2>2, <2>3, Zenon DEF UserSend
<1>2. ASSUME NEW t \in tasks, TaskSend(t) PROVE TypeOK'
  <2>1. cmds' \in Seq(Cmds)
    BY <1>0, <1>2, RestFacts, TailAt, AppendAt DEF TaskSend
  <2> QED
    BY <1>0, <1>2, <2>1, RestFacts DEF TaskSend
<1>3. CASE HandleSlot
  <2>1. events' \in Seq(Events) /\ Head(events).file \in Files
    <3>1. events' \in Seq(Events) /\ Head(events) \in Events
      BY <1>0, <1>3, TailAt DEF HandleSlot
    <3> QED
      BY <3>1 DEF Events
  <2>2. upload # None => Put(Head(events).file, upload) \in Puts
    BY <1>0, <2>1 DEF Put, Puts
  <2> QED
    BY <1>0, <1>3, <2>1, <2>2 DEF HandleSlot, Taken
<1>4. CASE HandleError
  BY <1>0, <1>4, TailAt DEF HandleError
<1>5. ASSUME NEW p \in puts, PutDone(p) PROVE TypeOK'
  <2>1. p \in Puts /\ Post(p) \in Cmds
    BY <1>0, Commands
  <2>2. <<Post(p)>> \in Seq(Cmds) \ {<<>>}
    BY <2>1, SMT
  <2> QED
    BY <1>0, <1>5, <2>2 DEF PutDone
<1>6. ASSUME NEW p \in puts, PutFailed(p) PROVE TypeOK'
  BY <1>0, <1>6 DEF PutFailed
<1>7. CASE RequestSlot
  <2>1. cmds' \in Seq(Cmds) /\ Head(cmds).file \in Files
    BY <1>0, <1>7, TailAt, Commands DEF RequestSlot, TakeCmd
  <2> QED
    BY <1>0, <1>7, <2>1 DEF RequestSlot
<1>8. CASE SendMessage
  <2>1. cmds' \in Seq(Cmds) /\ Head(cmds).put \in used
    BY <1>0, <1>8, TailAt DEF SendMessage, TakeCmd, PostsArePut
  <2> QED
    BY <1>0, <1>8, <2>1 DEF SendMessage
<1>9. CASE DiscardCmd
  BY <1>0, <1>9, TailAt DEF DiscardCmd
<1>10. ASSUME NEW f \in asked, Granted(f) \/ Refused(f) PROVE TypeOK'
  <2>1. PICK type \in {"slot", "error"} : Answered(f, type) /\ pending' = pending \ {f}
    BY <1>10 DEF Granted, Refused, SlotResult, SlotError
  <2>2. [type |-> type, file |-> f] \in Events
    BY <1>0 DEF Events
  <2>3. events' \in Seq(Events)
    BY <1>0, <2>1, <2>2, AppendAt DEF Answered
  <2> QED
    BY <1>0, <2>1, <2>3 DEF Answered
<1>11. CASE StartSession
  BY <1>0, <1>11 DEF StartSession, Guarded
<1>12. CASE GoOnline \/ GoOffline \/ EndSession
  BY <1>0, <1>12 DEF GoOnline, GoOffline, EndSession
<1>13. CASE UNCHANGED vars
  BY <1>0, <1>13 DEF vars
<1>14. ASSUME NEW f \in asked, Misread(f) PROVE TypeOK'
  BY <1>0, <1>14 DEF Misread, SlotUnreadable
<1> QED
  BY <1>1, <1>2, <1>3, <1>4, <1>5, <1>6, <1>7, <1>8, <1>9, <1>10, <1>11, <1>12,
     <1>13, <1>14 DEF Next, Ui, Engine

LEMMA GuardStep == UploadIInv /\ [Next]_(vars) => Guarded'
<1> SUFFICES ASSUME UploadIInv, [Next]_(vars) PROVE Guarded'
  OBVIOUS
<1> USE DEF Guarded
<1>0. TypeOK /\ Guarded
  BY DEF UploadIInv
<1>1. CASE RequestSlot
  BY <1>0, <1>1 DEF RequestSlot, MayRequest
<1>2. ASSUME NEW f \in asked, Granted(f) \/ Refused(f) PROVE Guarded'
  BY <1>0, <1>2 DEF Granted, Refused, Answered, SlotResult, SlotError
<1>3. CASE StartSession
  BY <1>0, <1>3 DEF StartSession
<1>4. CASE GoOnline
  BY <1>0, <1>4 DEF GoOnline
<1>5. CASE GoOffline
  BY <1>0, <1>5 DEF GoOffline
<1>6. CASE EndSession
  BY <1>0, <1>6 DEF EndSession
<1>7. CASE UNCHANGED <<stream, pending, asked, early, misread>>
  BY <1>0, <1>7
<1>8. ASSUME NEW f \in asked, Misread(f) PROVE Guarded'
  BY <1>0, <1>8 DEF Misread, SlotUnreadable
<1> QED
  BY <1>1, <1>2, <1>3, <1>4, <1>5, <1>6, <1>7, <1>8 DEF Next, Ui, Engine, UserSend,
     TaskSend, HandleSlot, HandleError, PutDone, PutFailed, SendMessage,
     DiscardCmd, vars

LEMMA PostsStep == UploadIInv /\ [Next]_(vars) => PostsArePut'
<1> SUFFICES ASSUME UploadIInv, [Next]_(vars) PROVE PostsArePut'
  OBVIOUS
<1> USE DEF PostsArePut
<1>0. TypeOK /\ PostsArePut
  BY DEF UploadIInv
<1>1. ASSUME NEW b \in Batches, UserSend(b) PROVE PostsArePut'
  <2>1. \A i \in DOMAIN b : Request(b[i]).op # "post"
    BY BatchFacts, Commands
  <2> QED
    BY <1>0, <1>1, <2>1, Zenon DEF UserSend
<1>2. ASSUME NEW t \in tasks, TaskSend(t) PROVE PostsArePut'
  <2>1. t \in Seq(Cmds) /\ t # <<>> /\ cmds \in Seq(Cmds) /\ Rest(t) \subseteq {Tail(t)}
    BY <1>0, RestFacts DEF TypeOK
  <2>2. /\ \A i \in DOMAIN Tail(t) : i + 1 \in DOMAIN t /\ Tail(t)[i] = t[i + 1]
        /\ Head(t) = t[1] /\ 1 \in DOMAIN t /\ Head(t) \in Cmds
    BY <2>1, TailAt
  <2>3. \A u \in tasks' : u \in tasks \/ u = Tail(t)
    BY <1>2, <2>1 DEF TaskSend
  <2>4. \A u \in tasks' : \A i \in DOMAIN u : u[i].op = "post" => u[i].put \in used
    BY <1>0, <2>2, <2>3, Zenon
  <2>5. \A i \in DOMAIN cmds' : (i \in DOMAIN cmds /\ cmds'[i] = cmds[i]) \/ cmds'[i] = t[1]
    BY <1>2, <2>1, <2>2, AppendAt DEF TaskSend
  <2>6. used' = used /\ puts' = puts
    BY <1>2 DEF TaskSend
  <2> QED
    BY <1>0, <2>2, <2>4, <2>5, <2>6, Zenon
<1>3. CASE HandleSlot
  <2>1. tasks' = tasks /\ cmds' = cmds /\ used \subseteq used' /\ puts' \subseteq puts \cup (used' \ used) \cup used'
    BY <1>3 DEF HandleSlot
  <2>2. puts' \subseteq used'
    BY <1>0, <1>3 DEF HandleSlot
  <2> QED
    BY <1>0, <2>1, <2>2
<1>4. ASSUME NEW p \in puts, PutDone(p) PROVE PostsArePut'
  <2>1. p \in used /\ p \in Puts /\ Post(p).put = p
    BY <1>0, Commands DEF TypeOK
  <2>2. \A i \in DOMAIN <<Post(p)>> : <<Post(p)>>[i] = Post(p)
    BY SMT
  <2> QED
    BY <1>0, <1>4, <2>1, <2>2, Zenon DEF PutDone
<1>5. CASE /\ cmds # <<>> /\ cmds' = Tail(cmds)
           /\ UNCHANGED <<tasks, used, puts>>
  BY <1>0, <1>5, TailAt DEF TypeOK
<1>6. CASE puts' \subseteq puts /\ UNCHANGED <<tasks, used, cmds>>
  BY <1>0, <1>6
<1> QED
  BY <1>1, <1>2, <1>3, <1>4, <1>5, <1>6 DEF Next, Ui, Engine, HandleError,
     PutFailed, RequestSlot, SendMessage, DiscardCmd, TakeCmd, Granted, Refused,
     Answered, Misread, StartSession, GoOnline, GoOffline, EndSession, vars

(* A request is in one place *)

\* A place gains only what leaves the one before it, or was not yet sent.
LEMMA Stay ==
  ASSUME OnePlace, sent' = sent, InTasks' \subseteq InTasks, InCmds' \subseteq InCmds,
         asked' \subseteq asked, InEvents' \subseteq InEvents, Slots' \subseteq Slots
  PROVE  OnePlace'
BY Zenon DEF OnePlace, Apart

LEMMA ToTask ==
  ASSUME OnePlace, NEW N, N \cap sent = {}, sent' = sent \cup N,
         InTasks' \subseteq InTasks \cup N, InCmds' = InCmds, asked' = asked,
         InEvents' = InEvents, Slots' = Slots
  PROVE  OnePlace'
BY Zenon DEF OnePlace, Apart

LEMMA ToCmds ==
  ASSUME OnePlace, NEW f \in InTasks, sent' = sent,
         InTasks' \subseteq InTasks \ {f}, InCmds' \subseteq InCmds \cup {f},
         asked' = asked, InEvents' = InEvents, Slots' = Slots
  PROVE  OnePlace'
BY Zenon DEF OnePlace, Apart

LEMMA ToServer ==
  ASSUME OnePlace, NEW f \in InCmds, sent' = sent,
         InTasks' = InTasks, InCmds' \subseteq InCmds \ {f},
         asked' \subseteq asked \cup {f}, InEvents' = InEvents, Slots' = Slots
  PROVE  OnePlace'
BY Zenon DEF OnePlace, Apart

LEMMA ToEvents ==
  ASSUME OnePlace, NEW f \in asked, sent' = sent,
         InTasks' = InTasks, InCmds' = InCmds, asked' = asked \ {f},
         InEvents' \subseteq InEvents \cup {f}, Slots' = Slots
  PROVE  OnePlace'
BY Zenon DEF OnePlace, Apart

LEMMA ToSlots ==
  ASSUME OnePlace, NEW f \in InEvents, sent' = sent,
         InTasks' = InTasks, InCmds' = InCmds, asked' = asked,
         InEvents' \subseteq InEvents \ {f}, Slots' \subseteq Slots \cup {f}
  PROVE  OnePlace'
BY Zenon DEF OnePlace, Apart

LEMMA SendStages ==
  ASSUME TypeOK, Stages, NEW b \in Batches, UserSend(b)
  PROVE  Stages'
<1> DEFINE N == {b[i] : i \in DOMAIN b}
           t0 == [i \in DOMAIN b |-> Request(b[i])]
<1>1. /\ sent' = sent \cup N /\ tasks' = tasks \cup {t0}
      /\ UNCHANGED <<cmds, asked, events, used>>
  BY DEF UserSend
<1>2. /\ \A i \in DOMAIN b : b[i] \in Files /\ b[i] \notin sent
      /\ \A i, j \in DOMAIN b : b[i] = b[j] => i = j
  BY BatchFacts
<1>3. /\ DOMAIN t0 = DOMAIN b
      /\ \A i \in DOMAIN b : t0[i] = Request(b[i]) /\ Request(b[i]).file = b[i]
  BY <1>2, Commands
<1>4. \A f \in Files : AsksFor(t0, f) => f \in N /\ f \notin sent
  <2> SUFFICES ASSUME NEW f \in Files, NEW i \in DOMAIN t0, t0[i] = Request(f)
               PROVE  f \in N /\ f \notin sent
    BY DEF AsksFor
  <2>1. b[i] = f
    BY <1>3, Commands
  <2> QED
    BY <1>2, <1>3, <2>1
<1>5. UploadOnce(t0)
  <2> SUFFICES ASSUME NEW i \in DOMAIN b, NEW j \in DOMAIN b, t0[i] = t0[j]
               PROVE  i = j
    BY <1>3 DEF UploadOnce
  <2>1. b[i] = b[j]
    BY <1>3
  <2> QED
    BY <1>2, <2>1
<1> HIDE DEF t0, N
<1>6. \A u \in tasks, f \in Files : AsksFor(u, f) => f \in sent
  BY Zenon DEF Stages, OnePlace, InTasks
<1>7. OnceEach'
  <2>1. \A t \in tasks' : UploadOnce(t)
    BY <1>1, <1>5 DEF Stages, OnceEach
  <2>2. \A t, u \in tasks', f \in Files : AsksFor(t, f) /\ AsksFor(u, f) => t = u
    <3> SUFFICES ASSUME NEW t \in tasks', NEW u \in tasks', NEW f \in Files,
                        AsksFor(t, f), AsksFor(u, f)
                 PROVE  t = u
      OBVIOUS
    <3>1. (t \in tasks \/ t = t0) /\ (u \in tasks \/ u = t0)
      BY <1>1
    <3>2. CASE t \in tasks /\ u \in tasks
      BY <3>2 DEF Stages, OnceEach
    <3>3. CASE t = t0 \/ u = t0
      <4>1. f \notin sent
        BY <1>4, <3>3
      <4> QED
        BY <1>6, <3>1, <4>1
    <3> QED
      BY <3>1, <3>2, <3>3
  <2> QED
    BY <1>1, <2>1, <2>2 DEF Stages, OnceEach, UploadOnce, AsksFor
<1>8. InTasks' \subseteq InTasks \cup N
  <2>1. \A f \in Files : (\E t \in tasks' : AsksFor(t, f)) =>
                           (\E t \in tasks : AsksFor(t, f)) \/ f \in N
    BY <1>1, <1>4, Zenon
  <2> QED
    BY <2>1, Zenon DEF InTasks, AsksFor
<1>9. InCmds' = InCmds /\ InEvents' = InEvents /\ Slots' = Slots /\ asked' = asked
  BY <1>1 DEF InCmds, InEvents, Slots, AsksFor
<1>10. N \cap sent = {}
  BY <1>2, Zenon DEF N
<1>11. OnePlace'
  BY <1>1, <1>8, <1>9, <1>10, ToTask DEF Stages
<1> QED
  BY <1>7, <1>11 DEF Stages

LEMMA TaskStages ==
  ASSUME TypeOK, Stages, NEW t \in tasks, TaskSend(t)
  PROVE  Stages'
<1>1. /\ cmds' = Append(cmds, Head(t)) /\ tasks' = (tasks \ {t}) \cup Rest(t)
      /\ UNCHANGED <<sent, asked, events, used>>
  BY DEF TaskSend
<1>2. /\ t \in Seq(Cmds) /\ t # <<>> /\ Rest(t) \subseteq {Tail(t)}
      /\ cmds \in Seq(Cmds)
  BY RestFacts DEF TypeOK
<1>3. /\ \A i \in DOMAIN Tail(t) : i + 1 \in DOMAIN t /\ Tail(t)[i] = t[i + 1] /\ i + 1 # 1
      /\ \A i, j \in DOMAIN Tail(t) : i + 1 = j + 1 => i = j
      /\ Head(t) \in Cmds /\ Head(t) = t[1] /\ 1 \in DOMAIN t
  BY <1>2, TailAt
<1>4. \A i \in DOMAIN cmds' : \/ i \in DOMAIN cmds /\ cmds'[i] = cmds[i]
                              \/ i = Len(cmds) + 1 /\ cmds'[i] = t[1]
  BY <1>1, <1>2, <1>3, AppendAt
<1>5. \A f \in Files : AsksFor(Tail(t), f) => AsksFor(t, f) /\ t[1] # Request(f)
  <2> SUFFICES ASSUME NEW f \in Files, NEW i \in DOMAIN Tail(t), Tail(t)[i] = Request(f)
               PROVE  AsksFor(t, f) /\ t[1] # Request(f)
    BY DEF AsksFor
  <2>1. t[i + 1] = Request(f) /\ i + 1 \in DOMAIN t /\ i + 1 # 1
    BY <1>3
  <2>2. Request(f).op = "request"
    BY Commands
  <2> QED
    BY <1>3, <2>1, <2>2, Zenon DEF Stages, OnceEach, UploadOnce, AsksFor
<1>6. \A u \in tasks' : (u \in tasks /\ u # t) \/ u = Tail(t)
  BY <1>1, <1>2
<1>7. \A u \in tasks', f \in Files : AsksFor(u, f) =>
        /\ t[1] # Request(f)
        /\ \E v \in tasks : AsksFor(v, f) /\ ((u = v /\ u # t) \/ (u = Tail(t) /\ v = t))
  <2> SUFFICES ASSUME NEW u \in tasks', NEW f \in Files, AsksFor(u, f)
               PROVE  /\ t[1] # Request(f)
                      /\ \E v \in tasks : /\ AsksFor(v, f)
                                          /\ \/ u = v /\ u # t
                                             \/ u = Tail(t) /\ v = t
    OBVIOUS
  <2>1. CASE u = Tail(t)
    BY <1>5, <2>1
  <2>2. CASE u \in tasks /\ u # t
    <3>1. t[1] = Request(f) => AsksFor(t, f)
      BY <1>3 DEF AsksFor
    <3>2. t[1] # Request(f)
      BY <2>2, <3>1 DEF Stages, OnceEach
    <3>3. u \in tasks /\ AsksFor(u, f) /\ u # t
      BY <2>2
    <3> QED
      BY <3>2, <3>3
  <2> QED
    BY <1>6, <2>1, <2>2
<1>8. \A u, v \in tasks', f \in Files : AsksFor(u, f) /\ AsksFor(v, f) => u = v
  BY <1>7, Zenon DEF Stages, OnceEach
<1>9. UploadOnce(Tail(t))
  BY <1>3, ZenonT(60) DEF Stages, OnceEach, UploadOnce
<1>10. \A u \in tasks' : UploadOnce(u)
  BY <1>6, <1>9, Zenon DEF Stages, OnceEach
<1>11. \A f \in Files : AsksFor(cmds', f) => AsksFor(cmds, f) \/ t[1] = Request(f)
  BY <1>4, Zenon DEF AsksFor
<1>12. \A f \in Files : t[1] = Request(f) => f \in InTasks /\ f \notin InCmds /\ f \notin InTasks'
  <2> SUFFICES ASSUME NEW f \in Files, t[1] = Request(f)
               PROVE  f \in InTasks /\ f \notin InCmds /\ f \notin InTasks'
    OBVIOUS
  <2>1. f \in InTasks
    BY <1>3 DEF InTasks, AsksFor
  <2>2. f \notin InCmds
    BY <2>1, Zenon DEF Stages, OnePlace, Apart
  <2>3. f \notin InTasks'
    BY <1>7, Zenon DEF InTasks, AsksFor
  <2> QED
    BY <2>1, <2>2, <2>3
<1>13. UploadOnce(cmds')
  <2> SUFFICES ASSUME NEW i \in DOMAIN cmds', NEW j \in DOMAIN cmds',
                      cmds'[i] = cmds'[j], cmds'[i].op = "request"
               PROVE  i = j
    BY DEF UploadOnce
  <2>1. ASSUME NEW k \in DOMAIN cmds, cmds[k] = t[1], t[1].op = "request" PROVE FALSE
    <3>1. t[1] = Request(t[1].file) /\ t[1].file \in Files
      BY <1>3, <2>1, Commands
    <3> QED
      BY <1>12, <2>1, <3>1 DEF InCmds, AsksFor
  <2>2. CASE i \in DOMAIN cmds /\ j \in DOMAIN cmds /\ cmds'[i] = cmds[i] /\ cmds'[j] = cmds[j]
    BY <2>2 DEF Stages, OnceEach, UploadOnce
  <2> QED
    BY <1>4, <2>1, <2>2
<1>14. OnceEach'
  BY <1>1, <1>8, <1>10, <1>13, Zenon DEF Stages, OnceEach, UploadOnce, AsksFor
<1>15. InEvents' = InEvents /\ Slots' = Slots /\ asked' = asked /\ sent' = sent
  BY <1>1 DEF InEvents, Slots
<1>16. InTasks' \subseteq InTasks
  BY <1>7, Zenon DEF InTasks, AsksFor
<1>17. OnePlace'
  <2>1. CASE t[1].op = "request"
    <3>1. t[1] = Request(t[1].file) /\ t[1].file \in Files
      BY <1>3, <2>1, Commands
    <3> DEFINE g == t[1].file
    <3>2. g \in InTasks /\ g \notin InTasks'
      BY <1>12, <3>1
    <3>3. InCmds' \subseteq InCmds \cup {g}
      <4>1. \A f \in Files : t[1] = Request(f) => f = g
        BY Commands
      <4> QED
        BY <1>11, <4>1, Zenon DEF InCmds, AsksFor
    <3> HIDE DEF g
    <3>4. InTasks' \subseteq InTasks \ {g}
      BY <1>16, <3>2
    <3> QED
      BY <1>15, <3>2, <3>3, <3>4, ToCmds DEF Stages
  <2>2. CASE t[1].op # "request"
    <3>1. \A f \in Files : t[1] # Request(f)
      BY <2>2, Commands
    <3>2. InCmds' \subseteq InCmds
      BY <1>11, <3>1, Zenon DEF InCmds, AsksFor
    <3> QED
      BY <1>15, <1>16, <3>2, Stay DEF Stages
  <2> QED
    BY <2>1, <2>2
<1> QED
  BY <1>14, <1>17 DEF Stages

LEMMA EngineStages ==
  ASSUME TypeOK, Stages, RequestSlot \/ SendMessage \/ DiscardCmd
  PROVE  Stages'
<1>1. /\ cmds # <<>> /\ cmds' = Tail(cmds) /\ cmds \in Seq(Cmds)
      /\ UNCHANGED <<sent, tasks, events, used>>
  BY DEF RequestSlot, SendMessage, DiscardCmd, TakeCmd, TypeOK
<1>2. /\ \A i \in DOMAIN Tail(cmds) :
           i + 1 \in DOMAIN cmds /\ Tail(cmds)[i] = cmds[i + 1] /\ i + 1 # 1
      /\ \A i, j \in DOMAIN Tail(cmds) : i + 1 = j + 1 => i = j
      /\ Head(cmds) \in Cmds /\ Head(cmds) = cmds[1] /\ 1 \in DOMAIN cmds
  BY <1>1, TailAt
<1>3. UploadOnce(cmds')
  <2> SUFFICES ASSUME NEW i \in DOMAIN cmds', NEW j \in DOMAIN cmds',
                      cmds'[i] = cmds'[j], cmds'[i].op = "request"
               PROVE  i = j
    BY DEF UploadOnce
  <2>1. i + 1 = j + 1
    BY <1>1, <1>2 DEF Stages, OnceEach, UploadOnce
  <2> QED
    BY <1>1, <1>2, <2>1
<1>4. OnceEach'
  BY <1>1, <1>3 DEF Stages, OnceEach, UploadOnce, AsksFor
<1>5. \A f \in InCmds' : f \in InCmds /\ cmds[1] # Request(f)
  <2> SUFFICES ASSUME NEW f \in Files, NEW i \in DOMAIN cmds', cmds'[i] = Request(f)
               PROVE  f \in InCmds /\ cmds[1] # Request(f)
    BY DEF InCmds, AsksFor
  <2>1. i + 1 \in DOMAIN cmds /\ cmds[i + 1] = Request(f) /\ i + 1 # 1
    BY <1>1, <1>2
  <2>2. Request(f).op = "request"
    BY Commands
  <2> QED
    BY <1>2, <2>1, <2>2, Zenon DEF Stages, OnceEach, UploadOnce, InCmds, AsksFor
<1>6. InTasks' = InTasks /\ InEvents' = InEvents /\ Slots' = Slots /\ sent' = sent
  BY <1>1 DEF InTasks, InEvents, Slots, AsksFor
<1>7. OnePlace'
  <2>1. CASE asked' \subseteq asked
    BY <1>5, <1>6, <2>1, Stay DEF Stages
  <2>2. CASE ~(asked' \subseteq asked)
    <3> DEFINE g == Head(cmds).file
    <3>1. Head(cmds).op = "request" /\ asked' \subseteq asked \cup {g}
      BY <2>2 DEF RequestSlot, SendMessage, DiscardCmd, TakeCmd
    <3>2. g \in Files /\ cmds[1] = Request(g)
      BY <1>2, <3>1, Commands
    <3> HIDE DEF g
    <3>3. g \in InCmds
      BY <1>2, <3>2 DEF InCmds, AsksFor
    <3>4. InCmds' \subseteq InCmds \ {g}
      BY <1>5, <3>2
    <3> QED
      BY <1>6, <3>1, <3>3, <3>4, ToServer DEF Stages
  <2> QED
    BY <2>1, <2>2
<1> QED
  BY <1>4, <1>7 DEF Stages

LEMMA AnswerStages ==
  ASSUME TypeOK, Stages, NEW f \in asked, NEW type \in {"slot", "error"},
         Answered(f, type)
  PROVE  Stages'
<1> DEFINE e == [type |-> type, file |-> f]
<1>1. /\ asked' = asked \ {f} /\ events' = Append(events, e)
      /\ UNCHANGED <<sent, tasks, cmds, used>>
  BY DEF Answered
<1>2. e \in Events /\ events \in Seq(Events) /\ f \in Files /\ e.file = f
  BY DEF Events, TypeOK
<1> HIDE DEF e
<1>3. \A i \in DOMAIN events' : \/ i \in DOMAIN events /\ events'[i] = events[i]
                                \/ i = Len(events) + 1 /\ events'[i] = e
  BY <1>1, <1>2, AppendAt
<1>4. f \notin InEvents
  BY DEF Stages, OnePlace, Apart
<1>5. \A i \in DOMAIN events : events[i].file # f
  BY <1>2, <1>4 DEF InEvents
<1>6. \A i, j \in DOMAIN events' : events'[i].file = events'[j].file => i = j
  <2> SUFFICES ASSUME NEW i \in DOMAIN events', NEW j \in DOMAIN events',
                      events'[i].file = events'[j].file
               PROVE  i = j
    OBVIOUS
  <2> QED
    BY <1>2, <1>3, <1>5 DEF Stages, OnceEach
<1>7. OnceEach'
  BY <1>1, <1>6 DEF Stages, OnceEach, UploadOnce, AsksFor
<1>8. InEvents' \subseteq InEvents \cup {f}
  BY <1>2, <1>3, Zenon DEF InEvents
<1>9. InTasks' = InTasks /\ InCmds' = InCmds /\ Slots' = Slots /\ sent' = sent
  BY <1>1 DEF InTasks, InCmds, Slots, AsksFor
<1>10. OnePlace'
  BY <1>1, <1>8, <1>9, ToEvents DEF Stages
<1> QED
  BY <1>7, <1>10 DEF Stages

\* What taking an answer does to the answers that wait.
LEMMA TakeAnswer ==
  ASSUME TypeOK, Stages, events # <<>>, events' = Tail(events)
  PROVE  /\ Head(events).file \in InEvents /\ Head(events) \in Events
         /\ InEvents' \subseteq InEvents \ {Head(events).file}
         /\ \A i, j \in DOMAIN events' : events'[i].file = events'[j].file => i = j
<1>1. events \in Seq(Events)
  BY DEF TypeOK
<1>2. /\ \A i \in DOMAIN Tail(events) :
           i + 1 \in DOMAIN events /\ Tail(events)[i] = events[i + 1] /\ i + 1 # 1
      /\ \A i, j \in DOMAIN Tail(events) : i + 1 = j + 1 => i = j
      /\ Head(events) \in Events /\ Head(events) = events[1] /\ 1 \in DOMAIN events
  BY <1>1, TailAt
<1>3. Head(events).file \in Files
  BY <1>2 DEF Events
<1>4. Head(events).file \in InEvents
  BY <1>2, <1>3 DEF InEvents
<1>5. \A g \in InEvents' : g \in InEvents /\ g # Head(events).file
  <2> SUFFICES ASSUME NEW g \in Files, NEW i \in DOMAIN events', events'[i].file = g
               PROVE  g \in InEvents /\ g # Head(events).file
    BY DEF InEvents
  <2>1. i + 1 \in DOMAIN events /\ events[i + 1].file = g /\ i + 1 # 1
    BY <1>2
  <2> QED
    BY <1>2, <2>1 DEF Stages, OnceEach, InEvents
<1>6. \A i, j \in DOMAIN events' : events'[i].file = events'[j].file => i = j
  <2> SUFFICES ASSUME NEW i \in DOMAIN events', NEW j \in DOMAIN events',
                      events'[i].file = events'[j].file
               PROVE  i = j
    OBVIOUS
  <2>1. i + 1 = j + 1
    BY <1>2 DEF Stages, OnceEach
  <2> QED
    BY <1>2, <2>1
<1> QED
  BY <1>2, <1>4, <1>5, <1>6

LEMMA SlotStages ==
  ASSUME TypeOK, Stages, HandleSlot
  PROVE  Stages'
<1> DEFINE g == Head(events).file
<1>1. /\ events # <<>> /\ events' = Tail(events)
      /\ UNCHANGED <<sent, tasks, cmds, asked>>
  BY DEF HandleSlot
<1>2. /\ g \in InEvents /\ InEvents' \subseteq InEvents \ {g}
      /\ \A i, j \in DOMAIN events' : events'[i].file = events'[j].file => i = j
  BY <1>1, TakeAnswer
<1>3. Slots' \subseteq Slots \cup {g}
  <2>1. \A p \in used' : p \in used \/ p.slot = g
    BY DEF HandleSlot, Put
  <2> HIDE DEF g
  <2> QED
    BY <2>1, Zenon DEF Slots
<1> HIDE DEF g
<1>4. OnceEach'
  BY <1>1, <1>2 DEF Stages, OnceEach, UploadOnce, AsksFor
<1>5. InTasks' = InTasks /\ InCmds' = InCmds
  BY <1>1 DEF InTasks, InCmds, AsksFor
<1>6. OnePlace'
  BY <1>1, <1>2, <1>3, <1>5, ToSlots DEF Stages
<1> QED
  BY <1>4, <1>6 DEF Stages

LEMMA PutDoneStages ==
  ASSUME TypeOK, Stages, NEW p \in puts, PutDone(p)
  PROVE  Stages'
<1> DEFINE t0 == <<Post(p)>>
<1>1. /\ tasks' = tasks \cup {t0}
      /\ UNCHANGED <<sent, cmds, asked, events, used>>
  BY DEF PutDone
<1>2. DOMAIN t0 = {1} /\ t0[1] = Post(p)
  BY SMT
<1>3. UploadOnce(t0)
  BY <1>2, Zenon DEF UploadOnce
<1>4. \A f \in Files : ~AsksFor(t0, f)
  <2>1. Post(p).op = "post" /\ \A f \in Files : Request(f).op = "request"
    BY Commands DEF TypeOK
  <2> QED
    BY <1>2, <2>1 DEF AsksFor
<1> HIDE DEF t0
<1>5. OnceEach'
  <2>1. \A t, u \in tasks', f \in Files : AsksFor(t, f) /\ AsksFor(u, f) => t = u
    BY <1>1, <1>4, ZenonT(60) DEF Stages, OnceEach
  <2> QED
    BY <1>1, <1>3, <2>1 DEF Stages, OnceEach, UploadOnce, AsksFor
<1>6. InTasks' \subseteq InTasks
  BY <1>1, <1>4, Zenon DEF InTasks, AsksFor
<1>7. InCmds' = InCmds /\ InEvents' = InEvents /\ Slots' = Slots
  BY <1>1 DEF InCmds, InEvents, Slots, AsksFor
<1>8. OnePlace'
  BY <1>1, <1>6, <1>7, Stay DEF Stages
<1> QED
  BY <1>5, <1>8 DEF Stages

LEMMA StagesStep == UploadIInv /\ [Next]_(vars) => Stages'
<1> SUFFICES ASSUME TypeOK, Stages, Guarded, [Next]_(vars) PROVE Stages'
  BY DEF UploadIInv
<1>1. ASSUME NEW b \in Batches, UserSend(b) PROVE Stages'
  BY <1>1, SendStages
<1>2. ASSUME NEW t \in tasks, TaskSend(t) PROVE Stages'
  BY <1>2, TaskStages
<1>3. CASE HandleSlot
  BY <1>3, SlotStages
<1>4. CASE HandleError
  <2>1. /\ events # <<>> /\ events' = Tail(events)
        /\ UNCHANGED <<sent, tasks, cmds, asked, used>>
    BY <1>4 DEF HandleError
  <2>2. /\ InEvents' \subseteq InEvents
        /\ \A i, j \in DOMAIN events' : events'[i].file = events'[j].file => i = j
    BY <2>1, TakeAnswer
  <2>3. InTasks' = InTasks /\ InCmds' = InCmds /\ Slots' = Slots
    BY <2>1 DEF InTasks, InCmds, Slots, AsksFor
  <2>4. OnePlace'
    BY <2>1, <2>2, <2>3, Stay DEF Stages
  <2> QED
    BY <2>1, <2>2, <2>4 DEF Stages, OnceEach, UploadOnce, AsksFor
<1>5. ASSUME NEW p \in puts, PutDone(p) PROVE Stages'
  BY <1>5, PutDoneStages
<1>6. CASE RequestSlot \/ SendMessage \/ DiscardCmd
  BY <1>6, EngineStages
<1>7. ASSUME NEW f \in asked, Granted(f) \/ Refused(f) PROVE Stages'
  <2>1. PICK type \in {"slot", "error"} : Answered(f, type)
    BY <1>7 DEF Granted, Refused
  <2> QED
    BY <2>1, AnswerStages
<1>8. CASE /\ asked' \subseteq asked
           /\ UNCHANGED <<sent, tasks, cmds, events, used>>
  <2>1. InTasks' = InTasks /\ InCmds' = InCmds /\ InEvents' = InEvents /\ Slots' = Slots
    BY <1>8 DEF InTasks, InCmds, InEvents, Slots, AsksFor
  <2>2. OnePlace'
    BY <1>8, <2>1, Stay DEF Stages
  <2> QED
    BY <1>8, <2>2 DEF Stages, OnceEach, UploadOnce, AsksFor
<1> QED
  BY <1>1, <1>2, <1>3, <1>4, <1>5, <1>6, <1>7, <1>8 DEF Next, Ui, Engine,
     PutFailed, Misread, StartSession, GoOnline, GoOffline, EndSession, vars

(* A file is put once, into a slot of its own *)

LEMMA PutStep == UploadIInv /\ [Next]_(vars) => Unput' /\ PutOnce'
<1> SUFFICES ASSUME UploadIInv, [Next]_(vars) PROVE Unput' /\ PutOnce'
  OBVIOUS
<1>0. TypeOK /\ Stages /\ Unput /\ PutOnce
  BY DEF UploadIInv
<1>1. ASSUME NEW b \in Batches, UserSend(b) PROVE Unput' /\ PutOnce'
  <2>1. b[1] \in Files /\ b[1] \notin sent /\ b[1] \in sent'
    BY <1>1, BatchFacts DEF UserSend
  <2>2. sent \subseteq sent' /\ used' = used /\ upload' \in {upload, b[1]}
    BY <1>1, Zenon DEF UserSend
  <2> QED
    BY <1>0, <2>1, <2>2, Zenon DEF Unput, PutOnce
<1>2. CASE HandleSlot
  <2>1. CASE upload = None
    BY <1>0, <1>2, <2>1 DEF HandleSlot, Unput, PutOnce
  <2>2. CASE upload # None
    <3> DEFINE p == Put(Head(events).file, upload)
    <3>1. used' = used \cup {p} /\ upload' = None /\ sent' = sent
      BY <1>2, <2>2 DEF HandleSlot, Taken
    <3>2. p.file = upload /\ p.slot = Head(events).file
      BY DEF Put
    <3>3. Head(events).file \notin Slots
      <4>1. Head(events).file \in InEvents
        BY <1>0, <1>2, TakeAnswer DEF HandleSlot
      <4> QED
        BY <1>0, <4>1 DEF Stages, OnePlace, Apart
    <3> HIDE DEF p
    <3>4. \A q \in used : q.file # p.file /\ q.slot # p.slot
      BY <1>0, <3>2, <3>3, Zenon DEF Unput, Slots
    <3>5. PutOnce'
      BY <1>0, <3>1, <3>4, Zenon DEF PutOnce
    <3>6. \A q \in used' : q.file \in sent /\ q.file # None
      <4>1. p.file \in sent /\ p.file # None
        BY <1>0, <2>2, <3>2 DEF Unput
      <4>2. \A q \in used : q.file \in sent /\ q.file # None
        BY <1>0 DEF Unput, TypeOK, Puts
      <4> QED
        BY <3>1, <4>1, <4>2
    <3>7. Unput'
      BY <3>1, <3>6 DEF Unput
    <3> QED
      BY <3>5, <3>7
  <2> QED
    BY <2>1, <2>2
<1>3. CASE UNCHANGED <<sent, upload, used>>
  BY <1>0, <1>3 DEF Unput, PutOnce
<1> QED
  BY <1>1, <1>2, <1>3 DEF Next, Ui, Engine, TaskSend, HandleError, PutDone,
     PutFailed, RequestSlot, SendMessage, DiscardCmd, Granted, Refused, Answered,
     Misread, StartSession, GoOnline, GoOffline, EndSession, vars

LEMMA UploadStep == UploadIInv /\ [Next]_(vars) => UploadIInv'
  BY TypeStep, GuardStep, PostsStep, StagesStep, PutStep DEF UploadIInv

LEMMA UploadKept == UploadIInv => TypeOK /\ PutOnce /\ GuardIsReleased
  BY DEF UploadIInv, Guarded, GuardIsReleased

-----------------------------------------------------------------------------
(* The composite: a step is one of the component that runs, and each of the *)
(* inductive invariants holds, whichever component that is.                *)

LEMMA AlwaysSettings == AllSpec => []SettingsInv
<1>1. AllInit => SettingsInv
  BY SettingsInit, Zenon DEF AllInit
<1>2. SettingsInv /\ [AllNext]_allVars => SettingsInv'
  <2> SUFFICES ASSUME SettingsInv, [AllNext]_allVars PROVE SettingsInv'
    OBVIOUS
  <2>1. CASE SE!Next
    BY <2>1, SettingsStep, Zenon
  <2>2. CASE UNCHANGED settingsState
    <3>1. UNCHANGED SE!vars
      BY <2>2 DEF settingsState, SE!vars, SE!loginVars, SE!settingsVars, SE!storeVars,
         SE!engineVars, SE!historyVars, SE!bounds
    <3> QED
      BY <3>1, SettingsStutter, Zenon
  <2> QED
    BY <2>1, <2>2, Zenon DEF AllNext, allVars
<1> QED
  BY <1>1, <1>2, PTL DEF AllSpec

LEMMA AlwaysBlocking == AllSpec => []BlockingInv
<1>1. AllInit => BlockingInv
  BY BlockingInit, Zenon DEF AllInit
<1>2. BlockingInv /\ [AllNext]_allVars => BlockingInv'
  <2> SUFFICES ASSUME BlockingInv, [AllNext]_allVars PROVE BlockingInv'
    OBVIOUS
  <2>1. CASE BL!Next
    BY <2>1, BlockingStep, Zenon
  <2>2. CASE UNCHANGED blockingState
    <3>1. UNCHANGED BL!vars
      BY <2>2 DEF blockingState, BL!vars, BL!uiVars, BL!engineVars, BL!stream, BL!serverVars,
         BL!history, BL!bounds
    <3> QED
      BY <3>1, BlockingStutter, Zenon
  <2> QED
    BY <2>1, <2>2, Zenon DEF AllNext, allVars
<1> QED
  BY <1>1, <1>2, PTL DEF AllSpec

LEMMA AlwaysAccounts == AllSpec => []AccountsInv
<1>1. AllInit => AccountsInv
  BY AccountsInit, Zenon DEF AllInit
<1>2. AccountsInv /\ [AllNext]_allVars => AccountsInv'
  <2> SUFFICES ASSUME AccountsInv, [AllNext]_allVars PROVE AccountsInv'
    OBVIOUS
  <2>1. CASE AC!Next
    BY <2>1, AccountsStep, Zenon
  <2>2. CASE UNCHANGED accountsState
    <3>1. UNCHANGED AC!vars
      BY <2>2 DEF accountsState, AC!vars, AC!uiVars, AC!mgrVars, AC!multi, AC!bounds
    <3> QED
      BY <3>1, AccountsStutter, Zenon
  <2> QED
    BY <2>1, <2>2, Zenon DEF AllNext, allVars
<1> QED
  BY <1>1, <1>2, PTL DEF AllSpec

LEMMA AlwaysProfile == AllSpec => []ProfileInv
<1>1. AllInit => ProfileInv
  BY ProfileInit, Zenon DEF AllInit
<1>2. ProfileInv /\ [AllNext]_allVars => ProfileInv'
  <2> SUFFICES ASSUME ProfileInv, [AllNext]_allVars PROVE ProfileInv'
    OBVIOUS
  <2>1. CASE PR!Next
    BY <2>1, ProfileStep, Zenon
  <2>2. CASE UNCHANGED profileState
    <3>1. UNCHANGED PR!vars
      BY <2>2 DEF profileState, PR!vars, PR!uiVars, PR!engineVars, PR!streamVars, PR!history,
         PR!bounds
    <3> QED
      BY <3>1, ProfileStutter, Zenon
  <2> QED
    BY <2>1, <2>2, Zenon DEF AllNext, allVars
<1> QED
  BY <1>1, <1>2, PTL DEF AllSpec

LEMMA AlwaysQueries == AllSpec => []QueriesInv
<1>1. AllInit => QueriesInv
  BY QueriesInit, Zenon DEF AllInit
<1>2. QueriesInv /\ [AllNext]_allVars => QueriesInv'
  <2> SUFFICES ASSUME QueriesInv, [AllNext]_allVars PROVE QueriesInv'
    OBVIOUS
  <2>1. CASE QU!Next
    BY <2>1, QueriesStep, Zenon
  <2>2. CASE UNCHANGED queriesState
    <3>1. UNCHANGED QU!vars
      BY <2>2 DEF queriesState, QU!vars, QU!screenVars, QU!engineVars, QU!wireVars, QU!history
    <3> QED
      BY <3>1, QueriesStutter, Zenon
  <2> QED
    BY <2>1, <2>2, Zenon DEF AllNext, allVars
<1> QED
  BY <1>1, <1>2, PTL DEF AllSpec

LEMMA AlwaysAvatars == AllSpec => []AvatarsInv
<1>1. AllInit => AvatarsInv
  BY AvatarsInit, Zenon DEF AllInit
<1>2. AvatarsInv /\ [AllNext]_allVars => AvatarsInv'
  <2> SUFFICES ASSUME AvatarsInv, [AllNext]_allVars PROVE AvatarsInv'
    OBVIOUS
  <2>1. CASE AV!Next
    BY <2>1, AvatarsStep, Zenon
  <2>2. CASE UNCHANGED avatarsState
    BY <2>2, AvatarsStutter DEF avatarsState, AV!avVars
  <2> QED
    BY <2>1, <2>2, Zenon DEF AllNext, allVars
<1> QED
  BY <1>1, <1>2, PTL DEF AllSpec

LEMMA AlwaysRegistration == AllSpec => []RegistrationInv
<1>1. AllInit => RegistrationInv
  BY RegistrationInit, Zenon DEF AllInit
<1>2. RegistrationInv /\ [AllNext]_allVars => RegistrationInv'
  <2> SUFFICES ASSUME RegistrationInv, [AllNext]_allVars PROVE RegistrationInv'
    OBVIOUS
  <2>1. CASE RE!Next
    BY <2>1, RegistrationStep, Zenon
  <2>2. CASE UNCHANGED registrationState
    BY <2>2, RegistrationStutter DEF registrationState, RE!regVars
  <2> QED
    BY <2>1, <2>2, Zenon DEF AllNext, allVars
<1> QED
  BY <1>1, <1>2, PTL DEF AllSpec

LEMMA AlwaysDisco == AllSpec => []DiscoInv
<1>1. AllInit => DiscoInv
  BY DiscoInit, Zenon DEF AllInit
<1>2. DiscoInv /\ [AllNext]_allVars => DiscoInv'
  <2> SUFFICES ASSUME DiscoInv, [AllNext]_allVars PROVE DiscoInv'
    OBVIOUS
  <2>1. CASE DI!Next
    BY <2>1, DiscoStep, Zenon
  <2>2. CASE UNCHANGED discoState
    BY <2>2, DiscoStutter DEF discoState, DI!diVars
  <2> QED
    BY <2>1, <2>2, Zenon DEF AllNext, allVars
<1> QED
  BY <1>1, <1>2, PTL DEF AllSpec

LEMMA AlwaysDial == AllSpec => []DialInv
<1>1. AllInit => DialInv
  BY DialInit, Zenon DEF AllInit
<1>2. DialInv /\ [AllNext]_allVars => DialInv'
  <2> SUFFICES ASSUME DialInv, [AllNext]_allVars PROVE DialInv'
    OBVIOUS
  <2>1. CASE DL!Next
    BY <2>1, DialStep, Zenon
  <2>2. CASE UNCHANGED dialState
    BY <2>2, DialStutter DEF dialState, DL!vars
  <2> QED
    BY <2>1, <2>2, Zenon DEF AllNext, allVars
<1> QED
  BY <1>1, <1>2, PTL DEF AllSpec

LEMMA AlwaysVault == AllSpec => []VaultInv
<1>1. AllInit => VaultInv
  BY VaultInit, Zenon DEF AllInit
<1>2. VaultInv /\ [AllNext]_allVars => VaultInv'
  <2> SUFFICES ASSUME VaultInv, [AllNext]_allVars PROVE VaultInv'
    OBVIOUS
  <2>1. CASE VA!Next
    BY <2>1, VaultStep, Zenon
  <2>2. CASE UNCHANGED vaultState
    BY <2>2, VaultStutter DEF vaultState, VA!vaVars
  <2> QED
    BY <2>1, <2>2, Zenon DEF AllNext, allVars
<1> QED
  BY <1>1, <1>2, PTL DEF AllSpec

LEMMA AlwaysUpload == AllSpec => []UploadIInv
<1>1. AllInit => UploadIInv
  BY UploadInit, Zenon DEF AllInit
<1>2. UploadIInv /\ [AllNext]_allVars => UploadIInv'
  <2> SUFFICES ASSUME UploadIInv, [AllNext]_allVars PROVE UploadIInv'
    OBVIOUS
  <2>1. CASE Next
    BY <2>1, UploadStep, Zenon
  <2>2. CASE UNCHANGED vars
    BY <2>2, UploadStep DEF vars
  <2> QED
    BY <2>1, <2>2, Zenon DEF AllNext, allVars
<1> QED
  BY <1>1, <1>2, PTL DEF AllSpec

\* Every variable of the services keeps its type: in particular the server owes
\* answers only for requests that are pending, and only what was put is posted.
THEOREM ServicesTypeCorrect == AllSpec => []AllTypesOK
<1>1. /\ SettingsInv => SE!TypeOK
      /\ BlockingInv => BL!TypeOK
      /\ AccountsInv => AC!TypeOK
      /\ ProfileInv => PR!TypeOK
      /\ QueriesInv => QU!TypeOK
      /\ AvatarsInv => AV!TypeOK
      /\ RegistrationInv => RE!TypeOK
      /\ DiscoInv => DI!TypeOK
      /\ DialInv => DL!TypeOK
      /\ VaultInv => VA!TypeOK
      /\ UploadIInv => TypeOK
  BY SettingsTyped, BlockingTyped, AccountsTyped, ProfileTyped, QueriesTyped, AvatarsTyped,
     RegistrationTyped, DiscoTyped, DialTyped, VaultTyped, UploadKept, Zenon
<1>2. /\ SE!TypeOK /\ BL!TypeOK /\ AC!TypeOK /\ PR!TypeOK /\ QU!TypeOK /\ AV!TypeOK
      /\ RE!TypeOK /\ DI!TypeOK /\ DL!TypeOK /\ VA!TypeOK /\ TypeOK
      => AllTypesOK
  BY DEF AllTypesOK
<1> QED
  BY <1>1, <1>2, AlwaysSettings, AlwaysBlocking, AlwaysAccounts, AlwaysProfile, AlwaysQueries,
     AlwaysAvatars, AlwaysRegistration, AlwaysDisco, AlwaysDial, AlwaysVault, AlwaysUpload, PTL

\* No file is put twice and no slot is used twice, however many attachments are
\* sent at once and however late the slots come (upload.rs, on_iq_result).
THEOREM PutsAreUnique == AllSpec => []PutOnce
  BY UploadKept, AlwaysUpload, PTL

\* While the session is online the guard on concurrent requests is shut only by a
\* request whose answer the server owes, that was made without a stream, or whose
\* result had no slot to read (file_upload.rs, on_slot_result).
THEOREM GuardAlwaysReleased == AllSpec => []GuardIsReleased
  BY UploadKept, AlwaysUpload, PTL

\* What the user chose last is what the settings and the disk have, although screens
\* work on copies and the server's mode of the archive is saved over the user's; but
\* for a setting that an older screen, to which the user went back, has otherwise
\* (mod.rs, Message::Settings; navigation.rs, go_back; MamPrefsReceived).
THEOREM ChoicesAreKept == AllSpec => []ChoiceKept
<1>1. SettingsInv => ChoiceKept
  BY SettingsChosen, Zenon DEF ChoiceKept
<1> QED
  BY <1>1, AlwaysSettings, PTL

\* When nothing is on its way, the copy of the session (BlockingManager) is the
\* list of the server, whoever changed it and in whatever order pushes and the
\* answer to the fetch came; and nothing of a peer that has been on that list
\* since the session came up gets through: the results of the archive, which the
\* server does not filter, come behind the list on_stanza_received filters by.
THEOREM BlockedStaysOut == AllSpec => []BlockedAgrees
<1>1. BlockingInv => BlockedAgrees
  BY BlockingAgreed, Zenon DEF BlockedAgrees
<1> QED
  BY <1>1, AlwaysBlocking, PTL

\* The active account is one that is registered, whichever accounts are added,
\* removed and switched to (account_state.rs, switch_to and remove_account).
THEOREM ActiveStaysRegistered == AllSpec => []ActiveIsRegistered
<1>1. AccountsInv => AC!ActiveIsRegistered
  BY Zenon DEF AccountsInv
<1> QED
  BY <1>1, AlwaysAccounts, PTL DEF ActiveIsRegistered

\* A contact is shown with a picture of that contact, and the vCard of an address,
\* bare or with a resource, is asked for once, whatever brings the address up and in
\* whatever order the answers come (avatar.rs, on_vcard_result; xmpp_events.rs,
\* RosterReceived, PresenceUpdated).
THEOREM FacesAreTheirs == AllSpec => []AvatarsAgree
<1>1. AvatarsInv /\ ProfileInv => AvatarsAgree
  BY AvatarsTheirs, ProfileOnce, Zenon DEF AvatarsAgree
<1> QED
  BY <1>1, AlwaysAvatars, AlwaysProfile, PTL

\* Each registration that the engine begins ends with one word to the window,
\* however it ends (engine.rs, run_registration_session).
THEOREM RegistrationsEnd == AllSpec => []RegistrationEnds
<1>1. RegistrationInv => RE!RegistrationEnds
  BY Zenon DEF RegistrationInv
<1> QED
  BY <1>1, AlwaysRegistration, PTL DEF RegistrationEnds

\* A command is Executing only while its own request or answer is on its way, or
\* after that was lost, refused or without a command; and the answer to a disco#info
\* request agrees with the digest that was announced (adhoc.rs, on_result; disco.rs,
\* compute_ver_hash).
THEOREM QuestionsAnswered == AllSpec => []AnswersAgree
<1>1. QueriesInv /\ DiscoInv => AnswersAgree
  BY QueriesAnswered, DiscoMatches, Zenon DEF AnswersAgree
<1> QED
  BY <1>1, AlwaysQueries, AlwaysDisco, PTL

\* A session, however often it was begun again, connects to what the user chose at
\* the last login (engine.rs, run_session; login.rs, connect_config).
THEOREM SessionsDialAsTold == AllSpec => []DialsAsTold
<1>1. DialInv => DialsAsTold
  BY DialTold, Zenon DEF DialsAsTold
<1> QED
  BY <1>1, AlwaysDial, PTL

\* A clean-up that the server carries out leaves no registration for push but that of
\* this session, and an enable it carries out stays so, whatever it refuses besides and
\* in whatever session the others were cut off; and who is told that the password was
\* changed, or that the account is gone, is told the truth (engine.rs, Online;
\* account.rs, on_iq_result).
THEOREM ServerIsKeptRight == AllSpec => []ServerIsRight
<1>1. VaultInv => ServerIsRight
  BY VaultServes, Zenon DEF ServerIsRight
<1> QED
  BY <1>1, AlwaysVault, PTL
=============================================================================
