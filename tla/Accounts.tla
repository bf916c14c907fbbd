------------------------------- MODULE Accounts -------------------------------
(***************************************************************************)
(* Several accounts: the accounts App has registered and which of them is  *)
(* active, the indicator of the chat screen, the switcher, and the manager *)
(* of further engines.  One engine, the main one, is what the login screen *)
(* talks to: logging in to another account ends the session of the first.  *)
(* The switcher can be opened from the palette over any screen, a switcher *)
(* too; its list is made when it is opened.                                *)
(***************************************************************************)
EXTENDS Naturals, Sequences, FiniteSets

CONSTANTS
  Users,     \* bare addresses of the user
  Ghost,     \* no account
  MaxDeeds,  \* bound: what the user does
  MaxBinds,  \* bound: sessions that come up
  MaxMail    \* bound: messages of background conversations

VARIABLES
  base,      \* the screen under the switchers: "Login" or "Chat"
  switchers, \* the switchers on top of it: their entries and what they mark
  accounts,  \* AccountStateManager.accounts: unread_total of each
  active,    \* AccountStateManager.active
  shown,     \* the indicator of the chat: active_account_id, account_unread
  adding,    \* is_adding_account
  focus,     \* multi_engine.active_account
  engines,   \* keys of multi_engine.engines
  passwords, \* keys of credentials.json
  last,      \* the account of last_connect_cfg
  deeds, binds, mail \* history: counters for the bounds

uiVars  == <<base, switchers, shown>>
mgrVars == <<accounts, active>>
multi   == <<adding, focus, engines>>
bounds  == <<deeds, binds, mail>>
vars    == <<uiVars, mgrVars, multi, passwords, last, bounds>>

\* An address as typed or bound: with a resource or without.
Jids == [user : Users, full : BOOLEAN]
Bare(u) == [user |-> u, full |-> FALSE]
Nothing == [id |-> Ghost, unread |-> 0]

Deeds  == deeds < MaxDeeds /\ deeds' = deeds + 1 /\ UNCHANGED <<binds, mail>>
OnTop  == switchers # <<>>
Top    == switchers[Len(switchers)]
Below  == SubSeq(switchers, 1, Len(switchers) - 1)
Unread == IF active = Ghost THEN 0 ELSE accounts[active]

Init ==
  /\ base = "Login" /\ switchers = <<>>
  /\ accounts = [u \in {} |-> 0] /\ active = Ghost /\ shown = Nothing
  /\ adding = FALSE /\ focus = Ghost /\ engines = {} /\ passwords = {}
  /\ last = Ghost
  /\ deeds = 0 /\ binds = 0 /\ mail = 0

-----------------------------------------------------------------------------
(* AccountStateManager.                                                      *)

\* (mutant) Whoever is asked for becomes active.
SwitchToAny(u) == u

\* switch_to: only an account that is registered.
SwitchTo(u) == IF u \in DOMAIN accounts THEN u ELSE active

\* add_account: the first one becomes active.
AddAccount(u) ==
  /\ accounts' = [x \in DOMAIN accounts \cup {u} |->
                    IF x \in DOMAIN accounts THEN accounts[x] ELSE 0]
  /\ active' = IF DOMAIN accounts = {} THEN u ELSE active

\* remove_account
RemoveAccount(u) ==
  /\ accounts' = [x \in DOMAIN accounts \ {u} |-> accounts[x]]
  /\ active' = IF active = u THEN Ghost ELSE active

-----------------------------------------------------------------------------
(* The switcher.                                                             *)

\* go_to_account_switcher
GoToAccountSwitcher ==
  /\ Deeds
  /\ switchers' = Append(switchers, [entries |-> DOMAIN accounts, marked |-> active])
  /\ UNCHANGED <<base, shown, mgrVars, multi, passwords, last>>

\* SwitchTo: a row. The chat lies under the switcher and is not told.
PickAccount(u) ==
  /\ OnTop /\ u \in Top.entries /\ Deeds
  /\ switchers' = Append(Below, [Top EXCEPT !.marked = u])
  /\ active' = SwitchTo(u) /\ focus' = u
  /\ UNCHANGED <<base, shown, accounts, adding, engines, passwords, last>>

\* Remove: the engine ignores the command.
PickRemove(u) ==
  /\ OnTop /\ u \in Top.entries /\ Deeds
  /\ LET rest == Top.entries \ {u} IN
       \E m \in IF Top.marked # u THEN {Top.marked}
                ELSE IF rest = {} THEN {Ghost} ELSE rest :
         switchers' = Append(Below, [entries |-> rest, marked |-> m])
  /\ RemoveAccount(u)
  /\ UNCHANGED <<base, shown, multi, passwords, last>>

\* Add account: a login screen, for good.
PickAdd ==
  /\ OnTop /\ Deeds
  /\ base' = "Login" /\ switchers' = <<>> /\ shown' = Nothing /\ adding' = TRUE
  /\ UNCHANGED <<mgrVars, focus, engines, passwords, last>>

Close ==
  /\ OnTop /\ Deeds
  /\ switchers' = Below
  /\ UNCHANGED <<base, shown, mgrVars, multi, passwords, last>>

\* logout
Logout ==
  /\ (OnTop \/ base = "Chat") /\ Deeds
  /\ base' = "Login" /\ switchers' = <<>> /\ shown' = Nothing
  /\ IF active = Ghost THEN UNCHANGED mgrVars ELSE RemoveAccount(active)
  /\ UNCHANGED <<multi, passwords, last>>

-----------------------------------------------------------------------------
(* Events of the main engine.                                                *)

\* start_account: the credential is looked up under the address as bound; no
\* second engine for the same one.
StartAccount(j) == IF j \in passwords' THEN engines \cup {j} ELSE engines

\* Connected, for what was typed in the login form, or retried: the address it
\* is bound to has a resource, the one asked for or a fresh one.
Connected(u) ==
  /\ base = "Login" \/ u = last
  /\ binds < MaxBinds /\ binds' = binds + 1 /\ UNCHANGED <<deeds, mail>>
  /\ last' = u
  /\ \E typed \in {j \in Jids : j.user = u} :
       passwords' = IF base = "Login" /\ ~OnTop THEN passwords \cup {typed} ELSE passwords
  /\ AddAccount(u)
  /\ engines' = IF adding THEN StartAccount([user |-> u, full |-> TRUE]) ELSE engines
  /\ focus' = IF adding THEN u ELSE focus
  /\ adding' = FALSE
  /\ shown' = [id |-> u, unread |-> IF active' = Ghost THEN 0 ELSE accounts'[active']]
  /\ base' = "Chat" /\ switchers' = <<>>

\* MessageReceived of a conversation that is not in front: counted for the
\* active account, whose session it may not be.
MessageReceived ==
  /\ base = "Chat" /\ ~OnTop /\ mail < MaxMail /\ mail' = mail + 1
  /\ accounts' = IF active = Ghost THEN accounts ELSE [accounts EXCEPT ![active] = @ + 1]
  /\ shown' = [id |-> active, unread |-> IF active = Ghost THEN 0 ELSE accounts'[active]]
  /\ UNCHANGED <<base, switchers, active, multi, passwords, last, deeds, binds>>

\* Disconnected
Disconnected ==
  /\ base = "Chat" /\ ~OnTop
  /\ base' = "Login" /\ shown' = Nothing
  /\ UNCHANGED <<switchers, mgrVars, multi, passwords, last, bounds>>

Next ==
  \/ GoToAccountSwitcher \/ PickAdd \/ Close \/ Logout \/ MessageReceived \/ Disconnected
  \/ \E u \in Users : PickAccount(u) \/ PickRemove(u) \/ Connected(u)

Spec == Init /\ [][Next]_vars

-----------------------------------------------------------------------------

TypeOK ==
  /\ base \in {"Login", "Chat"} /\ adding \in BOOLEAN
  /\ DOMAIN accounts \subseteq Users /\ \A u \in DOMAIN accounts : accounts[u] \in 0..MaxMail
  /\ {active, focus, last, shown.id} \subseteq Users \cup {Ghost}
  /\ engines \subseteq passwords /\ passwords \subseteq Jids
  /\ \A i \in DOMAIN switchers :
       switchers[i].entries \subseteq Users /\ switchers[i].marked \in Users \cup {Ghost}

\* The active account is a registered one: also after it was removed, or chosen
\* in a switcher that still lists an account removed in one above it.
ActiveIsRegistered == active # Ghost => active \in DOMAIN accounts

\* "Called by App whenever the active account changes or the unread total is
\* updated": the indicator of the chat shows the active account and its count.
IndicatorAgrees ==
  base = "Chat" /\ ~OnTop => shown = [id |-> active, unread |-> Unread]

\* "register the new account in the multi-engine manager so future commands can
\* be routed to it": the account in focus has an engine.
FocusIsRouted == focus # Ghost => Bare(focus) \in engines
=============================================================================
