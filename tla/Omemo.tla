-------------------------------- MODULE Omemo ---------------------------------
(***************************************************************************)
(* OMEMO between this client and the devices of one contact: the identity  *)
(* of the client with its one-time prekeys, the trust and the session of   *)
(* each device of the contact, and the requests, publications, commands    *)
(* and events that change them.  The database survives a stop of the       *)
(* program, everything else does not; a handler of several statements may  *)
(* be stopped between two of them.  The cryptography is abstract: a        *)
(* prekey message can be opened while the account holds its prekey, a      *)
(* session exists or not.  An identity is named by its generation, which   *)
(* stands for the device id and the identity key drawn with it.            *)
(***************************************************************************)
EXTENDS Naturals, Sequences, FiniteSets

CONSTANTS
  Devices,       \* the devices of the contact
  None,          \* no device
  PreKeys,       \* prekeys of a new identity
  LowWatermark,  \* fewer stored prekeys than this are replenished
  BatchSize,     \* with so many new ones
  MaxSessions,   \* bound: sessions of the client
  MaxMoves       \* bound: moves of the user and of the contact

ASSUME OmemoAssumption ==
  /\ None \notin Devices
  /\ PreKeys \in Nat /\ LowWatermark \in Nat /\ BatchSize \in Nat
  /\ LowWatermark <= PreKeys /\ LowWatermark <= BatchSize
  /\ MaxSessions \in Nat /\ MaxMoves \in Nat

VARIABLES
  own,       \* stored identity: its generation, 0 when there is none
  made,      \* prekeys its account has generated
  held,      \* prekeys its account holds the secret of
  prekeys,   \* rows of omemo_prekeys
  trust,     \* omemo_devices: the trust of each device, "absent" without a row
  active,    \*   and those marked active
  session,   \* omemo_sessions: "none", or by whom it was begun
  stream,    \* the session of the client
  outbox,    \* stanzas of this component the session has still to send
  asked,     \* external: bundle requests the contact's server will answer
  lists,     \* external: device list requests it will answer
  cmds,      \* commands sent by the UI: how many of each are on their way
  events,    \* the event channel
  enabled,   \* the UI knows OMEMO to be enabled
  dialog,    \* devices the trust dialog of the UI offers
  badge,     \* an encrypted message is shown, whose badge opens the dialog
  list,      \* external: the device list the server has of us
  bundles,   \* external: the identities it has a bundle of
  offered,   \* history: the prekeys ever published, and by which identity
  opened,    \* history: the prekeys whose message was opened
  vouched,   \* history: devices trusted since their last bundle was used
  moves, sessions   \* bounds

identity == <<own, made, held, prekeys>>
peers    == <<trust, active, session>>
engine   == <<stream, outbox, asked, lists>>
ui       == <<cmds, events, enabled, dialog, badge>>
server   == <<list, bundles, offered>>
history  == <<opened, vouched>>
bounds   == <<moves, sessions>>
vars     == <<identity, peers, engine, ui, server, history, bounds>>

Command(op, d) == [op |-> op, dev |-> d]
EnableCmd  == Command("enable", None)
EncryptCmd == Command("encrypt", None)
TrustCmd(d) == Command("trust", d)
Commands == {EnableCmd, EncryptCmd} \cup {TrustCmd(d) : d \in Devices}

Keys == [gen : Nat, n : Nat]
KeysOf(g, from, to) == {[gen |-> g, n |-> i] : i \in from..to}

\* Rows are numbered from 1 for a new identity; the replenished ones from a
\* multiple of the device id.
Row(by, k) == [by |-> by, n |-> k.n, key |-> k]
Rows == [by : Nat, n : Nat, key : Keys]
\* INSERT OR IGNORE: a row whose number is taken is not stored.
Inserted(table, rows) ==
  table \cup {r \in rows : \A s \in table : r.by # s.by \/ r.n # s.n}

ListStanza(g)      == [op |-> "list", gen |-> g]
BundleStanza(g, K) == [op |-> "bundle", gen |-> g, keys |-> K]
FetchBundles(D)    == [op |-> "fetch", devs |-> D]
FetchList          == [op |-> "fetchList"]

Known(d) == trust[d] # "absent"
IsEncryptable(d) == trust[d] \in {"tofu", "trusted"}

NoRequests == [d \in Devices |-> 0]
NoCommands == [c \in Commands |-> 0]

Init ==
  /\ own = 0 /\ made = 0 /\ held = {} /\ prekeys = {}
  /\ trust = [d \in Devices |-> "absent"] /\ active = {}
  /\ session = [d \in Devices |-> "none"]
  /\ stream = "none" /\ outbox = <<>> /\ asked = NoRequests /\ lists = 0
  /\ cmds = NoCommands /\ events = <<>>
  /\ enabled = FALSE /\ dialog = {} /\ badge = FALSE
  /\ list = 0 /\ bundles = {} /\ offered = {}
  /\ opened = {} /\ vouched = {}
  /\ moves = 0 /\ sessions = 0

Move == moves < MaxMoves /\ moves' = moves + 1 /\ UNCHANGED sessions

-----------------------------------------------------------------------------
(* The user *)

Issue(c) == cmds' = [cmds EXCEPT ![c] = @ + 1]

\* The button is there until the UI knows OMEMO to be enabled.
UserEnable ==
  /\ ~enabled /\ Move
  /\ Issue(EnableCmd)
  /\ UNCHANGED <<identity, peers, engine, events, enabled, dialog, badge, server,
                 history>>

\* Trusting a device in the dialog.  Rejecting one changes the dialog only.
\* (Bound: one decision on a device is on its way at a time.)
UserTrust(d) ==
  /\ badge /\ d \in dialog /\ cmds[TrustCmd(d)] = 0
  /\ Issue(TrustCmd(d))
  /\ UNCHANGED <<identity, peers, engine, events, enabled, dialog, badge, server,
                 history, bounds>>

\* A message in a conversation whose lock is closed.
UserSend ==
  /\ enabled /\ Move
  /\ Issue(EncryptCmd)
  /\ UNCHANGED <<identity, peers, engine, events, enabled, dialog, badge, server,
                 history>>

\* The UI handles its next event.
HandleEvent ==
  /\ events # <<>> /\ events' = Tail(events)
  /\ LET e == Head(events)
     IN /\ enabled' = (enabled \/ e.type = "enabled")
        /\ dialog' = IF e.type = "list" THEN e.devs ELSE dialog
        /\ badge' = (badge \/ e.type = "message")
  /\ UNCHANGED <<identity, peers, engine, cmds, server, history, bounds>>

EnabledEvent == [type |-> "enabled", devs |-> {}]
MessageEvent == [type |-> "message", devs |-> {}]
ListEvent(D) == [type |-> "list", devs |-> D]

-----------------------------------------------------------------------------
(* Sessions, and stops of the program *)

StartSession ==
  /\ stream = "none" /\ sessions < MaxSessions
  /\ stream' = "connecting" /\ sessions' = sessions + 1 /\ outbox' = <<>>
  /\ UNCHANGED <<identity, peers, asked, lists, ui, server, history, moves>>

\* (mutant) Only the device list is announced again.
RepublishListOnly ==
  IF own = 0 THEN <<>> ELSE <<ListStanza(own)>>
\* The stored identity is announced with all the prekeys stored, none of which
\* is ever marked as consumed.
Republish ==
  IF own = 0 THEN <<>>
  ELSE <<ListStanza(own), BundleStanza(own, {r.key : r \in prekeys})>>

GoOnline ==
  /\ stream = "connecting" /\ stream' = "online"
  /\ outbox' = outbox \o Republish
  /\ UNCHANGED <<identity, peers, asked, lists, ui, server, history, bounds>>

\* The stream breaks, and with it what the server would have answered.  (A
\* session that does not come online stays connecting until it ends.)
GoDown ==
  /\ stream = "online" /\ stream' = "down"
  /\ asked' = NoRequests /\ lists' = 0
  /\ UNCHANGED <<identity, peers, outbox, ui, server, history, bounds>>

EndSession ==
  /\ stream # "none" /\ stream' = "none"
  /\ outbox' = <<>> /\ asked' = NoRequests /\ lists' = 0
  /\ UNCHANGED <<identity, peers, ui, server, history, bounds>>

\* What a stop of the program leaves of the engine and of the UI.
Stopped ==
  /\ stream' = "none" /\ outbox' = <<>> /\ asked' = NoRequests /\ lists' = 0
  /\ cmds' = NoCommands /\ events' = <<>>
  /\ enabled' = FALSE /\ dialog' = {} /\ badge' = FALSE

Stop ==
  /\ Stopped
  /\ UNCHANGED <<identity, peers, server, history, bounds>>

\* The next stanza is handed over; without a stream it is lost.
Deliver ==
  /\ outbox # <<>> /\ outbox' = Tail(outbox)
  /\ LET s == Head(outbox)
     IN IF stream # "online"
        THEN UNCHANGED <<asked, lists, server>>
        ELSE /\ list' = IF s.op = "list" THEN s.gen ELSE list
             /\ bundles' = IF s.op = "bundle" THEN bundles \cup {s.gen} ELSE bundles
             /\ offered' = IF s.op = "bundle"
                           THEN offered \cup {[to |-> s.gen, key |-> k] : k \in s.keys}
                           ELSE offered
             /\ asked' = IF s.op = "fetch"
                         THEN [d \in Devices |->
                                 asked[d] + (IF d \in s.devs THEN 1 ELSE 0)]
                         ELSE asked
             /\ lists' = IF s.op = "fetchList" THEN lists + 1 ELSE lists
  /\ UNCHANGED <<identity, peers, stream, ui, history, bounds>>

-----------------------------------------------------------------------------
(* Commands *)

\* Each command is sent by a task of its own: they arrive in any order.
Take(c) == cmds[c] > 0 /\ cmds' = [cmds EXCEPT ![c] = @ - 1]

DiscardCmd(c) ==
  /\ stream = "none" /\ Take(c)
  /\ UNCHANGED <<identity, peers, engine, events, enabled, dialog, badge, server,
                 history, bounds>>

\* A new account and device id are saved, then the first m of its prekeys.
SaveIdentity(m) ==
  /\ own' = own + 1 /\ made' = PreKeys
  /\ held' = KeysOf(own + 1, 1, PreKeys)
  /\ prekeys' = Inserted(prekeys, {Row(0, k) : k \in KeysOf(own + 1, 1, m)})

Enable ==
  /\ stream # "none" /\ Take(EnableCmd)
  /\ SaveIdentity(PreKeys)
  /\ outbox' = outbox \o <<ListStanza(own + 1),
                           BundleStanza(own + 1, KeysOf(own + 1, 1, PreKeys))>>
  /\ events' = Append(events, EnabledEvent)
  /\ UNCHANGED <<peers, stream, asked, lists, enabled, dialog, badge, server,
                 history, bounds>>

EnableStopped(m) ==
  /\ stream # "none" /\ cmds[EnableCmd] > 0
  /\ SaveIdentity(m)
  /\ Stopped
  /\ UNCHANGED <<peers, server, history, bounds>>

\* UPDATE changes the row of the device if there is one.
TrustDevice(d) ==
  /\ stream # "none" /\ Take(TrustCmd(d))
  /\ trust' = IF Known(d) THEN [trust EXCEPT ![d] = "trusted"] ELSE trust
  /\ vouched' = IF Known(d) THEN vouched \cup {d} ELSE vouched
  /\ UNCHANGED <<identity, active, session, engine, events, enabled, dialog, badge,
                 server, opened, bounds>>

\* omemo_encrypt_and_send: every trusted device with a session gets a key slot.
\* With none the message is given up and keys are asked for; what is sent then
\* goes its way outside this module.
Encrypt ==
  /\ stream # "none" /\ Take(EncryptCmd)
  /\ LET trusted == {d \in Devices : IsEncryptable(d)}
         ready   == {d \in trusted : session[d] # "none"}
     IN outbox' = IF own = 0 \/ ready # {} THEN outbox
                  ELSE Append(outbox, IF trusted = {} THEN FetchList
                                      ELSE FetchBundles(trusted))
  /\ UNCHANGED <<identity, peers, stream, asked, lists, events, enabled, dialog,
                 badge, server, history, bounds>>

-----------------------------------------------------------------------------
(* Device lists and bundles of the contact *)

\* All devices are deactivated, those of D activated or inserted.
Synced(D) ==
  /\ active' = D
  /\ trust' = [d \in Devices |->
                 IF d \in D /\ ~Known(d) THEN "undecided" ELSE trust[d]]

\* Bundles are asked for where there is no session.
WithoutSession(D) == {d \in D : session[d] = "none"}
AskFor(D) == IF D = {} THEN outbox ELSE Append(outbox, FetchBundles(D))

\* A pushed device list is stored and shown in the dialog.
ListPush(D) ==
  /\ stream = "online" /\ Move
  /\ Synced(D) /\ outbox' = AskFor(WithoutSession(D))
  /\ events' = Append(events, ListEvent(D))
  /\ UNCHANGED <<identity, session, stream, asked, lists, cmds, enabled, dialog,
                 badge, server, history>>

TakeList == stream = "online" /\ lists > 0

\* The answer to a request for the list is not shown; an empty one is ignored.
ListResult(D) ==
  /\ TakeList /\ lists' = lists - 1
  /\ IF D = {} THEN UNCHANGED <<active, trust, outbox>>
     ELSE Synced(D) /\ outbox' = AskFor(WithoutSession(D))
  /\ UNCHANGED <<identity, session, stream, asked, ui, server, history, bounds>>

\* A stop while a list is stored: only some of its devices are activated.
ListStopped(D) ==
  /\ stream = "online" /\ (lists > 0 \/ moves < MaxMoves)
  /\ Synced(D) /\ Stopped
  /\ UNCHANGED <<identity, session, server, history, bounds>>

\* take_bundle_fetch: the answer is known by the id of the request.
TakeBundle(d) == stream = "online" /\ asked[d] > 0

\* (mutant) A new session is trusted on first use.
RegisteredTofu(d) == trust' = [trust EXCEPT ![d] = "tofu"]
\* The upsert that follows the new session, whatever was decided before.
Registered(d) == trust' = [trust EXCEPT ![d] = "undecided"]

\* A session is begun with the identity stored, in place of any other.
BundleResult(d) ==
  /\ TakeBundle(d) /\ asked' = [asked EXCEPT ![d] = @ - 1]
  /\ IF own = 0 THEN UNCHANGED <<peers, vouched>>
     ELSE /\ session' = [session EXCEPT ![d] = "out"]
          /\ Registered(d) /\ active' = active \cup {d}
          /\ vouched' = vouched \ {d}
  /\ UNCHANGED <<identity, stream, outbox, lists, ui, server, opened, bounds>>

\* An error, or a bundle that cannot be used.
BundleUseless(d) ==
  /\ TakeBundle(d) /\ asked' = [asked EXCEPT ![d] = @ - 1]
  /\ UNCHANGED <<identity, peers, stream, outbox, lists, ui, server, history,
                 bounds>>

\* A stop between saving the session and registering the device.
BundleStopped(d) ==
  /\ TakeBundle(d) /\ own # 0
  /\ session' = [session EXCEPT ![d] = "out"]
  /\ Stopped
  /\ UNCHANGED <<identity, trust, active, server, history, bounds>>

-----------------------------------------------------------------------------
(* Encrypted messages of the contact *)

\* (mutant) Every prekey message registers its device.
NoticedAlways(d) ==
  trust' = [trust EXCEPT ![d] = "undecided"] /\ active' = active \cup {d}
\* A device without a row gets one.
Noticed(d) ==
  IF Known(d) THEN UNCHANGED <<trust, active>>
  ELSE trust' = [trust EXCEPT ![d] = "undecided"] /\ active' = active \cup {d}

\* The account is saved and holds no other prekeys than rest.
Kept(rest) == held' = rest /\ UNCHANGED <<made, prekeys, outbox>>

\* The account is saved without the prekey it used, or with new ones as well
\* when few are stored; those not published so far are all that it holds.
Replenish(rest) ==
  IF Cardinality(prekeys) >= LowWatermark
  THEN Kept(rest)
  ELSE LET new == rest \cup KeysOf(own, made + 1, made + BatchSize)
       IN /\ held' = new /\ made' = made + BatchSize
          /\ prekeys' = Inserted(prekeys, {Row(own, k) : k \in new})
          /\ outbox' = Append(outbox, BundleStanza(own, new))

\* (mutant) The account is not saved after it has used a prekey.
SpentKept(k) == held
\* What the account holds when it has used prekey k.
Spent(k) == held \ {k}

\* A message for our present device, by prekey k of a bundle of ours.
PreKeyMessage(d, k) ==
  /\ stream = "online" /\ Move
  /\ own # 0 /\ [to |-> own, key |-> k] \in offered

\* Its payload may be missing, and nothing is shown then, or it cannot be opened,
\* and the prekeys are not counted either.
PreKeyOpened(d, k) ==
  /\ PreKeyMessage(d, k) /\ k \in held
  /\ Noticed(d)
  /\ session' = [session EXCEPT ![d] = "in"]
  /\ \/ Replenish(Spent(k)) /\ events' \in {events, Append(events, MessageEvent)}
     \/ Kept(Spent(k)) /\ UNCHANGED events
  /\ opened' = opened \cup {[dev |-> d, key |-> k]}
  /\ UNCHANGED <<own, stream, asked, lists, cmds, enabled, dialog, badge, server,
                 vouched>>

PreKeyRefused(d, k) ==
  /\ PreKeyMessage(d, k) /\ k \notin held
  /\ Noticed(d)
  /\ UNCHANGED <<identity, session, engine, ui, server, history>>

\* A stop after the device, after the session or after the account was saved.
PreKeyStopped(d, k) ==
  /\ PreKeyMessage(d, k)
  /\ Noticed(d)
  /\ \/ UNCHANGED <<session, held>>
     \/ /\ k \in held /\ session' = [session EXCEPT ![d] = "in"]
        /\ held' \in {held, Spent(k)}
  /\ Stopped
  /\ UNCHANGED <<own, made, prekeys, server, history>>

\* A message by a session that opens it.
NormalMessage(d) ==
  /\ stream = "online" /\ Move
  /\ own # 0 /\ session[d] # "none"
  /\ Replenish(held)
  /\ events' \in {events, Append(events, MessageEvent)}
  /\ UNCHANGED <<own, peers, stream, asked, lists, cmds, enabled, dialog, badge,
                 server, history>>

-----------------------------------------------------------------------------
User == UserEnable \/ UserSend \/ \E d \in Devices : UserTrust(d)

Command_ ==
  \/ Enable \/ \E m \in 0..PreKeys : EnableStopped(m)
  \/ \E d \in Devices : TrustDevice(d)
  \/ Encrypt
  \/ \E c \in Commands : DiscardCmd(c)

Session_ == StartSession \/ GoOnline \/ GoDown \/ EndSession \/ Stop \/ Deliver

Contact ==
  \/ \E D \in SUBSET Devices : ListPush(D) \/ ListResult(D) \/ ListStopped(D)
  \/ \E d \in Devices : BundleResult(d) \/ BundleUseless(d) \/ BundleStopped(d)
  \/ \E d \in Devices : NormalMessage(d)
  \/ \E d \in Devices, k \in {o.key : o \in offered} :
       PreKeyOpened(d, k) \/ PreKeyRefused(d, k) \/ PreKeyStopped(d, k)

Next == User \/ HandleEvent \/ Command_ \/ Session_ \/ Contact

Spec == Init /\ [][Next]_vars

-----------------------------------------------------------------------------
(* Properties *)

TrustStates == {"undecided", "tofu", "trusted", "untrusted"}
EventSet == [type : {"enabled", "list", "message"}, devs : SUBSET Devices]
Stanzas ==
  [op : {"list"}, gen : Nat] \cup [op : {"bundle"}, gen : Nat, keys : SUBSET Keys]
    \cup [op : {"fetch"}, devs : SUBSET Devices] \cup {FetchList}

\* The shape of the state; what the account holds it has generated.
TypeOK ==
  /\ own \in Nat /\ made \in Nat /\ held \subseteq KeysOf(own, 1, made)
  /\ prekeys \subseteq Rows
  /\ trust \in [Devices -> TrustStates \cup {"absent"}] /\ active \subseteq Devices
  /\ session \in [Devices -> {"none", "in", "out"}]
  /\ stream \in {"none", "connecting", "online", "down"}
  /\ outbox \in Seq(Stanzas) /\ asked \in [Devices -> Nat] /\ lists \in Nat
  /\ cmds \in [Commands -> Nat] /\ events \in Seq(EventSet)
  /\ enabled \in BOOLEAN /\ dialog \subseteq Devices /\ badge \in BOOLEAN
  /\ list \in Nat /\ bundles \subseteq Nat /\ offered \subseteq [to : Nat, key : Keys]
  /\ opened \subseteq [dev : Devices, key : Keys] /\ vouched \subseteq Devices
  /\ moves \in Nat /\ sessions \in Nat

\* "do not silently TOFU": a device is written to only if the user trusted it
\* after its last bundle was used for a session.
OnlyVouched == \A d \in Devices : IsEncryptable(d) => d \in vouched

\* A device with a session is one the store knows, so that it can be decided
\* on, wherever the program was stopped.
SessionsAreKnown == \A d \in Devices : session[d] # "none" => Known(d)

\* What the dialog offers has a row for set_trust to update: no decision of the
\* user goes to waste.
DecisionsLand ==
  \A d \in Devices : d \in dialog \/ cmds[TrustCmd(d)] > 0 => Known(d)

\* A prekey opens one message, also when the program is stopped while it does.
PreKeyOpensOnce ==
  \A o \in opened : o.key \notin held /\ \A p \in opened : p.key = o.key => p = o

\* Online, with everything sent, the list the server has of us names the
\* identity that is stored, and its bundle can be fetched.
Announced ==
  stream = "online" /\ outbox = <<>> /\ own # 0 => list = own /\ own \in bundles

\* A decision of the user is undone by nothing but a new session from a bundle.
DecisionIsKept ==
  [][\A d \in Devices :
       trust[d] = "trusted" /\ trust'[d] # "trusted" =>
         asked[d] > 0 /\ session'[d] = "out"]_vars

-----------------------------------------------------------------------------
(* The keyring that is promised *)

K == INSTANCE Keyring WITH
       known <- {d \in Devices : Known(d)},
       permitted <- {d \in Devices : IsEncryptable(d)},
       paired <- {d \in Devices : session[d] # "none"},
       generation <- own, drawn <- made, live <- held, spent <- opened

\* Wherever the program is stopped, what the database holds follows the rules
\* of the keyring: every handler, whole or in part, is one of its steps or none.
ImplementsKeyring == K!KeyringSpec
=============================================================================
