----------------------------- MODULE Omemo_proofs -----------------------------
(* Type correctness and the safety properties of Omemo, for any devices and  *)
(* any numbers of prekeys.                                                   *)
EXTENDS Omemo, TLAPS

-----------------------------------------------------------------------------
(* Helpers *)

LEMMA Constants == PreKeys \in Nat /\ LowWatermark \in Nat /\ BatchSize \in Nat
BY OmemoAssumption

LEMMA CommandTypes ==
  /\ EnableCmd \in Commands /\ EncryptCmd \in Commands
  /\ \A d \in Devices : TrustCmd(d) \in Commands
BY DEF Commands

\* Commands about different things are different.
LEMMA CommandsDiffer ==
  \A d \in Devices :
    /\ TrustCmd(d) # EnableCmd /\ TrustCmd(d) # EncryptCmd
    /\ \A e \in Devices : TrustCmd(d) = TrustCmd(e) => d = e
BY DEF TrustCmd, EnableCmd, EncryptCmd, Command

LEMMA KeyTypes ==
  ASSUME NEW g \in Nat, NEW a \in Nat, NEW b \in Nat
  PROVE  KeysOf(g, a, b) \subseteq Keys
BY DEF KeysOf, Keys

LEMMA RowTypes ==
  ASSUME NEW by \in Nat, NEW KS \in SUBSET Keys
  PROVE  {Row(by, k) : k \in KS} \subseteq Rows
BY DEF Row, Rows, Keys

LEMMA InsertedTypes ==
  ASSUME NEW T \in SUBSET Rows, NEW R \in SUBSET Rows
  PROVE  Inserted(T, R) \subseteq Rows
BY DEF Inserted

LEMMA StanzaTypes ==
  /\ \A g \in Nat : ListStanza(g) \in Stanzas
  /\ \A g \in Nat, KS \in SUBSET Keys : BundleStanza(g, KS) \in Stanzas
  /\ \A D \in SUBSET Devices : FetchBundles(D) \in Stanzas
  /\ FetchList \in Stanzas
BY DEF Stanzas, ListStanza, BundleStanza, FetchBundles, FetchList

LEMMA EventTypes ==
  /\ EnabledEvent \in EventSet /\ MessageEvent \in EventSet
  /\ \A D \in SUBSET Devices : ListEvent(D) \in EventSet
BY DEF EventSet, EnabledEvent, MessageEvent, ListEvent

\* What the fields of a stanza are.
LEMMA StanzaFields ==
  ASSUME NEW s \in Stanzas
  PROVE  /\ s.op \in {"list", "bundle"} => s.gen \in Nat
         /\ s.op = "bundle" => s.keys \subseteq Keys
         /\ s.op = "fetch" => s.devs \subseteq Devices
BY DEF Stanzas, FetchList

-----------------------------------------------------------------------------
(* Types *)

LEMMA InitTypeOK == Init => TypeOK
<1> SUFFICES ASSUME Init PROVE TypeOK
  OBVIOUS
<1>1. KeysOf(0, 1, 0) = {}
  BY DEF KeysOf
<1>2. cmds \in [Commands -> Nat] /\ asked \in [Devices -> Nat]
  BY DEF Init, NoCommands, NoRequests
<1>3. /\ own \in Nat /\ made \in Nat /\ held \subseteq KeysOf(own, 1, made)
      /\ prekeys \subseteq Rows /\ active \subseteq Devices
      /\ trust \in [Devices -> TrustStates \cup {"absent"}]
      /\ session \in [Devices -> {"none", "in", "out"}]
  BY DEF Init
<1>4. outbox \in Seq(Stanzas) /\ events \in Seq(EventSet)
  BY DEF Init
<1> QED
  BY <1>2, <1>3, <1>4 DEF Init, TypeOK

\* What a stop leaves is well-typed.
LEMMA StoppedTypes ==
  ASSUME Stopped
  PROVE  /\ stream' \in {"none", "connecting", "online", "down"}
         /\ outbox' \in Seq(Stanzas) /\ asked' \in [Devices -> Nat] /\ lists' \in Nat
         /\ cmds' \in [Commands -> Nat] /\ events' \in Seq(EventSet)
         /\ enabled' \in BOOLEAN /\ dialog' \subseteq Devices /\ badge' \in BOOLEAN
<1>1. asked' \in [Devices -> Nat] /\ cmds' \in [Commands -> Nat]
  BY DEF Stopped, NoRequests, NoCommands
<1>2. outbox' \in Seq(Stanzas) /\ events' \in Seq(EventSet)
  BY DEF Stopped
<1> QED
  BY <1>1, <1>2 DEF Stopped

LEMMA UserTypes == TypeOK /\ User => TypeOK'
<1> SUFFICES ASSUME TypeOK, User PROVE TypeOK'
  OBVIOUS
<1>1. \A c \in Commands : Issue(c) => cmds' \in [Commands -> Nat]
  BY DEF Issue, TypeOK
<1>2. Move => moves' \in Nat /\ sessions' \in Nat
  BY DEF Move, TypeOK
<1>3. CASE UserEnable
  BY <1>1, <1>2, <1>3, CommandTypes
  DEF UserEnable, TypeOK, identity, peers, engine, server, history
<1>4. CASE UserSend
  BY <1>1, <1>2, <1>4, CommandTypes
  DEF UserSend, TypeOK, identity, peers, engine, server, history
<1>5. ASSUME NEW d \in Devices, UserTrust(d) PROVE TypeOK'
  BY <1>1, <1>5, CommandTypes
  DEF UserTrust, TypeOK, identity, peers, engine, server, history, bounds
<1> QED
  BY <1>3, <1>4, <1>5 DEF User

LEMMA HandleEventTypes == TypeOK /\ HandleEvent => TypeOK'
<1> SUFFICES ASSUME TypeOK, HandleEvent PROVE TypeOK'
  OBVIOUS
<1>1. Head(events) \in EventSet /\ events' \in Seq(EventSet)
  BY DEF HandleEvent, TypeOK
<1>2. enabled' \in BOOLEAN /\ dialog' \subseteq Devices /\ badge' \in BOOLEAN
  BY <1>1 DEF HandleEvent, TypeOK, EventSet
<1> QED
  BY <1>1, <1>2
  DEF HandleEvent, TypeOK, identity, peers, engine, server, history, bounds

LEMMA SessionTypes == TypeOK /\ Session_ => TypeOK'
<1> SUFFICES ASSUME TypeOK, Session_ PROVE TypeOK'
  OBVIOUS
<1> USE DEF identity, peers, engine, ui, server, history, bounds
<1>1. CASE StartSession
  BY <1>1 DEF StartSession, TypeOK
<1>2. CASE GoOnline
  <2>1. {r.key : r \in prekeys} \subseteq Keys
    BY DEF TypeOK, Rows
  <2>2. own \in Nat
    BY DEF TypeOK
  <2>3. Republish \in Seq(Stanzas)
    <3>1. ListStanza(own) \in Stanzas /\ BundleStanza(own, {r.key : r \in prekeys}) \in Stanzas
      BY <2>1, <2>2, StanzaTypes
    <3> QED
      BY <3>1 DEF Republish
  <2> QED
    BY <1>2, <2>3 DEF GoOnline, TypeOK
<1>3. CASE GoDown
  BY <1>3 DEF GoDown, TypeOK, NoRequests
<1>4. CASE EndSession
  BY <1>4 DEF EndSession, TypeOK, NoRequests
<1>5. CASE Stop
  BY <1>5, StoppedTypes DEF Stop, TypeOK
<1>6. CASE Deliver
  <2>1. Head(outbox) \in Stanzas /\ outbox' \in Seq(Stanzas)
    BY <1>6 DEF Deliver, TypeOK
  <2> DEFINE s == Head(outbox)
  <2>2. /\ s.op \in {"list", "bundle"} => s.gen \in Nat
        /\ s.op = "bundle" => s.keys \subseteq Keys
    BY <2>1, StanzaFields
  <2>3. list' \in Nat /\ lists' \in Nat
    BY <1>6, <2>2 DEF Deliver, TypeOK
  <2>4. bundles' \subseteq Nat
    BY <1>6, <2>2 DEF Deliver, TypeOK
  <2>5. offered' \subseteq [to : Nat, key : Keys]
    BY <1>6, <2>2 DEF Deliver, TypeOK
  <2>6. asked' \in [Devices -> Nat]
    <3> DEFINE more == [d \in Devices |-> asked[d] + (IF d \in s.devs THEN 1 ELSE 0)]
    <3>1. asked \in [Devices -> Nat]
      BY DEF TypeOK
    <3>2. more \in [Devices -> Nat]
      <4>1. ASSUME NEW d \in Devices
            PROVE  asked[d] + (IF d \in s.devs THEN 1 ELSE 0) \in Nat
        BY <3>1
      <4> QED
        BY <4>1
    <3>3. asked' = asked \/ asked' = more
      BY <1>6 DEF Deliver
    <3> QED
      BY <3>1, <3>2, <3>3
  <2> QED
    BY <1>6, <2>1, <2>3, <2>4, <2>5, <2>6 DEF Deliver, TypeOK
<1> QED
  BY <1>1, <1>2, <1>3, <1>4, <1>5, <1>6 DEF Session_

LEMMA SaveTypes ==
  ASSUME TypeOK, NEW m \in Nat, SaveIdentity(m)
  PROVE  /\ own' \in Nat /\ made' \in Nat /\ held' \subseteq KeysOf(own', 1, made')
         /\ prekeys' \subseteq Rows
<1>1. own \in Nat /\ own + 1 \in Nat /\ prekeys \subseteq Rows
  BY DEF TypeOK
<1>2. KeysOf(own + 1, 1, m) \subseteq Keys
  BY <1>1, KeyTypes
<1>3. {Row(0, k) : k \in KeysOf(own + 1, 1, m)} \subseteq Rows
  BY <1>2, RowTypes
<1>4. prekeys' \subseteq Rows
  BY <1>1, <1>3, InsertedTypes DEF SaveIdentity
<1> QED
  BY <1>1, <1>4, Constants DEF SaveIdentity

LEMMA CommandStepTypes == TypeOK /\ Command_ => TypeOK'
<1> SUFFICES ASSUME TypeOK, Command_ PROVE TypeOK'
  OBVIOUS
<1> USE DEF identity, peers, engine, ui, server, history, bounds
<1>1. \A c \in Commands : Take(c) => cmds' \in [Commands -> Nat]
  BY DEF Take, TypeOK
<1>2. CASE Enable
  <2>1. SaveIdentity(PreKeys) /\ own \in Nat /\ own + 1 \in Nat
    BY <1>2 DEF Enable, TypeOK
  <2>2. /\ own' \in Nat /\ made' \in Nat /\ held' \subseteq KeysOf(own', 1, made')
        /\ prekeys' \subseteq Rows
    BY <2>1, SaveTypes, Constants
  <2>3. KeysOf(own + 1, 1, PreKeys) \subseteq Keys
    BY <2>1, KeyTypes, Constants
  <2>4. /\ ListStanza(own + 1) \in Stanzas
        /\ BundleStanza(own + 1, KeysOf(own + 1, 1, PreKeys)) \in Stanzas
    BY <2>1, <2>3, StanzaTypes
  <2>5. outbox' \in Seq(Stanzas)
    BY <1>2, <2>4 DEF Enable, TypeOK
  <2>6. events' \in Seq(EventSet)
    BY <1>2, EventTypes DEF Enable, TypeOK
  <2> QED
    BY <1>1, <1>2, <2>2, <2>5, <2>6, CommandTypes DEF Enable, TypeOK
<1>3. ASSUME NEW m \in 0..PreKeys, EnableStopped(m) PROVE TypeOK'
  <2>1. m \in Nat
    BY Constants
  <2>2. /\ own' \in Nat /\ made' \in Nat /\ held' \subseteq KeysOf(own', 1, made')
        /\ prekeys' \subseteq Rows
    BY <1>3, <2>1, SaveTypes DEF EnableStopped
  <2> QED
    BY <1>3, <2>2, StoppedTypes DEF EnableStopped, TypeOK
<1>4. ASSUME NEW d \in Devices, TrustDevice(d) PROVE TypeOK'
  <2>1. trust' \in [Devices -> TrustStates \cup {"absent"}] /\ vouched' \subseteq Devices
    BY <1>4 DEF TrustDevice, TypeOK, TrustStates
  <2> QED
    BY <1>1, <1>4, <2>1, CommandTypes DEF TrustDevice, TypeOK
<1>5. CASE Encrypt
  <2>1. {d \in Devices : IsEncryptable(d)} \subseteq Devices
    OBVIOUS
  <2>2. outbox' \in Seq(Stanzas)
    BY <1>5, <2>1, StanzaTypes DEF Encrypt, TypeOK
  <2> QED
    BY <1>1, <1>5, <2>2, CommandTypes DEF Encrypt, TypeOK
<1>6. ASSUME NEW c \in Commands, DiscardCmd(c) PROVE TypeOK'
  BY <1>1, <1>6 DEF DiscardCmd, TypeOK
<1> QED
  BY <1>2, <1>3, <1>4, <1>5, <1>6 DEF Command_

\* A replenished account holds prekeys it has generated.
LEMMA ReplenishTypes ==
  ASSUME TypeOK, own' = own, NEW rest \in SUBSET held, Replenish(rest) \/ Kept(rest)
  PROVE  /\ made' \in Nat /\ held' \subseteq KeysOf(own', 1, made')
         /\ prekeys' \subseteq Rows /\ outbox' \in Seq(Stanzas)
<1>1. /\ own \in Nat /\ made \in Nat /\ held \subseteq KeysOf(own, 1, made)
      /\ prekeys \subseteq Rows /\ outbox \in Seq(Stanzas)
  BY DEF TypeOK
<1>2. CASE Kept(rest)
  BY <1>1, <1>2 DEF Kept
<1>3. CASE ~Kept(rest)
  <2> DEFINE new == rest \cup KeysOf(own, made + 1, made + BatchSize)
  <2>1. /\ held' = new /\ made' = made + BatchSize
        /\ prekeys' = Inserted(prekeys, {Row(own, k) : k \in new})
        /\ outbox' = Append(outbox, BundleStanza(own, new))
    BY <1>3 DEF Replenish
  <2>2. new \subseteq KeysOf(own, 1, made + BatchSize)
    BY <1>1, Constants DEF KeysOf
  <2>3. new \subseteq Keys
    BY <1>1, <2>2, KeyTypes, Constants
  <2>4. prekeys' \subseteq Rows
    <3>1. {Row(own, k) : k \in new} \subseteq Rows
      BY <1>1, <2>3, RowTypes
    <3> QED
      BY <1>1, <2>1, <3>1, InsertedTypes
  <2>5. outbox' \in Seq(Stanzas)
    <3>1. BundleStanza(own, new) \in Stanzas
      BY <1>1, <2>3, StanzaTypes
    <3> QED
      BY <1>1, <2>1, <3>1
  <2> QED
    BY <1>1, <2>1, <2>2, <2>4, <2>5, Constants
<1> QED
  BY <1>2, <1>3

LEMMA SyncedTypes ==
  ASSUME TypeOK, NEW D \in SUBSET Devices, Synced(D)
  PROVE  active' \subseteq Devices /\ trust' \in [Devices -> TrustStates \cup {"absent"}]
BY DEF Synced, TypeOK, TrustStates

LEMMA NoticedTypes ==
  ASSUME TypeOK, NEW d \in Devices, Noticed(d)
  PROVE  active' \subseteq Devices /\ trust' \in [Devices -> TrustStates \cup {"absent"}]
BY DEF Noticed, TypeOK, TrustStates

LEMMA AskForTypes ==
  ASSUME TypeOK, NEW D \in SUBSET Devices
  PROVE  AskFor(WithoutSession(D)) \in Seq(Stanzas)
BY StanzaTypes DEF AskFor, WithoutSession, TypeOK

LEMMA ListTypes ==
  ASSUME TypeOK, NEW D \in SUBSET Devices, ListPush(D) \/ ListResult(D) \/ ListStopped(D)
  PROVE  TypeOK'
<1> USE DEF identity, peers, engine, ui, server, history, bounds
<1>1. CASE ListPush(D)
  <2>1. events' \in Seq(EventSet) /\ outbox' \in Seq(Stanzas)
    BY <1>1, EventTypes, AskForTypes DEF ListPush, TypeOK
  <2>2. moves' \in Nat /\ sessions' \in Nat
    BY <1>1 DEF ListPush, Move, TypeOK
  <2>3. active' \subseteq Devices /\ trust' \in [Devices -> TrustStates \cup {"absent"}]
    BY <1>1, SyncedTypes DEF ListPush
  <2> QED
    BY <1>1, <2>1, <2>2, <2>3 DEF ListPush, TypeOK
<1>2. CASE ListResult(D)
  <2>1. /\ active' \subseteq Devices
        /\ trust' \in [Devices -> TrustStates \cup {"absent"}]
        /\ outbox' \in Seq(Stanzas)
    BY <1>2, SyncedTypes, AskForTypes DEF ListResult, TypeOK
  <2>2. lists' \in Nat
    BY <1>2 DEF ListResult, TakeList, TypeOK
  <2> QED
    BY <1>2, <2>1, <2>2 DEF ListResult, TypeOK
<1>3. CASE ListStopped(D)
  <2>1. active' \subseteq Devices /\ trust' \in [Devices -> TrustStates \cup {"absent"}]
    BY <1>3, SyncedTypes DEF ListStopped
  <2> QED
    BY <1>3, <2>1, StoppedTypes DEF ListStopped, TypeOK
<1> QED
  BY <1>1, <1>2, <1>3

LEMMA BundleTypes ==
  ASSUME TypeOK, NEW d \in Devices,
         BundleResult(d) \/ BundleUseless(d) \/ BundleStopped(d)
  PROVE  TypeOK'
<1> USE DEF identity, peers, engine, ui, server, history, bounds
<1>1. TakeBundle(d) => [asked EXCEPT ![d] = @ - 1] \in [Devices -> Nat]
  BY DEF TakeBundle, TypeOK
<1>2. CASE BundleResult(d)
  <2>1. /\ trust' \in [Devices -> TrustStates \cup {"absent"}]
        /\ session' \in [Devices -> {"none", "in", "out"}]
        /\ active' \subseteq Devices /\ vouched' \subseteq Devices
    BY <1>2 DEF BundleResult, Registered, TypeOK, TrustStates
  <2> QED
    BY <1>1, <1>2, <2>1 DEF BundleResult, TypeOK
<1>3. CASE BundleUseless(d)
  BY <1>1, <1>3 DEF BundleUseless, TypeOK
<1>4. CASE BundleStopped(d)
  <2>1. session' \in [Devices -> {"none", "in", "out"}]
    BY <1>4 DEF BundleStopped, TypeOK
  <2> QED
    BY <1>4, <2>1, StoppedTypes DEF BundleStopped, TypeOK
<1> QED
  BY <1>2, <1>3, <1>4

LEMMA MessageTypes ==
  ASSUME TypeOK, NEW d \in Devices, NEW k,
         NormalMessage(d) \/ PreKeyOpened(d, k) \/ PreKeyRefused(d, k) \/ PreKeyStopped(d, k)
  PROVE  TypeOK'
<1> USE DEF identity, peers, engine, ui, server, history, bounds
<1>1. Spent(k) \in SUBSET held /\ held \in SUBSET held
  BY DEF Spent
<1>2. Append(events, MessageEvent) \in Seq(EventSet) /\ events \in Seq(EventSet)
  BY EventTypes DEF TypeOK
<1>3. Move => moves' \in Nat /\ sessions' \in Nat
  BY DEF Move, TypeOK
<1>4. [session EXCEPT ![d] = "in"] \in [Devices -> {"none", "in", "out"}]
  BY DEF TypeOK
<1>5. [to |-> own, key |-> k] \in offered => k \in Keys
  BY DEF TypeOK
<1>6. CASE NormalMessage(d)
  <2>1. /\ made' \in Nat /\ held' \subseteq KeysOf(own', 1, made')
        /\ prekeys' \subseteq Rows /\ outbox' \in Seq(Stanzas)
    BY <1>1, <1>6, ReplenishTypes DEF NormalMessage
  <2> QED
    BY <1>2, <1>3, <1>6, <2>1 DEF NormalMessage, TypeOK
<1>7. CASE PreKeyOpened(d, k)
  <2>1. /\ made' \in Nat /\ held' \subseteq KeysOf(own', 1, made')
        /\ prekeys' \subseteq Rows /\ outbox' \in Seq(Stanzas)
    BY <1>1, <1>7, ReplenishTypes DEF PreKeyOpened
  <2>2. active' \subseteq Devices /\ trust' \in [Devices -> TrustStates \cup {"absent"}]
    BY <1>7, NoticedTypes DEF PreKeyOpened
  <2>3. opened' \subseteq [dev : Devices, key : Keys]
    BY <1>5, <1>7 DEF PreKeyOpened, PreKeyMessage, TypeOK
  <2> QED
    BY <1>2, <1>3, <1>4, <1>7, <2>1, <2>2, <2>3 DEF PreKeyOpened, PreKeyMessage, TypeOK
<1>8. CASE PreKeyRefused(d, k)
  <2>1. active' \subseteq Devices /\ trust' \in [Devices -> TrustStates \cup {"absent"}]
    BY <1>8, NoticedTypes DEF PreKeyRefused
  <2> QED
    BY <1>3, <1>8, <2>1 DEF PreKeyRefused, PreKeyMessage, TypeOK
<1>9. CASE PreKeyStopped(d, k)
  <2>1. active' \subseteq Devices /\ trust' \in [Devices -> TrustStates \cup {"absent"}]
    BY <1>9, NoticedTypes DEF PreKeyStopped
  <2>2. held' \subseteq held /\ session' \in [Devices -> {"none", "in", "out"}]
    BY <1>1, <1>4, <1>9 DEF PreKeyStopped, TypeOK
  <2>3. held' \subseteq KeysOf(own', 1, made')
    BY <1>9, <2>2 DEF PreKeyStopped, TypeOK
  <2> QED
    BY <1>3, <1>9, <2>1, <2>2, <2>3, StoppedTypes
    DEF PreKeyStopped, PreKeyMessage, TypeOK
<1> QED
  BY <1>6, <1>7, <1>8, <1>9

LEMMA NextTypes == TypeOK /\ [Next]_vars => TypeOK'
<1> SUFFICES ASSUME TypeOK, [Next]_vars PROVE TypeOK'
  OBVIOUS
<1>1. CASE Contact
  BY <1>1, ListTypes, BundleTypes, MessageTypes DEF Contact
<1>2. CASE UNCHANGED vars
  BY <1>2 DEF vars, identity, peers, engine, ui, server, history, bounds, TypeOK
<1> QED
  BY <1>1, <1>2, UserTypes, HandleEventTypes, CommandStepTypes, SessionTypes DEF Next

\* The state of the encryption keeps its shape, and an account holds prekeys of
\* its own only.
THEOREM OmemoTypeCorrect == Spec => []TypeOK
BY InitTypeOK, NextTypes, PTL DEF Spec

-----------------------------------------------------------------------------
(* Trust *)

\* How a step may change the trust of a device: it appears undecided, the user
\* trusts it, or a bundle that was asked for begins a new session with it.
TrustStep(d) ==
  \/ trust'[d] = trust[d] /\ (d \in vouched => d \in vouched')
  \/ trust[d] = "absent" /\ trust'[d] = "undecided"
  \/ trust'[d] = "trusted" /\ d \in vouched'
  \/ trust'[d] = "undecided" /\ asked[d] > 0 /\ session'[d] = "out"

LEMMA SyncedTrust ==
  ASSUME NEW D \in SUBSET Devices, Synced(D), UNCHANGED vouched, NEW d \in Devices
  PROVE  TrustStep(d)
BY DEF Synced, Known, TrustStep

LEMMA NoticedTrust ==
  ASSUME TypeOK, NEW e \in Devices, Noticed(e), UNCHANGED vouched, NEW d \in Devices
  PROVE  TrustStep(d)
BY DEF Noticed, Known, TrustStep, TypeOK

LEMMA TrustSteps ==
  ASSUME TypeOK, [Next]_vars, NEW d \in Devices
  PROVE  TrustStep(d)
<1> USE DEF identity, peers, engine, ui, server, history, bounds
<1> DEFINE Still == UNCHANGED <<trust, vouched>>
<1>1. Still => TrustStep(d)
  BY DEF TrustStep
<1>2. CASE User
  <2>1. Still
    BY <1>2 DEF User, UserEnable, UserSend, UserTrust
  <2> QED
    BY <1>1, <2>1
<1>3. CASE HandleEvent
  BY <1>1, <1>3 DEF HandleEvent
<1>4. CASE Command_
  <2>1. CASE Enable
    BY <1>1, <2>1 DEF Enable
  <2>2. ASSUME NEW m \in 0..PreKeys, EnableStopped(m) PROVE TrustStep(d)
    BY <1>1, <2>2 DEF EnableStopped
  <2>3. ASSUME NEW e \in Devices, TrustDevice(e) PROVE TrustStep(d)
    BY <2>3 DEF TrustDevice, TypeOK, TrustStep
  <2>4. CASE Encrypt
    BY <1>1, <2>4 DEF Encrypt
  <2>5. ASSUME NEW c \in Commands, DiscardCmd(c) PROVE TrustStep(d)
    BY <1>1, <2>5 DEF DiscardCmd
  <2> QED
    BY <1>4, <2>1, <2>2, <2>3, <2>4, <2>5 DEF Command_
<1>5. CASE Session_
  <2>1. Still
    BY <1>5 DEF Session_, StartSession, GoOnline, GoDown, EndSession, Stop, Deliver
  <2> QED
    BY <1>1, <2>1
<1>6. ASSUME NEW D \in SUBSET Devices, ListPush(D) \/ ListResult(D) \/ ListStopped(D)
      PROVE  TrustStep(d)
  <2>1. CASE Synced(D)
    BY <1>6, <2>1, SyncedTrust DEF ListPush, ListResult, ListStopped
  <2>2. CASE ~Synced(D)
    BY <1>1, <1>6, <2>2 DEF ListPush, ListResult, ListStopped
  <2> QED
    BY <2>1, <2>2
<1>7. ASSUME NEW e \in Devices, BundleResult(e) \/ BundleUseless(e) \/ BundleStopped(e)
      PROVE  TrustStep(d)
  <2>1. CASE BundleResult(e)
    BY <1>1, <2>1 DEF BundleResult, Registered, TakeBundle, TypeOK, TrustStep
  <2>2. CASE BundleUseless(e) \/ BundleStopped(e)
    BY <1>1, <2>2 DEF BundleUseless, BundleStopped
  <2> QED
    BY <1>7, <2>1, <2>2
<1>8. ASSUME NEW e \in Devices, NEW k,
             NormalMessage(e) \/ PreKeyOpened(e, k) \/ PreKeyRefused(e, k)
               \/ PreKeyStopped(e, k)
      PROVE  TrustStep(d)
  <2>1. CASE NormalMessage(e)
    BY <1>1, <2>1 DEF NormalMessage
  <2>2. CASE PreKeyOpened(e, k) \/ PreKeyRefused(e, k) \/ PreKeyStopped(e, k)
    BY <2>2, NoticedTrust DEF PreKeyOpened, PreKeyRefused, PreKeyStopped
  <2> QED
    BY <1>8, <2>1, <2>2
<1>9. CASE UNCHANGED vars
  BY <1>1, <1>9 DEF vars
<1> QED
  BY <1>2, <1>3, <1>4, <1>5, <1>6, <1>7, <1>8, <1>9 DEF Next, Contact

\* Nothing is encrypted for a device that the user has not trusted since its last
\* bundle began a session ("do not silently TOFU").
THEOREM OnlyVouchedIsWritten == Spec => []OnlyVouched
<1>1. Init => OnlyVouched
  BY DEF Init, OnlyVouched, IsEncryptable
<1>2. TypeOK /\ OnlyVouched /\ [Next]_vars => OnlyVouched'
  <2> SUFFICES ASSUME TypeOK, OnlyVouched, [Next]_vars, NEW d \in Devices,
                      IsEncryptable(d)'
               PROVE  d \in vouched'
    BY DEF OnlyVouched
  <2>1. TrustStep(d)
    BY TrustSteps
  <2> QED
    BY <2>1 DEF TrustStep, OnlyVouched, IsEncryptable
<1> QED
  BY <1>1, <1>2, OmemoTypeCorrect, PTL DEF Spec

\* No device list, message, new identity or stop of the program undoes a
\* decision of the user; only a bundle that was asked for does.
THEOREM DecisionsAreKept == Spec => DecisionIsKept
<1>1. ASSUME TypeOK, [Next]_vars
      PROVE  [\A d \in Devices :
                trust[d] = "trusted" /\ trust'[d] # "trusted" =>
                  asked[d] > 0 /\ session'[d] = "out"]_vars
  BY <1>1, TrustSteps DEF TrustStep
<1> QED
  BY <1>1, OmemoTypeCorrect, PTL DEF Spec, DecisionIsKept

-----------------------------------------------------------------------------
(* Prekeys *)

\* What was opened the account does not hold, and it had generated it.
OpenedInv ==
  /\ PreKeyOpensOnce
  /\ \A o \in opened : o.key.gen <= own /\ (o.key.gen = own => o.key.n <= made)

LEMMA SaveOpened ==
  ASSUME TypeOK, OpenedInv, NEW m \in Nat, SaveIdentity(m), UNCHANGED opened
  PROVE  OpenedInv'
<1>1. own \in Nat /\ own' = own + 1 /\ held' = KeysOf(own + 1, 1, PreKeys)
  BY DEF SaveIdentity, TypeOK
<1>2. ASSUME NEW o \in opened
      PROVE  o.key.gen <= own' /\ o.key.gen # own' /\ o.key \notin held'
  <2>1. o.key.gen \in Nat /\ o.key.gen <= own
    BY DEF TypeOK, OpenedInv, Keys
  <2>2. o.key.gen # own + 1
    BY <1>1, <2>1
  <2> QED
    BY <1>1, <2>1, <2>2 DEF KeysOf
<1> QED
  BY <1>2 DEF OpenedInv, PreKeyOpensOnce

\* Saving the account without some of its prekeys, and perhaps with new ones,
\* brings back none that it has used.
LEMMA ReplenishOpened ==
  ASSUME TypeOK, OpenedInv, own' = own, NEW rest \in SUBSET held, Replenish(rest) \/ Kept(rest)
  PROVE  /\ \A o \in opened : o.key \notin held'
         /\ made' \in Nat /\ made <= made'
         /\ \A k \in held : k \notin rest => k \notin held'
<1>1. /\ made \in Nat /\ own \in Nat /\ held \subseteq KeysOf(own, 1, made)
      /\ opened \subseteq [dev : Devices, key : Keys]
  BY DEF TypeOK
<1>2. CASE Kept(rest)
  BY <1>1, <1>2 DEF Kept, OpenedInv, PreKeyOpensOnce
<1>3. CASE ~Kept(rest)
  <2>1. /\ held' = rest \cup KeysOf(own, made + 1, made + BatchSize)
        /\ made' = made + BatchSize
    BY <1>3 DEF Replenish
  <2>2. \A k \in KeysOf(own, made + 1, made + BatchSize) :
           k.gen = own /\ k.n \in Nat /\ k.n > made
    BY <1>1, Constants DEF KeysOf
  <2>3. \A k \in held : k.gen = own /\ k.n \in Nat /\ k.n <= made
    BY <1>1 DEF KeysOf
  <2>4. \A o \in opened : o.key \notin KeysOf(own, made + 1, made + BatchSize)
    BY <1>1, <2>2 DEF OpenedInv, Keys
  <2>5. \A k \in held : k \notin KeysOf(own, made + 1, made + BatchSize)
    BY <1>1, <2>2, <2>3
  <2>6. made' \in Nat /\ made <= made'
    BY <1>1, <2>1, Constants
  <2> QED
    BY <2>1, <2>4, <2>5, <2>6 DEF OpenedInv, PreKeyOpensOnce
<1> QED
  BY <1>2, <1>3

LEMMA NextOpened ==
  ASSUME TypeOK, OpenedInv, [Next]_vars
  PROVE  OpenedInv'
<1> USE DEF identity, peers, engine, ui, server, history, bounds
<1> DEFINE Still == UNCHANGED <<own, made, held, opened>>
<1>1. Still => OpenedInv'
  BY DEF OpenedInv, PreKeyOpensOnce
<1>2. CASE User \/ HandleEvent \/ Session_
  <2>1. Still
    BY <1>2 DEF User, UserEnable, UserSend, UserTrust, HandleEvent, Session_,
      StartSession, GoOnline, GoDown, EndSession, Stop, Deliver
  <2> QED
    BY <1>1, <2>1
<1>3. CASE Command_
  <2>1. CASE Enable
    BY <2>1, SaveOpened, Constants DEF Enable
  <2>2. ASSUME NEW m \in 0..PreKeys, EnableStopped(m) PROVE OpenedInv'
    BY <2>2, SaveOpened, Constants DEF EnableStopped
  <2>3. ASSUME NEW d \in Devices, TrustDevice(d) PROVE OpenedInv'
    BY <1>1, <2>3 DEF TrustDevice
  <2>4. CASE Encrypt
    BY <1>1, <2>4 DEF Encrypt
  <2>5. ASSUME NEW c \in Commands, DiscardCmd(c) PROVE OpenedInv'
    BY <1>1, <2>5 DEF DiscardCmd
  <2> QED
    BY <1>3, <2>1, <2>2, <2>3, <2>4, <2>5 DEF Command_
<1>4. ASSUME NEW D \in SUBSET Devices, ListPush(D) \/ ListResult(D) \/ ListStopped(D)
      PROVE  OpenedInv'
  BY <1>1, <1>4 DEF ListPush, ListResult, ListStopped
<1>5. ASSUME NEW d \in Devices, BundleResult(d) \/ BundleUseless(d) \/ BundleStopped(d)
      PROVE  OpenedInv'
  BY <1>1, <1>5 DEF BundleResult, BundleUseless, BundleStopped
<1>6. ASSUME NEW d \in Devices, NormalMessage(d)
      PROVE  OpenedInv'
  <2>1. /\ \A o \in opened : o.key \notin held'
        /\ made' \in Nat /\ made <= made' /\ own' = own /\ opened' = opened
    BY <1>6, ReplenishOpened DEF NormalMessage
  <2>2. made \in Nat /\ \A o \in opened : o.key.n \in Nat
    BY DEF TypeOK, Keys
  <2> QED
    BY <2>1, <2>2 DEF OpenedInv, PreKeyOpensOnce
<1>7. ASSUME NEW d \in Devices, NEW k, PreKeyOpened(d, k)
      PROVE  OpenedInv'
  <2>1. Spent(k) \in SUBSET held /\ k \notin Spent(k) /\ k \in held
    BY <1>7 DEF Spent, PreKeyOpened
  <2>2. /\ \A o \in opened : o.key \notin held'
        /\ made' \in Nat /\ made <= made' /\ k \notin held'
    BY <1>7, <2>1, ReplenishOpened DEF PreKeyOpened
  <2>3. own' = own /\ opened' = opened \cup {[dev |-> d, key |-> k]}
    BY <1>7 DEF PreKeyOpened
  <2>4. /\ made \in Nat /\ \A o \in opened : o.key.n \in Nat
        /\ k.gen = own /\ k.n \in Nat /\ k.n <= made
    BY <2>1 DEF TypeOK, Keys, KeysOf
  <2>5. \A o \in opened : o.key # k
    BY <2>1 DEF OpenedInv, PreKeyOpensOnce
  <2>6. PreKeyOpensOnce'
    BY <2>2, <2>3, <2>5 DEF OpenedInv, PreKeyOpensOnce
  <2>7. own \in Nat
    BY DEF TypeOK
  <2>8. \A o \in opened' : o.key.gen <= own' /\ (o.key.gen = own' => o.key.n <= made')
    BY <2>2, <2>3, <2>4, <2>7 DEF OpenedInv
  <2> QED
    BY <2>6, <2>8 DEF OpenedInv
<1>8. ASSUME NEW d \in Devices, NEW k, PreKeyRefused(d, k)
      PROVE  OpenedInv'
  BY <1>1, <1>8 DEF PreKeyRefused
<1>9. ASSUME NEW d \in Devices, NEW k, PreKeyStopped(d, k)
      PROVE  OpenedInv'
  <2>1. held' \subseteq held /\ UNCHANGED <<own, made, opened>>
    BY <1>9 DEF PreKeyStopped, Spent
  <2> QED
    BY <2>1 DEF OpenedInv, PreKeyOpensOnce
<1>10. CASE UNCHANGED vars
  BY <1>1, <1>10 DEF vars
<1> QED
  BY <1>2, <1>3, <1>4, <1>5, <1>6, <1>7, <1>8, <1>9, <1>10 DEF Next, Contact

\* A prekey opens one message, wherever the program is stopped.
THEOREM PreKeysOpenOnce == Spec => []PreKeyOpensOnce
<1>1. Init => OpenedInv
  BY DEF Init, OpenedInv, PreKeyOpensOnce
<1>2. TypeOK /\ OpenedInv /\ [Next]_vars => OpenedInv'
  BY NextOpened
<1>3. OpenedInv => PreKeyOpensOnce
  BY DEF OpenedInv
<1> QED
  BY <1>1, <1>2, <1>3, OmemoTypeCorrect, PTL DEF Spec

-----------------------------------------------------------------------------
(* Known devices *)

\* A request for bundles, an answer still to come and an event name devices that
\* were stored before.
OutboxKnown ==
  \A i \in 1..Len(outbox) : outbox[i].op = "fetch" => \A d \in outbox[i].devs : Known(d)
AskedKnown == \A d \in Devices : asked[d] > 0 => Known(d)
EventsKnown ==
  \A i \in 1..Len(events) : events[i].type = "list" => \A d \in events[i].devs : Known(d)

\* With them the two properties are inductive: a session is begun by an answer,
\* and the dialog is filled by an event.
KnownInv == SessionsAreKnown /\ DecisionsLand /\ OutboxKnown /\ AskedKnown /\ EventsKnown

\* A known device stays known.
Grows == \A d \in Devices : trust[d] # "absent" => trust'[d] # "absent"

LEMMA KnownGrows ==
  ASSUME TypeOK, [Next]_vars
  PROVE  Grows
BY TrustSteps DEF TrustStep, Grows

\* The stanzas that a step may add to the outbox.
LEMMA OutboxAfter ==
  ASSUME TypeOK, KnownInv, Grows, NEW e \in Stanzas,
         outbox' \in {outbox, <<>>, Append(outbox, e)},
         e.op = "fetch" => \A d \in e.devs : trust'[d] # "absent"
  PROVE  \A i \in 1..Len(outbox') :
           outbox'[i].op = "fetch" => \A d \in outbox'[i].devs : trust'[d] # "absent"
<1>1. outbox \in Seq(Stanzas)
  BY DEF TypeOK
<1>2. ASSUME NEW i \in 1..Len(outbox), outbox[i].op = "fetch", NEW d \in outbox[i].devs
      PROVE  trust'[d] # "absent"
  <2>1. outbox[i] \in Stanzas
    BY <1>1
  <2>2. d \in Devices
    BY <1>2, <2>1, StanzaFields
  <2> QED
    BY <1>2, <2>2 DEF KnownInv, OutboxKnown, Known, Grows
<1>3. CASE outbox' = outbox
  BY <1>2, <1>3
<1>4. CASE outbox' = <<>>
  BY <1>4
<1>5. CASE outbox' = Append(outbox, e)
  <2>1. Len(outbox') = Len(outbox) + 1 /\ outbox'[Len(outbox) + 1] = e
    BY <1>1, <1>5
  <2>2. \A i \in 1..Len(outbox) : outbox'[i] = outbox[i]
    BY <1>1, <1>5
  <2>3. \A i \in 1..Len(outbox') : i \in 1..Len(outbox) \/ i = Len(outbox) + 1
    BY <1>1, <2>1
  <2> QED
    BY <1>2, <2>1, <2>2, <2>3
<1> QED
  BY <1>3, <1>4, <1>5

LEMMA EventsAfter ==
  ASSUME TypeOK, KnownInv, Grows, NEW e \in EventSet,
         events' \in {events, <<>>, Append(events, e)},
         e.type = "list" => \A d \in e.devs : trust'[d] # "absent"
  PROVE  \A i \in 1..Len(events') :
           events'[i].type = "list" => \A d \in events'[i].devs : trust'[d] # "absent"
<1>1. events \in Seq(EventSet)
  BY DEF TypeOK
<1>2. ASSUME NEW i \in 1..Len(events), events[i].type = "list", NEW d \in events[i].devs
      PROVE  trust'[d] # "absent"
  <2>1. events[i] \in EventSet
    BY <1>1
  <2>2. d \in Devices
    BY <1>2, <2>1 DEF EventSet
  <2> QED
    BY <1>2, <2>2 DEF KnownInv, EventsKnown, Known, Grows
<1>3. CASE events' = events
  BY <1>2, <1>3
<1>4. CASE events' = <<>>
  BY <1>4
<1>5. CASE events' = Append(events, e)
  <2>1. Len(events') = Len(events) + 1 /\ events'[Len(events) + 1] = e
    BY <1>1, <1>5
  <2>2. \A i \in 1..Len(events) : events'[i] = events[i]
    BY <1>1, <1>5
  <2>3. \A i \in 1..Len(events') : i \in 1..Len(events) \/ i = Len(events) + 1
    BY <1>1, <2>1
  <2> QED
    BY <1>2, <2>1, <2>2, <2>3
<1> QED
  BY <1>3, <1>4, <1>5

LEMMA OutboxKept ==
  ASSUME TypeOK, KnownInv, Grows, outbox' \in {outbox, <<>>}
  PROVE  OutboxKnown'
<1>1. FetchList \in Stanzas /\ FetchList.op # "fetch"
  BY StanzaTypes DEF FetchList
<1> QED
  BY <1>1, OutboxAfter DEF OutboxKnown, Known

LEMMA EventsKept ==
  ASSUME TypeOK, KnownInv, Grows,
         events' \in {events, <<>>, Append(events, EnabledEvent), Append(events, MessageEvent)}
  PROVE  EventsKnown'
<1>1. /\ EnabledEvent \in EventSet /\ EnabledEvent.type # "list"
      /\ MessageEvent \in EventSet /\ MessageEvent.type # "list"
  BY EventTypes DEF EnabledEvent, MessageEvent
<1>2. events' \in {events, <<>>, Append(events, EnabledEvent)}
        \/ events' \in {events, <<>>, Append(events, MessageEvent)}
  OBVIOUS
<1> QED
  BY <1>1, <1>2, EventsAfter DEF EventsKnown, Known

\* An announcement asks for nothing.
LEMMA OutboxJoined ==
  ASSUME TypeOK, KnownInv, Grows, NEW t \in Seq(Stanzas), outbox' = outbox \o t,
         \A i \in 1..Len(t) : t[i].op # "fetch"
  PROVE  OutboxKnown'
<1>1. outbox \in Seq(Stanzas)
  BY DEF TypeOK
<1>2. ASSUME NEW i \in 1..Len(outbox'), outbox'[i].op = "fetch", NEW d \in outbox'[i].devs
      PROVE  trust'[d] # "absent"
  <2>1. CASE i <= Len(outbox)
    <3>1. i \in 1..Len(outbox) /\ outbox'[i] = outbox[i] /\ outbox[i] \in Stanzas
      BY <1>1, <2>1
    <3>2. d \in Devices /\ Known(d)
      BY <1>2, <3>1, StanzaFields DEF KnownInv, OutboxKnown
    <3> QED
      BY <3>2 DEF Grows, Known
  <2>2. CASE i > Len(outbox)
    <3>1. i - Len(outbox) \in 1..Len(t) /\ outbox'[i] = t[i - Len(outbox)]
      BY <1>1, <2>2
    <3> QED
      BY <1>2, <3>1
  <2> QED
    BY <1>1, <2>1, <2>2
<1> QED
  BY <1>2 DEF OutboxKnown, Known

\* The parts that a step does not disturb.
LEMMA PartsKept ==
  ASSUME TypeOK, KnownInv, Grows
  PROVE  /\ session' = session => SessionsAreKnown'
         /\ /\ dialog' \in {dialog, {}}
            /\ \A d \in Devices : cmds'[TrustCmd(d)] > 0 => cmds[TrustCmd(d)] > 0
            => DecisionsLand'
         /\ asked' \in {asked, NoRequests} => AskedKnown'
<1>1. session' = session => SessionsAreKnown'
  BY DEF KnownInv, SessionsAreKnown, Grows, Known
<1>2. ASSUME dialog' \in {dialog, {}},
             \A d \in Devices : cmds'[TrustCmd(d)] > 0 => cmds[TrustCmd(d)] > 0
      PROVE  DecisionsLand'
  BY <1>2 DEF KnownInv, DecisionsLand, Grows, Known
<1>3. ASSUME asked' \in {asked, NoRequests}
      PROVE  AskedKnown'
  <2>1. ASSUME NEW d \in Devices, asked'[d] > 0 PROVE asked[d] > 0
    BY <1>3, <2>1 DEF NoRequests
  <2> QED
    BY <2>1 DEF KnownInv, AskedKnown, Grows, Known
<1> QED
  BY <1>1, <1>2, <1>3

LEMMA StoppedKnown ==
  ASSUME TypeOK, KnownInv, Grows, Stopped
  PROVE  DecisionsLand' /\ OutboxKnown' /\ AskedKnown' /\ EventsKnown'
<1>1. \A d \in Devices : ~(cmds'[TrustCmd(d)] > 0)
  BY CommandTypes DEF Stopped, NoCommands
<1>2. /\ dialog' = {} /\ asked' = NoRequests /\ outbox' = <<>> /\ events' = <<>>
  BY DEF Stopped
<1> QED
  BY <1>1, <1>2, PartsKept, OutboxKept, EventsKept

LEMMA TakeKnown ==
  ASSUME TypeOK, NEW c \in Commands, Take(c), NEW d \in Devices, cmds'[TrustCmd(d)] > 0
  PROVE  cmds[TrustCmd(d)] > 0
BY CommandTypes DEF Take, TypeOK

LEMMA UserKnown ==
  ASSUME TypeOK, KnownInv, Grows, User
  PROVE  KnownInv'
<1> USE DEF identity, peers, engine, ui, server, history, bounds
<1>1. UNCHANGED <<session, outbox, asked, events, dialog>>
  BY DEF User, UserEnable, UserSend, UserTrust
<1>2. cmds \in [Commands -> Nat]
  BY DEF TypeOK
<1>3. CASE UserEnable \/ UserSend
  <2>1. \A d \in Devices : cmds'[TrustCmd(d)] = cmds[TrustCmd(d)]
    BY <1>2, <1>3, CommandTypes, CommandsDiffer DEF UserEnable, UserSend, Issue
  <2> QED
    BY <1>1, <2>1, PartsKept, OutboxKept, EventsKept DEF KnownInv
<1>4. ASSUME NEW e \in Devices, UserTrust(e) PROVE KnownInv'
  <2>1. \A d \in Devices : d # e => cmds'[TrustCmd(d)] = cmds[TrustCmd(d)]
    BY <1>2, <1>4, CommandTypes, CommandsDiffer DEF UserTrust, Issue
  <2>2. e \in dialog
    BY <1>4 DEF UserTrust
  <2>3. DecisionsLand'
    BY <1>1, <2>1, <2>2 DEF KnownInv, DecisionsLand, Grows, Known
  <2> QED
    BY <1>1, <2>3, PartsKept, OutboxKept, EventsKept DEF KnownInv
<1> QED
  BY <1>3, <1>4 DEF User

LEMMA HandleEventKnown ==
  ASSUME TypeOK, KnownInv, Grows, HandleEvent
  PROVE  KnownInv'
<1> USE DEF identity, peers, engine, ui, server, history, bounds
<1>1. UNCHANGED <<trust, session, outbox, asked, cmds>>
  BY DEF HandleEvent
<1>2. events # <<>> /\ events' = Tail(events) /\ events \in Seq(EventSet)
  BY DEF HandleEvent, TypeOK
<1>3. /\ 1 \in 1..Len(events) /\ Head(events) = events[1]
      /\ Len(events') = Len(events) - 1 /\ Len(events) \in Nat
      /\ \A i \in 1..Len(events') : events'[i] = events[i + 1]
  BY <1>2
<1>4. dialog' = dialog \/ \A d \in dialog' : Known(d)
  BY <1>3 DEF HandleEvent, KnownInv, EventsKnown
<1>5. DecisionsLand'
  BY <1>1, <1>4 DEF KnownInv, DecisionsLand, Known
<1>6. EventsKnown'
  <2>1. \A i \in 1..Len(events') : i + 1 \in 1..Len(events)
    BY <1>3
  <2> QED
    BY <1>1, <1>3, <2>1 DEF KnownInv, EventsKnown, Known
<1> QED
  BY <1>1, <1>5, <1>6, PartsKept, OutboxKept DEF KnownInv

LEMMA SessionKnown ==
  ASSUME TypeOK, KnownInv, Grows, Session_
  PROVE  KnownInv'
<1> USE DEF identity, peers, engine, ui, server, history, bounds
<1>1. UNCHANGED <<trust, session>>
  BY DEF Session_, StartSession, GoOnline, GoDown, EndSession, Stop, Deliver
<1>2. CASE Stop
  BY <1>1, <1>2, StoppedKnown, PartsKept DEF KnownInv, Stop
<1>3. CASE ~Stop
  <2>1. UNCHANGED <<cmds, events, dialog>>
    BY <1>3 DEF Session_, StartSession, GoOnline, GoDown, EndSession, Deliver
  <2>2. SessionsAreKnown' /\ DecisionsLand' /\ EventsKnown'
    BY <1>1, <2>1, PartsKept, EventsKept
  <2>3. CASE StartSession \/ GoDown \/ EndSession
    <3>1. outbox' \in {outbox, <<>>} /\ asked' \in {asked, NoRequests}
      BY <2>3 DEF StartSession, GoDown, EndSession
    <3> QED
      BY <2>2, <3>1, PartsKept, OutboxKept DEF KnownInv
  <2>4. CASE GoOnline
    <3>1. {r.key : r \in prekeys} \subseteq Keys /\ own \in Nat
      BY DEF TypeOK, Rows
    <3>2. ListStanza(own) \in Stanzas /\ BundleStanza(own, {r.key : r \in prekeys}) \in Stanzas
      BY <3>1, StanzaTypes
    <3>3. Republish \in Seq(Stanzas)
      BY <3>2 DEF Republish
    <3>4. \A i \in 1..Len(Republish) : Republish[i].op # "fetch"
      BY DEF Republish, ListStanza, BundleStanza
    <3>5. OutboxKnown'
      BY <2>4, <3>3, <3>4, OutboxJoined DEF GoOnline
    <3> QED
      BY <2>2, <2>4, <3>5, PartsKept DEF KnownInv, GoOnline
  <2>5. CASE Deliver
    <3>1. outbox # <<>> /\ outbox' = Tail(outbox) /\ outbox \in Seq(Stanzas)
      BY <2>5 DEF Deliver, TypeOK
    <3>2. /\ 1 \in 1..Len(outbox) /\ Head(outbox) = outbox[1]
          /\ Len(outbox') = Len(outbox) - 1 /\ Len(outbox) \in Nat
          /\ \A i \in 1..Len(outbox') : outbox'[i] = outbox[i + 1]
      BY <3>1
    <3>3. OutboxKnown'
      <4>1. \A i \in 1..Len(outbox') : i + 1 \in 1..Len(outbox)
        BY <3>2
      <4> QED
        BY <1>1, <3>2, <4>1 DEF KnownInv, OutboxKnown, Known
    <3>4. \A d \in Devices : asked'[d] = asked[d]
             \/ (outbox[1].op = "fetch" /\ d \in outbox[1].devs)
      <4>1. asked \in [Devices -> Nat]
        BY DEF TypeOK
      <4>2. ASSUME NEW d \in Devices
            PROVE  asked'[d] = asked[d]
                     \/ (outbox[1].op = "fetch" /\ d \in outbox[1].devs)
        BY <2>5, <3>2, <4>1 DEF Deliver
      <4> QED
        BY <4>2
    <3>5. AskedKnown'
      BY <1>1, <3>2, <3>4 DEF KnownInv, OutboxKnown, AskedKnown, Known
    <3> QED
      BY <2>2, <3>3, <3>5 DEF KnownInv
  <2> QED
    BY <1>3, <2>3, <2>4, <2>5 DEF Session_
<1> QED
  BY <1>2, <1>3

\* A stanza that asks for nothing, or for known devices.
LEMMA OutboxAppended ==
  ASSUME TypeOK, KnownInv, Grows, NEW e \in Stanzas,
         outbox' \in {outbox, <<>>, Append(outbox, e)},
         e.op = "fetch" => \A d \in e.devs : trust'[d] # "absent"
  PROVE  OutboxKnown'
BY OutboxAfter DEF OutboxKnown, Known

LEMMA CommandKnown ==
  ASSUME TypeOK, KnownInv, Grows, Command_
  PROVE  KnownInv'
<1> USE DEF identity, peers, engine, ui, server, history, bounds
<1>1. CASE Enable
  <2>1. own + 1 \in Nat /\ KeysOf(own + 1, 1, PreKeys) \subseteq Keys
    BY KeyTypes, Constants DEF TypeOK
  <2> DEFINE t == <<ListStanza(own + 1),
                    BundleStanza(own + 1, KeysOf(own + 1, 1, PreKeys))>>
  <2>2. t \in Seq(Stanzas)
    <3>1. /\ ListStanza(own + 1) \in Stanzas
          /\ BundleStanza(own + 1, KeysOf(own + 1, 1, PreKeys)) \in Stanzas
      BY <2>1, StanzaTypes
    <3> QED
      BY <3>1
  <2>3. \A i \in 1..Len(t) : t[i].op # "fetch"
    BY DEF ListStanza, BundleStanza
  <2>4. outbox' = outbox \o t
    BY <1>1 DEF Enable
  <2>5. OutboxKnown'
    <3> HIDE DEF t
    <3> QED
      BY <2>2, <2>3, <2>4, OutboxJoined
  <2>6. /\ UNCHANGED <<session, asked, dialog>> /\ Take(EnableCmd)
        /\ events' = Append(events, EnabledEvent)
    BY <1>1 DEF Enable
  <2> QED
    BY <2>5, <2>6, CommandTypes, TakeKnown, PartsKept, EventsKept DEF KnownInv
<1>2. ASSUME NEW m \in 0..PreKeys, EnableStopped(m) PROVE KnownInv'
  BY <1>2, StoppedKnown, PartsKept DEF EnableStopped, KnownInv
<1>3. ASSUME NEW d \in Devices, TrustDevice(d) PROVE KnownInv'
  <2>1. UNCHANGED <<session, outbox, asked, events, dialog>> /\ Take(TrustCmd(d))
    BY <1>3 DEF TrustDevice
  <2> QED
    BY <2>1, CommandTypes, TakeKnown, PartsKept, OutboxKept, EventsKept DEF KnownInv
<1>4. CASE Encrypt
  <2> DEFINE trusted == {d \in Devices : IsEncryptable(d)}
  <2>1. /\ UNCHANGED <<trust, session, asked, events, dialog>> /\ Take(EncryptCmd)
        /\ outbox' \in {outbox, Append(outbox, FetchList),
                        Append(outbox, FetchBundles(trusted))}
    BY <1>4 DEF Encrypt
  <2>2. /\ FetchList \in Stanzas /\ FetchList.op # "fetch"
        /\ FetchBundles(trusted) \in Stanzas /\ FetchBundles(trusted).devs = trusted
    BY StanzaTypes DEF FetchList, FetchBundles
  <2>3. \A d \in trusted : trust'[d] # "absent"
    BY <2>1 DEF IsEncryptable
  <2>4. OutboxKnown'
    <3> HIDE DEF trusted
    <3>1. CASE outbox' \in {outbox, <<>>, Append(outbox, FetchList)}
      BY <2>2, <3>1, OutboxAppended
    <3>2. CASE outbox' \in {outbox, <<>>, Append(outbox, FetchBundles(trusted))}
      BY <2>2, <2>3, <3>2, OutboxAppended
    <3> QED
      BY <2>1, <3>1, <3>2
  <2> QED
    BY <2>1, <2>4, CommandTypes, TakeKnown, PartsKept, EventsKept DEF KnownInv
<1>5. ASSUME NEW c \in Commands, DiscardCmd(c) PROVE KnownInv'
  <2>1. UNCHANGED <<session, outbox, asked, events, dialog>> /\ Take(c)
    BY <1>5 DEF DiscardCmd
  <2> QED
    BY <2>1, TakeKnown, PartsKept, OutboxKept, EventsKept DEF KnownInv
<1> QED
  BY <1>1, <1>2, <1>3, <1>4, <1>5 DEF Command_

\* A list that is stored makes its devices known before they are asked for.
LEMMA ListKnown ==
  ASSUME TypeOK, KnownInv, Grows, NEW D \in SUBSET Devices,
         ListPush(D) \/ ListResult(D) \/ ListStopped(D)
  PROVE  KnownInv'
<1> USE DEF identity, peers, engine, ui, server, history, bounds
<1>1. UNCHANGED session
  BY DEF ListPush, ListResult, ListStopped
<1>2. Synced(D) => \A d \in D : trust'[d] # "absent"
  BY DEF Synced, Known
<1>3. Synced(D) /\ outbox' = AskFor(WithoutSession(D)) => OutboxKnown'
  <2> SUFFICES ASSUME Synced(D), outbox' = AskFor(WithoutSession(D)) PROVE OutboxKnown'
    OBVIOUS
  <2> DEFINE W == WithoutSession(D)
  <2>1. W \in SUBSET Devices /\ \A d \in W : trust'[d] # "absent"
    BY <1>2 DEF WithoutSession
  <2>2. FetchBundles(W) \in Stanzas /\ FetchBundles(W).devs = W
    BY <2>1, StanzaTypes DEF FetchBundles
  <2>3. outbox' \in {outbox, <<>>, Append(outbox, FetchBundles(W))}
    BY DEF AskFor
  <2> HIDE DEF W
  <2> QED
    BY <2>1, <2>2, <2>3, OutboxAppended
<1>4. CASE ListPush(D)
  <2>1. Synced(D) /\ OutboxKnown'
    BY <1>3, <1>4 DEF ListPush
  <2>2. UNCHANGED <<asked, cmds, dialog>> /\ events' = Append(events, ListEvent(D))
    BY <1>4 DEF ListPush
  <2>3. ListEvent(D) \in EventSet /\ ListEvent(D).devs = D
    BY EventTypes DEF ListEvent
  <2>4. EventsKnown'
    BY <1>2, <2>1, <2>2, <2>3, EventsAfter DEF EventsKnown, Known
  <2> QED
    BY <1>1, <2>1, <2>2, <2>4, PartsKept DEF KnownInv
<1>5. CASE ListResult(D)
  <2>1. UNCHANGED <<asked, cmds, dialog, events>>
    BY <1>5 DEF ListResult
  <2>2. OutboxKnown'
    BY <1>3, <1>5, OutboxKept DEF ListResult
  <2> QED
    BY <1>1, <2>1, <2>2, PartsKept, EventsKept DEF KnownInv
<1>6. CASE ListStopped(D)
  BY <1>1, <1>6, StoppedKnown, PartsKept DEF ListStopped, KnownInv
<1> QED
  BY <1>4, <1>5, <1>6

LEMMA BundleKnown ==
  ASSUME TypeOK, KnownInv, Grows, NEW d \in Devices,
         BundleResult(d) \/ BundleUseless(d) \/ BundleStopped(d)
  PROVE  KnownInv'
<1> USE DEF identity, peers, engine, ui, server, history, bounds
<1>1. asked[d] > 0 /\ Known(d)
  BY DEF BundleResult, BundleUseless, BundleStopped, TakeBundle, KnownInv, AskedKnown
<1>2. session' = session \/ session' = [session EXCEPT ![d] = "out"]
  BY DEF BundleResult, BundleUseless, BundleStopped
<1>3. SessionsAreKnown'
  BY <1>1, <1>2 DEF KnownInv, SessionsAreKnown, Grows, Known, TypeOK
<1>4. CASE BundleStopped(d)
  BY <1>3, <1>4, StoppedKnown DEF BundleStopped, KnownInv
<1>5. CASE BundleResult(d) \/ BundleUseless(d)
  <2>1. UNCHANGED <<outbox, cmds, events, dialog>> /\ asked' = [asked EXCEPT ![d] = @ - 1]
    BY <1>5 DEF BundleResult, BundleUseless
  <2>2. \A e \in Devices : asked'[e] > 0 => Known(e)
    BY <1>1, <2>1 DEF KnownInv, AskedKnown, TypeOK
  <2>3. AskedKnown'
    BY <2>2 DEF AskedKnown, Grows, Known
  <2> QED
    BY <1>3, <2>1, <2>3, PartsKept, OutboxKept, EventsKept DEF KnownInv
<1> QED
  BY <1>4, <1>5

\* What a message leaves to send is the bundle that replenishes the prekeys.
LEMMA ReplenishKnown ==
  ASSUME TypeOK, KnownInv, Grows, NEW rest \in SUBSET held, Replenish(rest) \/ Kept(rest)
  PROVE  OutboxKnown'
<1> DEFINE new == rest \cup KeysOf(own, made + 1, made + BatchSize)
<1>1. outbox' = outbox \/ outbox' = Append(outbox, BundleStanza(own, new))
  BY DEF Replenish, Kept
<1>2. own \in Nat /\ made + 1 \in Nat /\ made + BatchSize \in Nat
  BY Constants DEF TypeOK
<1>3. held \subseteq Keys
  BY <1>2, KeyTypes DEF TypeOK, KeysOf, Keys
<1>4. new \in SUBSET Keys
  BY <1>2, <1>3, KeyTypes
<1> HIDE DEF new
<1>5. BundleStanza(own, new) \in Stanzas /\ BundleStanza(own, new).op # "fetch"
  BY <1>2, <1>4, StanzaTypes DEF BundleStanza
<1> QED
  BY <1>1, <1>5, OutboxAppended

LEMMA MessageKnown ==
  ASSUME TypeOK, KnownInv, Grows, NEW d \in Devices, NEW k,
         NormalMessage(d) \/ PreKeyOpened(d, k) \/ PreKeyRefused(d, k)
           \/ PreKeyStopped(d, k)
  PROVE  KnownInv'
<1> USE DEF identity, peers, engine, ui, server, history, bounds
<1>1. Noticed(d) => trust'[d] # "absent"
  BY DEF Noticed, Known, TypeOK
<1>2. session' = session
        \/ (session' = [session EXCEPT ![d] = "in"] /\ trust'[d] # "absent")
  <2>1. CASE NormalMessage(d)
    BY <2>1 DEF NormalMessage
  <2>2. CASE PreKeyOpened(d, k)
    BY <1>1, <2>2 DEF PreKeyOpened
  <2>3. CASE PreKeyRefused(d, k)
    BY <2>3 DEF PreKeyRefused
  <2>4. CASE PreKeyStopped(d, k)
    BY <1>1, <2>4 DEF PreKeyStopped
  <2> QED
    BY <2>1, <2>2, <2>3, <2>4
<1>3. SessionsAreKnown'
  BY <1>2 DEF KnownInv, SessionsAreKnown, Grows, Known, TypeOK
<1>4. CASE NormalMessage(d) \/ PreKeyOpened(d, k)
  <2>1. /\ UNCHANGED <<asked, cmds, dialog>>
        /\ events' \in {events, Append(events, MessageEvent)}
    BY <1>4 DEF NormalMessage, PreKeyOpened
  <2>2. PICK rest \in SUBSET held : Replenish(rest) \/ Kept(rest)
    BY <1>4 DEF NormalMessage, PreKeyOpened, Spent
  <2> QED
    BY <1>3, <2>1, <2>2, ReplenishKnown, PartsKept, EventsKept DEF KnownInv
<1>5. CASE PreKeyRefused(d, k)
  BY <1>3, <1>5, PartsKept, OutboxKept, EventsKept DEF PreKeyRefused, KnownInv
<1>6. CASE PreKeyStopped(d, k)
  BY <1>3, <1>6, StoppedKnown DEF PreKeyStopped, KnownInv
<1> QED
  BY <1>4, <1>5, <1>6

LEMMA NextKnown ==
  ASSUME TypeOK, KnownInv, [Next]_vars
  PROVE  KnownInv'
<1>1. Grows
  BY KnownGrows
<1>2. CASE UNCHANGED vars
  BY <1>1, <1>2, PartsKept, OutboxKept, EventsKept
  DEF vars, peers, engine, ui, KnownInv
<1>3. CASE Contact
  BY <1>1, <1>3, ListKnown, BundleKnown, MessageKnown DEF Contact
<1> QED
  BY <1>1, <1>2, <1>3, UserKnown, HandleEventKnown, CommandKnown, SessionKnown DEF Next

LEMMA KnownAlways == Spec => []KnownInv
<1>1. Init => KnownInv
  BY CommandTypes DEF Init, NoCommands, NoRequests, KnownInv, SessionsAreKnown,
    DecisionsLand, OutboxKnown, AskedKnown, EventsKnown
<1>2. TypeOK /\ KnownInv /\ [Next]_vars => KnownInv'
  BY NextKnown
<1> QED
  BY <1>1, <1>2, OmemoTypeCorrect, PTL DEF Spec

\* There is no session with a device the user cannot decide on, wherever the
\* program was stopped.
THEOREM SessionsAlwaysKnown == Spec => []SessionsAreKnown
<1>1. KnownInv => SessionsAreKnown
  BY DEF KnownInv
<1> QED
  BY <1>1, KnownAlways, PTL

\* A decision the user can make, or that is on its way, finds the row it changes.
THEOREM DecisionsAlwaysLand == Spec => []DecisionsLand
<1>1. KnownInv => DecisionsLand
  BY DEF KnownInv
<1> QED
  BY <1>1, KnownAlways, PTL

-----------------------------------------------------------------------------
(* Announcements *)

\* The stanzas of index above i that carry a device list carry that of g.
ListsAfter(i, g) ==
  \A j \in 1..Len(outbox) : j > i /\ outbox[j].op = "list" => outbox[j].gen = g

\* The last word the server has or will have about our list is g.
ListSettled(g) ==
  \/ list = g /\ ListsAfter(0, g)
  \/ \E i \in 1..Len(outbox) :
       outbox[i].op = "list" /\ outbox[i].gen = g /\ ListsAfter(i, g)

\* The server has, or will have, a bundle of g.
BundleSettled(g) ==
  \/ g \in bundles
  \/ \E i \in 1..Len(outbox) : outbox[i].op = "bundle" /\ outbox[i].gen = g

\* Announced looks at an empty outbox; this at one on its way to be empty.
AnnouncedInv ==
  stream = "online" /\ own # 0 => ListSettled(own) /\ BundleSettled(own)

\* Nothing is announced: at most another stanza joins the outbox.
LEMMA AnnouncedKept ==
  ASSUME TypeOK, AnnouncedInv, stream' = "online" => stream = "online",
         own' = own, list' = list, bundles' = bundles,
         outbox' = outbox
           \/ \E e \in Stanzas : e.op # "list" /\ outbox' = Append(outbox, e)
  PROVE  AnnouncedInv'
<1> SUFFICES ASSUME stream' = "online", own' # 0
             PROVE  ListSettled(own)' /\ BundleSettled(own)'
  BY DEF AnnouncedInv
<1>1. ListSettled(own) /\ BundleSettled(own)
  BY DEF AnnouncedInv
<1>2. CASE outbox' = outbox
  BY <1>1, <1>2 DEF ListSettled, BundleSettled, ListsAfter
<1>3. ASSUME NEW e \in Stanzas, e.op # "list", outbox' = Append(outbox, e)
      PROVE  ListSettled(own)' /\ BundleSettled(own)'
  <2>1. /\ Len(outbox) \in Nat /\ Len(outbox') = Len(outbox) + 1
        /\ \A j \in 1..Len(outbox) : outbox'[j] = outbox[j]
        /\ outbox'[Len(outbox) + 1] = e
    BY <1>3 DEF TypeOK
  <2>2. \A j \in 1..Len(outbox) : j \in 1..Len(outbox')
    BY <2>1
  <2>3. \A j \in 1..Len(outbox') : j \in 1..Len(outbox) \/ j = Len(outbox) + 1
    BY <2>1
  <2>4. \A i : ListsAfter(i, own) => ListsAfter(i, own)'
    BY <1>3, <2>1, <2>3 DEF ListsAfter
  <2>5. ListSettled(own)'
    BY <1>1, <2>1, <2>2, <2>4 DEF ListSettled
  <2>6. BundleSettled(own)'
    BY <1>1, <2>1, <2>2 DEF BundleSettled
  <2> QED
    BY <2>5, <2>6
<1> QED
  BY <1>2, <1>3

\* The identity stored now is announced after everything else.
LEMMA AnnouncedAgain ==
  ASSUME TypeOK, NEW g, NEW KS, own' = g,
         outbox' = outbox \o <<ListStanza(g), BundleStanza(g, KS)>>
  PROVE  AnnouncedInv'
<1>0. PICK n \in Nat : n = Len(outbox)
  BY DEF TypeOK
<1>1. /\ Len(outbox') = n + 2
      /\ outbox'[n + 1] = ListStanza(g) /\ outbox'[n + 2] = BundleStanza(g, KS)
  BY <1>0 DEF TypeOK
<1>2. n + 1 \in 1..Len(outbox') /\ n + 2 \in 1..Len(outbox')
  BY <1>1
<1>3. \A j \in 1..Len(outbox') : j > n + 1 => j = n + 2
  BY <1>1
<1>4. /\ ListStanza(g).op = "list" /\ ListStanza(g).gen = g
      /\ BundleStanza(g, KS).op = "bundle" /\ BundleStanza(g, KS).gen = g
  BY DEF ListStanza, BundleStanza
<1>5. ListsAfter(n + 1, own)'
  BY <1>1, <1>3, <1>4 DEF ListsAfter
<1>6. ListSettled(own)' /\ BundleSettled(own)'
  BY <1>1, <1>2, <1>4, <1>5 DEF ListSettled, BundleSettled
<1> QED
  BY <1>6 DEF AnnouncedInv

\* What is said moves from the outbox to the server.
LEMMA AnnouncedDelivered ==
  ASSUME TypeOK, AnnouncedInv, Deliver
  PROVE  AnnouncedInv'
<1> USE DEF identity, peers, engine, ui, server, history, bounds
<1> SUFFICES ASSUME stream' = "online", own' # 0
             PROVE  ListSettled(own)' /\ BundleSettled(own)'
  BY DEF AnnouncedInv
<1>1. stream = "online" /\ own' = own
  BY DEF Deliver
<1>2. ListSettled(own) /\ BundleSettled(own)
  BY <1>1 DEF AnnouncedInv
<1>3. outbox # <<>> /\ outbox' = Tail(outbox) /\ outbox \in Seq(Stanzas)
  BY DEF Deliver, TypeOK
<1>4. /\ Head(outbox) = outbox[1] /\ 1 \in 1..Len(outbox) /\ Len(outbox) \in Nat
      /\ Len(outbox') = Len(outbox) - 1
      /\ \A j \in 1..Len(outbox') : outbox'[j] = outbox[j + 1]
  BY <1>3
<1>5. \A j \in 1..Len(outbox') : j + 1 \in 1..Len(outbox)
  BY <1>4
<1>6. \A j \in 1..Len(outbox) : j # 1 => j - 1 \in 1..Len(outbox') /\ outbox'[j - 1] = outbox[j]
  BY <1>4
<1>7. /\ list' = IF outbox[1].op = "list" THEN outbox[1].gen ELSE list
      /\ bundles' = IF outbox[1].op = "bundle" THEN bundles \cup {outbox[1].gen}
                    ELSE bundles
  BY <1>1, <1>4 DEF Deliver
<1>8. BundleSettled(own)'
  <2>1. CASE own \in bundles
    BY <1>1, <1>7, <2>1 DEF BundleSettled
  <2>2. ASSUME NEW i \in 1..Len(outbox), outbox[i].op = "bundle", outbox[i].gen = own
        PROVE  BundleSettled(own)'
    <3>1. CASE i = 1
      BY <1>1, <1>7, <2>2, <3>1 DEF BundleSettled
    <3>2. CASE i # 1
      BY <1>1, <1>6, <2>2, <3>2 DEF BundleSettled
    <3> QED
      BY <3>1, <3>2
  <2> QED
    BY <1>2, <2>1, <2>2 DEF BundleSettled
<1>9. ListSettled(own)'
  <2>1. ASSUME list' = own, ListsAfter(0, own) \/ ListsAfter(1, own)
        PROVE  ListSettled(own)'
    <3>1. \A j \in 1..Len(outbox') : j + 1 > 0 /\ j + 1 > 1
      BY <1>4
    <3>2. ListsAfter(0, own)'
      BY <1>1, <1>4, <1>5, <2>1, <3>1 DEF ListsAfter
    <3> QED
      BY <1>1, <2>1, <3>2 DEF ListSettled
  <2>2. CASE list = own /\ ListsAfter(0, own)
    <3>1. outbox[1].op = "list" => outbox[1].gen = own
      BY <1>4, <2>2 DEF ListsAfter
    <3> QED
      BY <1>7, <2>1, <2>2, <3>1
  <2>3. ASSUME NEW i \in 1..Len(outbox), outbox[i].op = "list", outbox[i].gen = own,
               ListsAfter(i, own)
        PROVE  ListSettled(own)'
    <3>1. CASE i = 1
      BY <1>7, <2>1, <2>3, <3>1
    <3>2. CASE i # 1
      <4>1. \A j \in 1..Len(outbox') : j > i - 1 => j + 1 > i
        BY <1>4
      <4>2. ListsAfter(i - 1, own)'
        BY <1>1, <1>4, <1>5, <2>3, <4>1 DEF ListsAfter
      <4> QED
        BY <1>1, <1>6, <2>3, <3>2, <4>2 DEF ListSettled
    <3> QED
      BY <3>1, <3>2
  <2> QED
    BY <1>2, <2>2, <2>3 DEF ListSettled
<1> QED
  BY <1>8, <1>9

LEMMA NextAnnounced ==
  ASSUME TypeOK, AnnouncedInv, [Next]_vars
  PROVE  AnnouncedInv'
<1> USE DEF identity, peers, engine, ui, server, history, bounds
<1> DEFINE Quiet == stream' = stream /\ own' = own /\ list' = list /\ bundles' = bundles
<1>1. ASSUME stream' # "online" PROVE AnnouncedInv'
  BY <1>1 DEF AnnouncedInv
<1>2. ASSUME Quiet, outbox' = outbox PROVE AnnouncedInv'
  BY <1>2, AnnouncedKept
<1>3. ASSUME Quiet, NEW e \in Stanzas, e.op # "list", outbox' = Append(outbox, e)
      PROVE  AnnouncedInv'
  BY <1>3, AnnouncedKept
<1>4. Stopped => AnnouncedInv'
  BY <1>1 DEF Stopped
<1>5. \A D \in SUBSET Devices :
        FetchBundles(D) \in Stanzas /\ FetchBundles(D).op # "list"
  BY StanzaTypes DEF FetchBundles
<1>6. ASSUME NEW rest \in SUBSET held, Replenish(rest) \/ Kept(rest), Quiet PROVE AnnouncedInv'
  <2> DEFINE new == rest \cup KeysOf(own, made + 1, made + BatchSize)
  <2>1. outbox' = outbox \/ outbox' = Append(outbox, BundleStanza(own, new))
    BY <1>6 DEF Replenish, Kept
  <2>2. own \in Nat /\ made + 1 \in Nat /\ made + BatchSize \in Nat
    BY Constants DEF TypeOK
  <2>3. held \subseteq Keys
    BY <2>2, KeyTypes DEF TypeOK, KeysOf, Keys
  <2>4. new \in SUBSET Keys
    BY <2>2, <2>3, KeyTypes
  <2> HIDE DEF new
  <2>5. BundleStanza(own, new) \in Stanzas /\ BundleStanza(own, new).op # "list"
    BY <2>2, <2>4, StanzaTypes DEF BundleStanza
  <2> QED
    BY <1>2, <1>3, <1>6, <2>1, <2>5
<1>7. CASE User \/ HandleEvent
  <2>1. Quiet /\ outbox' = outbox
    BY <1>7 DEF User, UserEnable, UserSend, UserTrust, HandleEvent
  <2> QED
    BY <1>2, <2>1
<1>8. CASE Command_
  <2>1. CASE Enable
    <3>1. /\ own' = own + 1
          /\ outbox' = outbox \o <<ListStanza(own + 1),
                                   BundleStanza(own + 1, KeysOf(own + 1, 1, PreKeys))>>
      BY <2>1 DEF Enable, SaveIdentity
    <3> QED
      BY <3>1, AnnouncedAgain
  <2>2. ASSUME NEW m \in 0..PreKeys, EnableStopped(m) PROVE AnnouncedInv'
    BY <1>4, <2>2 DEF EnableStopped
  <2>3. ASSUME NEW d \in Devices, TrustDevice(d) PROVE AnnouncedInv'
    BY <1>2, <2>3 DEF TrustDevice
  <2>4. CASE Encrypt
    <3> DEFINE trusted == {d \in Devices : IsEncryptable(d)}
    <3>1. /\ Quiet
          /\ outbox' \in {outbox, Append(outbox, FetchList),
                          Append(outbox, FetchBundles(trusted))}
      BY <2>4 DEF Encrypt
    <3>2. FetchList \in Stanzas /\ FetchList.op # "list"
      BY StanzaTypes DEF FetchList
    <3>3. trusted \in SUBSET Devices
      OBVIOUS
    <3> HIDE DEF trusted
    <3> QED
      BY <1>2, <1>3, <1>5, <3>1, <3>2, <3>3
  <2>5. ASSUME NEW c \in Commands, DiscardCmd(c) PROVE AnnouncedInv'
    BY <1>2, <2>5 DEF DiscardCmd
  <2> QED
    BY <1>8, <2>1, <2>2, <2>3, <2>4, <2>5 DEF Command_
<1>9. CASE Session_
  <2>1. CASE StartSession \/ GoDown \/ EndSession \/ Stop
    BY <1>1, <1>4, <2>1 DEF StartSession, GoDown, EndSession, Stop
  <2>2. CASE GoOnline
    <3>1. own' = own /\ outbox' = outbox \o Republish
      BY <2>2 DEF GoOnline
    <3>2. CASE own = 0
      BY <3>1, <3>2 DEF AnnouncedInv
    <3>3. CASE own # 0
      BY <3>1, <3>3, AnnouncedAgain DEF Republish
    <3> QED
      BY <3>2, <3>3
  <2>3. CASE Deliver
    BY <2>3, AnnouncedDelivered
  <2> QED
    BY <1>9, <2>1, <2>2, <2>3 DEF Session_
<1>10. ASSUME NEW D \in SUBSET Devices, ListPush(D) \/ ListResult(D) \/ ListStopped(D)
       PROVE  AnnouncedInv'
  <2>1. CASE ListStopped(D)
    BY <1>4, <2>1 DEF ListStopped
  <2>2. CASE ListPush(D) \/ ListResult(D)
    <3>1. Quiet /\ outbox' \in {outbox, Append(outbox, FetchBundles(WithoutSession(D)))}
      BY <2>2 DEF ListPush, ListResult, AskFor
    <3>2. WithoutSession(D) \in SUBSET Devices
      BY DEF WithoutSession
    <3> QED
      BY <1>2, <1>3, <1>5, <3>1, <3>2
  <2> QED
    BY <1>10, <2>1, <2>2
<1>11. ASSUME NEW d \in Devices, BundleResult(d) \/ BundleUseless(d) \/ BundleStopped(d)
       PROVE  AnnouncedInv'
  BY <1>2, <1>4, <1>11 DEF BundleResult, BundleUseless, BundleStopped
<1>12. ASSUME NEW d \in Devices, NormalMessage(d)
       PROVE  AnnouncedInv'
  BY <1>6, <1>12 DEF NormalMessage
<1>13. ASSUME NEW d \in Devices, NEW k,
              PreKeyOpened(d, k) \/ PreKeyRefused(d, k) \/ PreKeyStopped(d, k)
       PROVE  AnnouncedInv'
  <2>1. CASE PreKeyOpened(d, k)
    BY <1>6, <2>1 DEF PreKeyOpened, Spent
  <2>2. CASE PreKeyRefused(d, k)
    BY <1>2, <2>2 DEF PreKeyRefused
  <2>3. CASE PreKeyStopped(d, k)
    BY <1>4, <2>3 DEF PreKeyStopped
  <2> QED
    BY <1>13, <2>1, <2>2, <2>3
<1>14. CASE UNCHANGED vars
  BY <1>2, <1>14 DEF vars
<1> QED
  BY <1>7, <1>8, <1>9, <1>10, <1>11, <1>12, <1>13, <1>14 DEF Next, Contact

\* With everything sent, the server has the list and a bundle of the identity
\* that is stored, whatever else was announced before it.
THEOREM IdentityIsAnnounced == Spec => []Announced
<1>1. Init => AnnouncedInv
  BY DEF Init, AnnouncedInv
<1>2. TypeOK /\ AnnouncedInv /\ [Next]_vars => AnnouncedInv'
  BY NextAnnounced
<1>3. AnnouncedInv => Announced
  <2> SUFFICES ASSUME AnnouncedInv, stream = "online", outbox = <<>>, own # 0
               PROVE  list = own /\ own \in bundles
    BY DEF Announced
  <2>1. Len(outbox) = 0
    OBVIOUS
  <2>2. ListSettled(own) /\ BundleSettled(own)
    BY DEF AnnouncedInv
  <2> QED
    BY <2>1, <2>2 DEF ListSettled, BundleSettled
<1> QED
  BY <1>1, <1>2, <1>3, OmemoTypeCorrect, PTL DEF Spec

-----------------------------------------------------------------------------
(* The keyring that is promised *)

\* What a step leaves as it is.
SamePermitted ==
  \A d \in Devices : trust'[d] \in {"tofu", "trusted"} <=> IsEncryptable(d)
SamePaired == \A d \in Devices : session'[d] = "none" <=> session[d] = "none"
SameDevices == UNCHANGED <<trust, session>>
SameKeys == UNCHANGED <<own, made, held, opened>>

LEMMA PermittedStay ==
  SamePermitted =>
    {d \in Devices : IsEncryptable(d)}' = {d \in Devices : IsEncryptable(d)}
BY DEF SamePermitted, IsEncryptable

LEMMA PairedStay ==
  SamePaired =>
    {d \in Devices : session[d] # "none"}' = {d \in Devices : session[d] # "none"}
BY DEF SamePaired

LEMMA DevicesStay == SameDevices => UNCHANGED K!devices
BY DEF SameDevices, K!devices, Known, IsEncryptable

LEMMA KeysStay == SameKeys => UNCHANGED K!keys
BY DEF SameKeys, K!keys

\* A step that forgets no device, permits none and begins no session learns some
\* devices, or none.
LEMMA Learns ==
  ASSUME Grows, SamePermitted, SamePaired, SameKeys
  PROVE  K!Learn
<1>1. {d \in Devices : Known(d)} \subseteq {d \in Devices : Known(d)}'
  BY DEF Grows, Known
<1>2. {d \in Devices : Known(d)}' \in SUBSET Devices
  OBVIOUS
<1> QED
  BY <1>1, <1>2, PermittedStay, PairedStay, KeysStay DEF K!Learn

LEMMA StillLearns ==
  ASSUME SameDevices, SameKeys
  PROVE  K!Learn
<1>1. Grows /\ SamePermitted /\ SamePaired
  BY DEF SameDevices, Grows, SamePermitted, SamePaired, IsEncryptable
<1> QED
  BY <1>1, Learns

\* A stored list, or a message, permits no device.
LEMMA SyncedPermits ==
  ASSUME NEW D \in SUBSET Devices, Synced(D)
  PROVE  SamePermitted
BY DEF Synced, Known, SamePermitted, IsEncryptable

LEMMA NoticedPermits ==
  ASSUME TypeOK, NEW d \in Devices, Noticed(d)
  PROVE  SamePermitted
BY DEF Noticed, Known, SamePermitted, IsEncryptable, TypeOK

LEMMA NoticedKnown ==
  ASSUME TypeOK, NEW d \in Devices, Noticed(d)
  PROVE  {e \in Devices : Known(e)}' = {e \in Devices : Known(e)} \cup {d}
BY DEF Noticed, Known, TypeOK

LEMMA SessionPairs ==
  ASSUME TypeOK, NEW d \in Devices, NEW b \in {"in", "out"},
         session' = [session EXCEPT ![d] = b]
  PROVE  {e \in Devices : session[e] # "none"}' =
           {e \in Devices : session[e] # "none"} \cup {d}
BY DEF TypeOK

\* A device that begins a session becomes known and permits nothing.
LEMMA Meets ==
  ASSUME TypeOK, NEW d \in Devices, Noticed(d), own # 0, own' = own,
         session' = [session EXCEPT ![d] = "in"]
  PROVE  K!Meet(d)
BY NoticedKnown, NoticedPermits, PermittedStay, SessionPairs DEF K!Meet

\* Whether keys were replenished or not, the account draws on.
LEMMA Draws ==
  ASSUME TypeOK, NEW rest \in SUBSET held, Replenish(rest) \/ Kept(rest)
  PROVE  K!Drawn(rest)
<1>1. made \in Nat
  BY DEF TypeOK
<1>2. CASE Kept(rest)
  <2>1. KeysOf(own, made + 1, made) = {}
    BY <1>1 DEF KeysOf
  <2>2. K!KeysOf(own, made + 1, made) = {}
    BY <2>1 DEF KeysOf, K!KeysOf
  <2> QED
    BY <1>1, <1>2, <2>2 DEF Kept, K!Drawn
<1>3. CASE ~Kept(rest)
  <2>1. /\ held' = rest \cup KeysOf(own, made + 1, made + BatchSize)
        /\ made' = made + BatchSize
    BY <1>3 DEF Replenish
  <2>2. made' \in Nat /\ made' >= made
    BY <1>1, <2>1, Constants
  <2> QED
    BY <2>1, <2>2 DEF KeysOf, K!KeysOf, K!Drawn
<1> QED
  BY <1>2, <1>3

LEMMA Renews ==
  ASSUME TypeOK, NEW m, SaveIdentity(m), SameDevices, opened' = opened
  PROVE  K!Renew
BY DevicesStay, Constants DEF SaveIdentity, KeysOf, K!KeysOf, K!Renew

\* The commands.
LEMMA CommandOfKeyring ==
  ASSUME TypeOK, Command_
  PROVE  K!KeyringNext
<1> USE DEF identity, peers, history, SameDevices, SameKeys
<1>1. CASE Enable
  <2>1. SaveIdentity(PreKeys) /\ SameDevices /\ opened' = opened
    BY <1>1 DEF Enable
  <2> QED
    BY <2>1, Renews DEF K!KeyringNext
<1>2. ASSUME NEW m \in 0..PreKeys, EnableStopped(m) PROVE K!KeyringNext
  <2>1. SaveIdentity(m) /\ SameDevices /\ opened' = opened
    BY <1>2 DEF EnableStopped
  <2> QED
    BY <2>1, Renews DEF K!KeyringNext
<1>3. ASSUME NEW d \in Devices, TrustDevice(d) PROVE K!KeyringNext
  <2>1. session' = session /\ SameKeys
    BY <1>3 DEF TrustDevice
  <2>2. CASE Known(d)
    <3>1. trust' = [trust EXCEPT ![d] = "trusted"]
      BY <1>3, <2>2 DEF TrustDevice
    <3>2. {e \in Devices : Known(e)}' = {e \in Devices : Known(e)}
      BY <2>2, <3>1 DEF Known, TypeOK
    <3>3. {e \in Devices : IsEncryptable(e)}' =
            {e \in Devices : IsEncryptable(e)} \cup {d}
      BY <3>1 DEF IsEncryptable, TypeOK
    <3>4. d \in {e \in Devices : Known(e)}
      BY <2>2
    <3>5. K!Permit(d)
      BY <2>1, <3>2, <3>3, <3>4, KeysStay DEF K!Permit
    <3> QED
      BY <3>5 DEF K!KeyringNext
  <2>3. CASE ~Known(d)
    <3>1. SameDevices
      BY <1>3, <2>1, <2>3 DEF TrustDevice
    <3> QED
      BY <2>1, <3>1, StillLearns DEF K!KeyringNext
  <2> QED
    BY <2>2, <2>3
<1>4. CASE Encrypt
  BY <1>4, StillLearns DEF Encrypt, K!KeyringNext
<1>5. ASSUME NEW c \in Commands, DiscardCmd(c) PROVE K!KeyringNext
  BY <1>5, StillLearns DEF DiscardCmd, K!KeyringNext
<1> QED
  BY <1>1, <1>2, <1>3, <1>4, <1>5 DEF Command_

\* Lists and bundles.
LEMMA ListOfKeyring ==
  ASSUME TypeOK, [Next]_vars, NEW D \in SUBSET Devices,
         ListPush(D) \/ ListResult(D) \/ ListStopped(D)
  PROVE  K!KeyringNext
<1> USE DEF identity, history
<1>1. SamePaired /\ SameKeys
  BY DEF ListPush, ListResult, ListStopped, SamePaired, SameKeys
<1>2. Grows
  BY KnownGrows
<1>3. SamePermitted
  <2>1. CASE Synced(D)
    BY <2>1, SyncedPermits
  <2>2. CASE ~Synced(D)
    BY <2>2 DEF ListPush, ListResult, ListStopped, SamePermitted, IsEncryptable
  <2> QED
    BY <2>1, <2>2
<1> QED
  BY <1>1, <1>2, <1>3, Learns DEF K!KeyringNext

LEMMA BundleOfKeyring ==
  ASSUME TypeOK, KnownInv, NEW d \in Devices,
         BundleResult(d) \/ BundleUseless(d) \/ BundleStopped(d)
  PROVE  K!KeyringNext
<1> USE DEF identity, peers, history
<1>1. SameKeys
  BY DEF BundleResult, BundleUseless, BundleStopped, SameKeys
<1>2. d \in {e \in Devices : Known(e)}
  BY DEF BundleResult, BundleUseless, BundleStopped, TakeBundle, KnownInv, AskedKnown
<1>3. CASE BundleUseless(d) \/ (BundleResult(d) /\ own = 0)
  BY <1>1, <1>3, StillLearns
  DEF BundleUseless, BundleResult, SameDevices, K!KeyringNext
<1>4. CASE BundleResult(d) /\ own # 0
  <2>1. /\ session' = [session EXCEPT ![d] = "out"]
        /\ trust' = [trust EXCEPT ![d] = "undecided"]
    BY <1>4 DEF BundleResult, Registered
  <2>2. {e \in Devices : Known(e)}' = {e \in Devices : Known(e)}
    BY <1>2, <2>1 DEF Known, TypeOK
  <2>3. {e \in Devices : IsEncryptable(e)}' =
          {e \in Devices : IsEncryptable(e)} \ {d}
    BY <2>1 DEF IsEncryptable, TypeOK
  <2>4. K!Begin(d)
    BY <1>1, <1>2, <1>4, <2>1, <2>2, <2>3, SessionPairs, KeysStay DEF K!Begin
  <2> QED
    BY <2>4 DEF K!KeyringNext
<1>5. CASE BundleStopped(d)
  <2>1. /\ session' = [session EXCEPT ![d] = "out"] /\ own # 0
        /\ trust' = trust
    BY <1>5 DEF BundleStopped
  <2>2. /\ {e \in Devices : Known(e)}' = {e \in Devices : Known(e)}
        /\ {e \in Devices : IsEncryptable(e)}' = {e \in Devices : IsEncryptable(e)}
    BY <2>1 DEF Known, IsEncryptable
  <2>3. K!Begin(d)
    BY <1>1, <1>2, <2>1, <2>2, SessionPairs, KeysStay DEF K!Begin
  <2> QED
    BY <2>3 DEF K!KeyringNext
<1> QED
  BY <1>3, <1>4, <1>5

\* Messages of the contact: each key opens one of them.
LEMMA MessageOfKeyring ==
  ASSUME TypeOK, OpenedInv, NEW d \in Devices, NEW k,
         \/ NormalMessage(d)
         \/ PreKeyOpened(d, k) \/ PreKeyRefused(d, k) \/ PreKeyStopped(d, k)
  PROVE  K!KeyringNext
<1> USE DEF identity, peers, history
<1>1. CASE NormalMessage(d)
  <2>1. SameDevices /\ own # 0 /\ own' = own /\ opened' = opened /\ Replenish(held)
    BY <1>1 DEF NormalMessage, SameDevices
  <2>2. K!Drawn(held)
    BY <2>1, Draws
  <2>3. K!Draw
    BY <2>1, <2>2, DevicesStay DEF K!Draw
  <2> QED
    BY <2>3 DEF K!KeyringNext
<1>2. CASE PreKeyOpened(d, k)
  <2>1. /\ k \in held /\ Noticed(d) /\ own # 0 /\ own' = own
        /\ session' = [session EXCEPT ![d] = "in"]
        /\ Replenish(held \ {k}) \/ Kept(held \ {k})
        /\ opened' = opened \cup {[dev |-> d, key |-> k]}
    BY <1>2 DEF PreKeyOpened, PreKeyMessage, Spent
  <2>2. K!Meet(d)
    BY <2>1, Meets
  <2>3. K!Drawn(held \ {k})
    BY <2>1, Draws
  <2>4. \A o \in opened : o.key # k
    BY <2>1 DEF OpenedInv, PreKeyOpensOnce
  <2>5. K!Open(d, k)
    BY <2>1, <2>2, <2>3, <2>4 DEF K!Open
  <2> QED
    BY <2>1, <2>5 DEF K!KeyringNext
<1>3. CASE PreKeyRefused(d, k)
  <2>1. Noticed(d) /\ SamePaired /\ SameKeys
    BY <1>3 DEF PreKeyRefused, SamePaired, SameKeys
  <2>2. Grows /\ SamePermitted
    BY <2>1, NoticedPermits DEF Noticed, Known, Grows, TypeOK
  <2> QED
    BY <2>1, <2>2, Learns DEF K!KeyringNext
<1>4. CASE PreKeyStopped(d, k)
  <2>1. Noticed(d) /\ own # 0 /\ own' = own /\ made' = made /\ opened' = opened
    BY <1>4 DEF PreKeyStopped, PreKeyMessage
  <2>2. CASE UNCHANGED <<session, held>>
    <3>1. Grows /\ SamePermitted
      BY <2>1, NoticedPermits DEF Noticed, Known, Grows, TypeOK
    <3>2. SamePaired /\ SameKeys
      BY <2>1, <2>2 DEF SamePaired, SameKeys
    <3> QED
      BY <3>1, <3>2, Learns DEF K!KeyringNext
  <2>3. CASE ~UNCHANGED <<session, held>>
    <3>1. /\ k \in held /\ session' = [session EXCEPT ![d] = "in"]
          /\ held' \in {held, held \ {k}}
      BY <1>4, <2>3 DEF PreKeyStopped, Spent
    <3>2. K!Meet(d)
      BY <2>1, <3>1, Meets
    <3>3. K!Miss(d, k)
      BY <2>1, <3>1, <3>2 DEF K!Miss
    <3> QED
      BY <3>1, <3>3 DEF K!KeyringNext
  <2> QED
    BY <2>2, <2>3
<1> QED
  BY <1>1, <1>2, <1>3, <1>4

LEMMA StepsOfAKeyring ==
  TypeOK /\ KnownInv /\ OpenedInv /\ [Next]_vars => [K!KeyringNext]_(K!keyringVars)
<1> SUFFICES ASSUME TypeOK, KnownInv, OpenedInv, [Next]_vars
             PROVE  K!KeyringNext
  OBVIOUS
<1> USE DEF identity, peers, history, SameDevices, SameKeys
<1>1. CASE User
  BY <1>1, StillLearns DEF User, UserEnable, UserSend, UserTrust, K!KeyringNext
<1>2. CASE HandleEvent
  BY <1>2, StillLearns DEF HandleEvent, K!KeyringNext
<1>3. CASE Session_
  BY <1>3, StillLearns DEF Session_, StartSession, GoOnline, GoDown, EndSession, Stop,
     Deliver, K!KeyringNext
<1>4. CASE Contact
  BY <1>4, ListOfKeyring, BundleOfKeyring, MessageOfKeyring DEF Contact
<1>5. CASE UNCHANGED vars
  BY <1>5, StillLearns DEF vars, K!KeyringNext
<1> QED
  BY <1>1, <1>2, <1>3, <1>4, <1>5, CommandOfKeyring DEF Next

\* The store of OMEMO implements the keyring, whatever devices there are, however
\* many prekeys, and wherever the program is stopped: a handler that is cut off
\* leaves what some step of the keyring, or none, would have left.
THEOREM OmemoImplementsKeyring == Spec => ImplementsKeyring
<1>1. Init => K!KeyringInit
  BY DEF Init, K!KeyringInit, Known, IsEncryptable
<1>2. Init => OpenedInv
  BY DEF Init, OpenedInv, PreKeyOpensOnce
<1>3. TypeOK /\ OpenedInv /\ [Next]_vars => OpenedInv'
  BY NextOpened
<1> QED
  BY <1>1, <1>2, <1>3, StepsOfAKeyring, OmemoTypeCorrect, KnownAlways, PTL
     DEF Spec, ImplementsKeyring, K!KeyringSpec

-----------------------------------------------------------------------------
(* The promise is enough *)

\* The keys that are spent are old ones, and what is paired is known: this much
\* follows from the steps of a keyring alone.
KeyringInv ==
  /\ own \in Nat /\ made \in Nat /\ opened \subseteq [dev : Devices, key : Keys]
  /\ held \subseteq KeysOf(own, 1, made)
  /\ PreKeyOpensOnce
  /\ \A o \in opened : o.key.gen <= own /\ (o.key.gen = own => o.key.n <= made)
  /\ {d \in Devices : session[d] # "none"} \subseteq {d \in Devices : Known(d)}

\* New keys are none of the spent ones, and what is left of the old ones is not
\* either.
LEMMA DrawnKeeps ==
  ASSUME KeyringInv, NEW rest \in SUBSET held, K!Drawn(rest), UNCHANGED own
  PROVE  /\ made' \in Nat /\ made' >= made
         /\ held' \subseteq KeysOf(own', 1, made')
         /\ \A o \in opened : o.key \notin rest => o.key \notin held'
<1>1. made' \in Nat /\ made' >= made /\ own \in Nat /\ made \in Nat
  BY DEF K!Drawn, KeyringInv
<1>2. held' = rest \cup KeysOf(own, made + 1, made')
  BY DEF K!Drawn, K!KeysOf, KeysOf
<1>3. \A k \in rest : k \in KeysOf(own, 1, made')
  BY <1>1 DEF KeyringInv, KeysOf
<1>4. KeysOf(own, made + 1, made') \subseteq KeysOf(own, 1, made')
  BY <1>1 DEF KeysOf
<1>5. ASSUME NEW o \in opened PROVE o.key \notin KeysOf(own, made + 1, made')
  BY <1>1, <1>5 DEF KeyringInv, KeysOf
<1> QED
  BY <1>1, <1>2, <1>3, <1>4, <1>5

LEMMA KeyringKeeps ==
  ASSUME KeyringInv, [K!KeyringNext]_(K!keyringVars)
  PROVE  KeyringInv'
<1> DEFINE known  == {d \in Devices : Known(d)}
           paired == {d \in Devices : session[d] # "none"}
<1>1. ASSUME UNCHANGED K!keys PROVE
        /\ own' \in Nat /\ made' \in Nat /\ held' \subseteq KeysOf(own', 1, made')
        /\ opened' \subseteq [dev : Devices, key : Keys] /\ PreKeyOpensOnce'
        /\ \A o \in opened' : o.key.gen <= own' /\ (o.key.gen = own' => o.key.n <= made')
  BY <1>1 DEF K!keys, KeyringInv, PreKeyOpensOnce
<1>2. ASSUME UNCHANGED K!devices PROVE paired' \subseteq known'
  BY <1>2 DEF K!devices, KeyringInv
<1>3. CASE K!Learn
  <2>1. paired' \subseteq known' /\ UNCHANGED K!keys
    BY <1>3 DEF K!Learn, KeyringInv
  <2> QED
    BY <1>1, <2>1 DEF KeyringInv
<1>4. CASE K!Draw
  <2>1. UNCHANGED K!devices /\ K!Drawn(held) /\ UNCHANGED <<own, opened>>
    BY <1>4 DEF K!Draw
  <2>2. /\ made' \in Nat /\ made' >= made /\ held' \subseteq KeysOf(own', 1, made')
        /\ \A o \in opened : o.key \notin held => o.key \notin held'
    BY <2>1, DrawnKeeps
  <2>3. PreKeyOpensOnce'
    BY <2>1, <2>2 DEF KeyringInv, PreKeyOpensOnce
  <2>4. \A o \in opened' : o.key.gen <= own' /\ (o.key.gen = own' => o.key.n <= made')
    <3>1. SUFFICES ASSUME NEW o \in opened, o.key.gen = own PROVE o.key.n <= made'
      BY <2>1 DEF KeyringInv
    <3>2. o.key.n <= made
      BY <3>1 DEF KeyringInv
    <3>3. o.key.n \in Nat /\ made \in Nat
      BY DEF KeyringInv, Keys
    <3> QED
      BY <2>2, <3>2, <3>3
  <2> QED
    BY <1>2, <2>1, <2>2, <2>3, <2>4 DEF KeyringInv
<1>5. CASE K!Renew
  <2>1. /\ own' = own + 1 /\ made' \in Nat /\ held' = KeysOf(own', 1, made')
        /\ UNCHANGED opened /\ UNCHANGED K!devices
    BY <1>5 DEF K!Renew, K!KeysOf, KeysOf
  <2>2. own \in Nat /\ \A o \in opened : o.key.gen \in Nat /\ o.key.gen <= own
    BY DEF KeyringInv, Keys
  <2>3. own' \in Nat
    BY <2>1, <2>2
  <2>4. \A o \in opened : o.key.gen <= own' /\ o.key.gen # own'
    BY <2>1, <2>2
  <2>5. PreKeyOpensOnce'
    BY <2>1, <2>4 DEF KeyringInv, PreKeyOpensOnce, KeysOf
  <2> QED
    BY <1>2, <2>1, <2>3, <2>4, <2>5 DEF KeyringInv
<1>6. ASSUME NEW d \in Devices, K!Permit(d) PROVE KeyringInv'
  <2>1. paired' = paired /\ known' = known /\ UNCHANGED K!keys
    BY <1>6 DEF K!Permit
  <2> QED
    BY <1>1, <2>1 DEF KeyringInv
<1>7. ASSUME NEW d \in Devices, K!Begin(d) PROVE KeyringInv'
  <2>1. paired' = paired \cup {d} /\ known' = known /\ d \in known /\ UNCHANGED K!keys
    BY <1>7 DEF K!Begin
  <2> QED
    BY <1>1, <2>1 DEF KeyringInv
<1>8. ASSUME NEW d \in Devices, K!Meet(d) PROVE paired' \subseteq known' /\ own' = own
  BY <1>8 DEF K!Meet, KeyringInv
<1>9. ASSUME NEW d \in Devices, NEW k \in held, K!Open(d, k) PROVE KeyringInv'
  <2>1. /\ \A s \in opened : s.key # k
        /\ K!Meet(d) /\ K!Drawn(held \ {k})
        /\ opened' = opened \cup {[dev |-> d, key |-> k]}
    BY <1>9 DEF K!Open
  <2>2. paired' \subseteq known' /\ own' = own
    BY <1>8, <2>1
  <2>3. /\ made' \in Nat /\ made' >= made /\ held' \subseteq KeysOf(own', 1, made')
        /\ \A o \in opened : o.key \notin held \ {k} => o.key \notin held'
    BY <2>1, <2>2, DrawnKeeps
  <2>4. own \in Nat /\ made \in Nat /\ k \in KeysOf(own, 1, made)
    BY DEF KeyringInv
  <2>5. k.gen = own /\ k.n \in 1..made
    BY <2>4 DEF KeysOf
  <2>6. k \notin held'
    <3>1. held' = (held \ {k}) \cup KeysOf(own, made + 1, made')
      BY <2>1 DEF K!Drawn, K!KeysOf, KeysOf
    <3>2. k \notin KeysOf(own, made + 1, made')
      BY <2>3, <2>4, <2>5 DEF KeysOf
    <3> QED
      BY <3>1, <3>2
  <2>7. PreKeyOpensOnce'
    <3>1. \A o \in opened : o.key \notin held /\ \A p \in opened : p.key = o.key => p = o
      BY DEF KeyringInv, PreKeyOpensOnce
    <3>2. \A o \in opened' : o.key \notin held'
      BY <2>1, <2>3, <2>6, <3>1
    <3>3. \A o \in opened', p \in opened' : p.key = o.key => p = o
      BY <2>1, <3>1
    <3> QED
      BY <3>2, <3>3 DEF PreKeyOpensOnce
  <2>8. \A o \in opened' : o.key.gen <= own' /\ (o.key.gen = own' => o.key.n <= made')
    <3>1. SUFFICES ASSUME NEW o \in opened'
                   PROVE  o.key.gen <= own /\ (o.key.gen = own => o.key.n <= made')
      BY <2>2
    <3>2. CASE o \in opened
      <4>1. o.key.gen <= own
        BY <3>2 DEF KeyringInv
      <4>2. ASSUME o.key.gen = own PROVE o.key.n <= made'
        <5>1. o.key.n <= made
          BY <3>2, <4>2 DEF KeyringInv

        <5>2. o.key.n \in Nat
          BY <3>2 DEF KeyringInv, Keys
        <5> QED
          BY <2>3, <2>4, <5>1, <5>2
      <4> QED
        BY <4>1, <4>2
    <3>3. CASE o.key = k
      BY <2>3, <2>4, <2>5, <3>3
    <3> QED
      BY <2>1, <3>1, <3>2, <3>3
  <2>9. opened' \subseteq [dev : Devices, key : Keys]
    <3>1. k \in Keys
      BY <2>4, KeyTypes
    <3> QED
      BY <2>1, <3>1 DEF KeyringInv
  <2> QED
    BY <2>2, <2>3, <2>4, <2>7, <2>8, <2>9 DEF KeyringInv
<1>10. ASSUME NEW d \in Devices, NEW k \in held, K!Miss(d, k) PROVE KeyringInv'
  <2>1. paired' \subseteq known' /\ own' = own
    BY <1>8, <1>10 DEF K!Miss
  <2>2. held' \subseteq held /\ UNCHANGED <<made, opened>>
    BY <1>10 DEF K!Miss
  <2> QED
    BY <2>1, <2>2 DEF KeyringInv, PreKeyOpensOnce
<1>11. CASE UNCHANGED K!keyringVars
  BY <1>1, <1>2, <1>11 DEF K!keyringVars, KeyringInv
<1> QED
  BY <1>3, <1>4, <1>5, <1>6, <1>7, <1>9, <1>10, <1>11 DEF K!KeyringNext

\* The keyring promises enough: whatever follows its steps, this program or
\* another one, opens one message with a key and pairs known devices only.
THEOREM KeyringSuffices == ImplementsKeyring => [](PreKeyOpensOnce /\ SessionsAreKnown)
<1>1. K!KeyringInit => KeyringInv
  BY DEF K!KeyringInit, KeyringInv, PreKeyOpensOnce
<1>2. KeyringInv => PreKeyOpensOnce /\ SessionsAreKnown
  BY DEF KeyringInv, SessionsAreKnown
<1> QED
  BY <1>1, <1>2, KeyringKeeps, PTL DEF ImplementsKeyring, K!KeyringSpec
=============================================================================
