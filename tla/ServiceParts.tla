---------------------------- MODULE ServiceParts ----------------------------
(***************************************************************************)
(* The services of the client, side by side: uploads, settings, blocking,  *)
(* several accounts, the profile, commands and room lists, avatars,        *)
(* registration, discovery, dialling, and what is kept at the server.      *)
(* These share no state in the model, so a behaviour is one of a single    *)
(* component, chosen at first.                                             *)
(***************************************************************************)
EXTENDS Upload, FiniteSets

CONSTANTS
  Parts,                                                      \* the components to run
  MaxSettingsEdits, MaxLinks, MaxPrefs, MaxRuns, MaxCopies,   \* of Settings
  Peers, MaxAsked, MaxSent, MaxUps,                           \* of Blocking
  Users, Ghost, MaxDeeds, MaxBinds, MaxMail,                  \* of Accounts
  Mates, Resources, Texts, MaxProfileEdits, MaxRosters, MaxProfileSessions, \* of Profile
  Services, MucService, Nodes, NodesOf, MaxMoves, MaxStreams, \* of Queries
  Friends, Pictures, Width, Height, MaxShots, MaxFetches, MaxBreaks, \* of Avatars
  MaxTries, MaxReplies,                                       \* of Registration
  Identities, Features, Contacts, MaxPresences, MaxRequests, MaxDiscoStreams, \* of Disco
  MaxDialEdits, MaxLogins, MaxDials,                          \* of Dial
  Halls, Trolls, WithPush, MaxOrders, MaxVaultSessions        \* of Vault

\* Bounds that the guards compare with are numbers, and a service offers nodes
\* that there are.
ASSUME BlockingAssumption == IsFiniteSet(Peers)
ASSUME AccountsAssumption == MaxMail \in Nat
ASSUME QueriesAssumption == \A s \in Services \cup {MucService} : NodesOf[s] \subseteq Nodes
ASSUME AvatarsAssumption == MaxShots \in Nat /\ MaxFetches \in Nat /\ MaxBreaks \in Nat
ASSUME RegistrationAssumption == MaxTries \in Nat
ASSUME DiscoAssumption == MaxPresences \in Nat /\ MaxRequests \in Nat /\ MaxDiscoStreams \in Nat
ASSUME VaultAssumption ==
  WithPush \in BOOLEAN /\ MaxOrders \in Nat /\ MaxVaultSessions \in Nat

VARIABLES
  part,
  scene, copies, typed, ticked, app, file, creds, settingsKnown, settingsLastCfg,
  settingsCalls, link, news, settingsChosen, overruled, outdated, spurned, owed, settingsEdits,
  links, prefs, runs,
  dialogs, listing, blockingOrders, on, blocked, out, in, listed, blockingKept, steady,
  leaked, blockingAsked, blockingSent, ups,
  base, switchers, accounts, active, accountsShown, adding, focus, engines, passwords, last,
  deeds, binds, mail,
  editor, faces, fetching, profileTasks, live, waiting, profileAsks, profileAnswers, card,
  refusal, profileCalls, profileEdits, rosters, profileSessions, profileN,
  desk, target, step, offered, catalogue, carriers, attached, awaited, queries,
  queriesReplies, running, queriesAsked, queriesUnheard, moves, queriesStreams, queriesN,
  pep, photo, wanted, incoming, pendingVcards, avatarsKnown, avatarsKept, crop, ownFile,
  published, pushes, uploads, shots, fetches, breaks,
  registrationShown, carried, queue, mode, registrationReplies, told, begun, ended, left,
  tries, says,
  own, discoOutbox, discoAsked, seen, cached, clocks, sends, discoAsks, discoStreams,
  disk, panel, dialLastCfg, session, proxy, broken, dialChosen, dialFailed, dialEdits,
  logins, dials,
  up, ignored, requests, vaultOutbox, vaultAnswers, node, stored, registered, account,
  vaultShown, wished, toggled, denied, vaultOrders, vaultSessions

SE == INSTANCE Settings WITH
        MaxEdits <- MaxSettingsEdits, known <- settingsKnown, lastCfg <- settingsLastCfg,
        calls <- settingsCalls, chosen <- settingsChosen, edits <- settingsEdits

BL == INSTANCE Blocking WITH
        orders <- blockingOrders, kept <- blockingKept, asked <- blockingAsked,
        sent <- blockingSent

AC == INSTANCE Accounts WITH shown <- accountsShown

PR == INSTANCE Profile WITH
        MaxEdits <- MaxProfileEdits, MaxSessions <- MaxProfileSessions,
        tasks <- profileTasks, asks <- profileAsks, answers <- profileAnswers,
        calls <- profileCalls, edits <- profileEdits, sessions <- profileSessions,
        n <- profileN

QU == INSTANCE Queries WITH
        replies <- queriesReplies, asked <- queriesAsked, unheard <- queriesUnheard,
        streams <- queriesStreams, n <- queriesN

AV == INSTANCE Avatars WITH known <- avatarsKnown, kept <- avatarsKept

RE == INSTANCE Registration WITH shown <- registrationShown, replies <- registrationReplies

DI == INSTANCE Disco WITH
        Peers <- Contacts, MaxAsked <- MaxRequests, MaxStreams <- MaxDiscoStreams,
        outbox <- discoOutbox, asked <- discoAsked,
        asks <- discoAsks, streams <- discoStreams

DL == INSTANCE Dial WITH
        Nothing <- None, MaxEdits <- MaxDialEdits, lastCfg <- dialLastCfg,
        chosen <- dialChosen, failed <- dialFailed, edits <- dialEdits

VA == INSTANCE Vault WITH
        MaxSessions <- MaxVaultSessions, outbox <- vaultOutbox, answers <- vaultAnswers,
        shown <- vaultShown, orders <- vaultOrders, sessions <- vaultSessions

settingsState == <<scene, copies, typed, ticked, app, file, creds, settingsKnown,
                   settingsLastCfg, settingsCalls, link, news, settingsChosen, overruled,
                   outdated, spurned, owed, settingsEdits, links, prefs, runs>>
blockingState == <<dialogs, listing, blockingOrders, on, blocked, out, in, listed,
                   blockingKept, steady, leaked, blockingAsked, blockingSent, ups>>
accountsState == <<base, switchers, accounts, active, accountsShown, adding, focus, engines,
                   passwords, last, deeds, binds, mail>>
profileState == <<editor, faces, fetching, profileTasks, live, waiting, profileAsks,
                  profileAnswers, card, refusal, profileCalls, profileEdits, rosters,
                  profileSessions, profileN>>
queriesState == <<desk, target, step, offered, catalogue, carriers, attached, awaited,
                  queries, queriesReplies, running, queriesAsked, queriesUnheard, moves,
                  queriesStreams, queriesN>>
avatarsState == <<pep, photo, wanted, incoming, pendingVcards, avatarsKnown, avatarsKept,
                  crop, ownFile, published, pushes, uploads, shots, fetches, breaks>>
registrationState == <<registrationShown, carried, queue, mode, registrationReplies, told,
                       begun, ended, left, tries, says>>
discoState == <<own, discoOutbox, discoAsked, seen, cached, clocks, sends, discoAsks,
                discoStreams>>
dialState == <<disk, panel, dialLastCfg, session, proxy, broken, dialChosen, dialFailed,
               dialEdits, logins, dials>>
vaultState == <<up, ignored, requests, vaultOutbox, vaultAnswers, node, stored, registered,
                account, vaultShown, wished, toggled, denied, vaultOrders, vaultSessions>>

\* A behaviour is one of a single component; the others stay as they begin.
AllInit ==
  /\ part \in Parts /\ Init /\ SE!Init /\ BL!Init /\ AC!Init /\ PR!Init /\ QU!Init /\ AV!Init
  /\ RE!Init /\ DI!Init /\ DL!Init /\ VA!Init
  /\ (part # "blocking" => listed = {} /\ blockingKept = {})
  /\ (part # "profile" => card = [text |-> PR!Blank, photo |-> TRUE])
  /\ (part # "avatars" => photo = [f \in Friends |-> AV!NoFace])

AllNext ==
  /\ UNCHANGED part
  /\ IF part = "upload" THEN Next ELSE UNCHANGED vars
  /\ IF part = "settings" THEN SE!Next ELSE UNCHANGED settingsState
  /\ IF part = "blocking" THEN BL!Next ELSE UNCHANGED blockingState
  /\ IF part = "accounts" THEN AC!Next ELSE UNCHANGED accountsState
  /\ IF part = "profile" THEN PR!Next ELSE UNCHANGED profileState
  /\ IF part = "queries" THEN QU!Next ELSE UNCHANGED queriesState
  /\ IF part = "avatars" THEN AV!Next ELSE UNCHANGED avatarsState
  /\ IF part = "registration" THEN RE!Next ELSE UNCHANGED registrationState
  /\ IF part = "disco" THEN DI!Next ELSE UNCHANGED discoState
  /\ IF part = "dial" THEN DL!Next ELSE UNCHANGED dialState
  /\ IF part = "vault" THEN VA!Next ELSE UNCHANGED vaultState

allVars == <<part, vars, settingsState, blockingState, accountsState, profileState,
             queriesState, avatarsState, registrationState, discoState, dialState,
             vaultState>>

AllSpec == AllInit /\ [][AllNext]_allVars


\* Every variable keeps its type.
AllTypesOK ==
  CASE part = "upload" -> TypeOK
    [] part = "settings" -> SE!TypeOK
    [] part = "blocking" -> BL!TypeOK
    [] part = "accounts" -> AC!TypeOK
    [] part = "profile" -> PR!TypeOK
    [] part = "queries" -> QU!TypeOK
    [] part = "avatars" -> AV!TypeOK
    [] part = "registration" -> RE!TypeOK
    [] part = "disco" -> DI!TypeOK
    [] part = "dial" -> DL!TypeOK
    [] OTHER -> VA!TypeOK

\* What the user chose last is what the settings and the disk have, whatever else
\* is saved, until the user goes back to an older settings screen; the mode of the
\* archive may be the server's (mod.rs, Message::Settings; MamPrefsReceived).
ChoiceKept == part = "settings" => SE!ChoiceKept

\* The session's copy of the blocklist is the server's when nothing is on its
\* way, and nothing of a blocked peer gets through (blocking.rs; iq.rs).
BlockedAgrees == part = "blocking" => BL!BlockedAgrees /\ BL!ArchiveFiltered

\* The active account is a registered one, also after it was removed
\* (account_state.rs, switch_to and remove_account).
ActiveIsRegistered == part = "accounts" => AC!ActiveIsRegistered

\* A contact is shown with a picture of that contact, and the picture of an address
\* is asked for once, whatever brings the address up (avatar.rs, on_vcard_result; xmpp_events.rs,
\* RosterReceived and PresenceUpdated).
AvatarsAgree ==
  /\ part = "avatars" => AV!FaceIsTheirs
  /\ part = "profile" => PR!AskedOnce

\* Each registration the engine begins ends with one word to the window
\* (engine.rs, run_registration_session).
RegistrationEnds == part = "registration" => RE!RegistrationEnds

\* A command is Executing only while its own request or answer is on its way, or
\* after that was lost, refused or without a command; and the answer to a disco#info
\* request agrees with the digest that was announced (adhoc.rs, on_result;
\* disco.rs, compute_ver_hash).
AnswersAgree ==
  /\ part = "queries" => QU!CommandsAnswered
  /\ part = "disco" => DI!AnswersMatchDigest

\* A session, however often it was begun again, connects to what the user chose at
\* the last login (engine.rs, run_session; login.rs, connect_config).
DialsAsTold == part = "dial" => DL!DialsAsTold

\* A clean-up that is carried out leaves no registration for push but that of this
\* session, and an enable that is carried out stays so, in whatever session the
\* others were cut off; and who is told that the password was changed, or that
\* the account is gone, is told the truth (engine.rs, Online; account.rs,
\* on_iq_result).
ServerIsRight == part = "vault" => VA!PushIsSingle /\ VA!WordIsTrue

-----------------------------------------------------------------------------
(* What the comments of the code say, and the code does not do: each is      *)
(* violated with Parts set to the component alone.                           *)

\* engine.rs: "respect user's privacy preference for read markers"
PreferenceRespected == SE!PreferenceRespected

\* login.rs: "password stays in keychain and we auto-connect next launch"
Remembers == SE!Remembers

\* blocklist.rs: "Sorted, deduplicated list of currently blocked JIDs."
PanelShowsBlocked == BL!PanelShowsBlocked

\* chat.rs: "Called by App whenever the active account changes or the unread
\* total is updated."
IndicatorAgrees == AC!IndicatorAgrees

\* xmpp_events.rs: "register the new account in the multi-engine manager so
\* future commands can be routed to it"
FocusIsRouted == AC!FocusIsRouted

\* vcard_editor.rs: "Engine confirmed the vCard was saved."
SavedIsStored == PR!SavedIsStored

\* adhoc.rs: "Waiting for discovery results to arrive."
DiscoveryAnswered == QU!DiscoveryAnswered

\* chat.rs: "public rooms list received from MUC service"
RoomsAreRooms == QU!RoomsAreRooms

\* engine.rs: "disable all stale push subscriptions on connect"
StaleAreGone == VA!StaleAreGone

\* avatar.rs: "legacy avatar via IQ vCard, used as fallback"
VcardIsFallback == AV!VcardIsFallback

\* avatar_crop.rs: "Clamp so the crop rect stays inside the image."
CropInside == AV!CropInside

\* login.rs: the words under the form
StatusIsTrue == RE!StatusIsTrue

\* disco.rs: "This element should be appended to every outbound `<presence>` stanza."
EveryPresenceHasCaps == DI!EveryPresenceHasCaps

\* engine.rs: "the transport-kind logic (TCP -> WebSocket fallback after 3 failures) is
\* exercised on every connection attempt"
FallsBack == DL!FallsBack

\* connection/mod.rs: "When set this SRV name is resolved instead of the standard RFC
\* 6120 names."
OverrideHonoured == DL!OverrideHonoured

\* ignore.rs: "Each room's ignore list is persisted as a separate PubSub node"
IgnoredStays == VA!IgnoredStays
=============================================================================
