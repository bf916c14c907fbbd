-------------------------------- MODULE Vault --------------------------------
(***************************************************************************)
(* What the client keeps at the server for itself: who is ignored in a     *)
(* room, the list of conversations (both private PubSub nodes), the        *)
(* registration for push notifications (XEP-0357), and the account, whose  *)
(* password may be changed and which may be deleted (XEP-0077).  The       *)
(* managers live as long as a session; the engine takes these commands,    *)
(* although no screen sends any of them yet.                               *)
(***************************************************************************)
EXTENDS Naturals, Sequences, FiniteSets

CONSTANTS
  Halls,       \* rooms
  Trolls,      \* users that may be ignored
  WithPush,    \* BOOLEAN: the settings name a push service
  MaxOrders,   \* bound: commands
  MaxSessions  \* bound: sessions

VARIABLES
  up,         \* a session is online
  ignored,    \* ignore_mgr
  requests,   \* account_mgr: the ids of changes and of deletions that wait
  outbox,     \* IQs to the server, in order
  answers,    \* IQs from the server, in order
  node,       \* external: the node of each room
  stored,     \* external: the conversations
  registered, \* external: devices registered for push
  account,    \* external: passwords changed, and whether the account is there
  shown,      \* events: lists, and words about the account
  wished,     \* history: who is to be ignored, by the commands
  toggled,    \* history: push was switched by a command in this session
  denied,     \* history: what the server refused of push in this session
  orders, sessions \* history: counters for the bounds, which also make ids

vaVars == <<up, ignored, requests, outbox, answers, node, stored, registered, account, shown,
            wished, toggled, denied, orders, sessions>>
serverVars == <<node, stored, registered, account>>

Absent == {"absent"}
Order == up /\ orders < MaxOrders /\ orders' = orders + 1
         /\ UNCHANGED <<up, answers, serverVars, shown, denied, sessions>>
Kept == UNCHANGED <<ignored, requests, wished, toggled>>
Send(iq) == outbox' = Append(outbox, iq)

Init ==
  /\ up = FALSE /\ ignored = [r \in Halls |-> {}] /\ requests = [change |-> {}, delete |-> {}]
  /\ outbox = <<>> /\ answers = <<>>
  /\ node = [r \in Halls |-> Absent] /\ stored = {} /\ registered = {}
  /\ account = [changes |-> 0, there |-> TRUE]
  /\ shown = [changed |-> 0, deleted |-> FALSE, lists |-> [r \in Halls |-> {}], convs |-> {}]
  /\ wished = [r \in Halls |-> {}] /\ toggled = FALSE /\ denied = {} /\ orders = 0 /\ sessions = 0

-----------------------------------------------------------------------------
(* Push notifications. A device is the number under which it registers.      *)

\* build_enable_iq makes up a node for the device each time.
BuildEnableIq(n) == [kind |-> "enable", device |-> n]

\* It names no service, which the protocol asks for.
BuildDisableAllIq == [kind |-> "disable all"]

\* The subscription that would name the device is never noted, since the answer
\* to an enable is not looked at; so a node is made up here as well.
BuildDisableIq(n) == [kind |-> "disable", device |-> n]

Fresh == 10 + orders

\* (mutant) What is stale is disabled last.
OnlinePushCleanupLast ==
  (IF WithPush THEN <<BuildEnableIq(sessions + 1)>> ELSE <<>>) \o <<BuildDisableAllIq>>

\* On connect: stale registrations are removed, then this device registers if
\* the settings name a service.
OnlinePush ==
  <<BuildDisableAllIq>> \o (IF WithPush THEN <<BuildEnableIq(sessions + 1)>> ELSE <<>>)

Online ==
  /\ ~up /\ account.there /\ sessions < MaxSessions /\ sessions' = sessions + 1
  /\ up' = TRUE /\ outbox' = OnlinePush /\ toggled' = FALSE /\ denied' = {}
  /\ UNCHANGED <<ignored, requests, answers, serverVars, shown, wished, orders>>

SessionEnd ==
  /\ up /\ up' = FALSE /\ outbox' = <<>> /\ answers' = <<>>
  /\ ignored' = [r \in Halls |-> {}] /\ requests' = [change |-> {}, delete |-> {}]
  /\ UNCHANGED <<serverVars, shown, wished, toggled, denied, orders, sessions>>

EnablePush ==
  /\ Order /\ Send(BuildEnableIq(Fresh)) /\ toggled' = TRUE
  /\ UNCHANGED <<ignored, requests, wished>>

DisablePush ==
  /\ Order /\ Send(BuildDisableIq(Fresh)) /\ toggled' = TRUE
  /\ UNCHANGED <<ignored, requests, wished>>

DisableAllPush ==
  /\ Order /\ Send(BuildDisableAllIq) /\ toggled' = TRUE /\ UNCHANGED <<ignored, requests, wished>>

-----------------------------------------------------------------------------
(* Private nodes.                                                            *)

BuildPublishIq(r, us) == [kind |-> "publish", room |-> r, users |-> us]

IgnoreUser(r, u) ==
  /\ Order /\ ignored' = [ignored EXCEPT ![r] = @ \cup {u}]
  /\ Send(BuildPublishIq(r, ignored'[r])) /\ wished' = [wished EXCEPT ![r] = @ \cup {u}]
  /\ UNCHANGED <<requests, toggled>>

UnignoreUser(r, u) ==
  /\ Order /\ ignored' = [ignored EXCEPT ![r] = @ \ {u}]
  /\ Send(BuildPublishIq(r, ignored'[r])) /\ wished' = [wished EXCEPT ![r] = @ \ {u}]
  /\ UNCHANGED <<requests, toggled>>

FetchIgnoreList(r) == Order /\ Send([kind |-> "fetch", room |-> r]) /\ Kept
SyncConversations(cs) == Order /\ Send([kind |-> "save", convs |-> cs]) /\ Kept
FetchConversations == Order /\ Send([kind |-> "load"]) /\ Kept

\* parse_result: an answer without the payload changes nothing; the list is
\* told as it is then.
ParseIgnored(e) ==
  ignored' = IF e.users = Absent THEN ignored ELSE [ignored EXCEPT ![e.room] = e.users]

-----------------------------------------------------------------------------
(* The account.                                                              *)

ChangePassword ==
  /\ Order /\ Send([kind |-> "change", id |-> orders])
  /\ requests' = [requests EXCEPT !.change = @ \cup {orders}]
  /\ UNCHANGED <<ignored, wished, toggled>>

DeleteAccount ==
  /\ Order /\ Send([kind |-> "delete", id |-> orders])
  /\ requests' = [requests EXCEPT !.delete = @ \cup {orders}]
  /\ UNCHANGED <<ignored, wished, toggled>>

\* on_iq_result: the id says what it was that succeeded or failed.
OnIqResult(e) ==
  /\ requests' = [k \in DOMAIN requests |-> requests[k] \ {e.id}]
  /\ shown' = CASE e.id \in requests.change /\ e.ok -> [shown EXCEPT !.changed = @ + 1]
                [] e.id \in requests.delete /\ e.ok -> [shown EXCEPT !.deleted = TRUE]
                [] OTHER -> shown

HandleIq ==
  /\ up /\ answers # <<>> /\ answers' = Tail(answers)
  /\ LET e == Head(answers) IN
       \/ /\ e.kind = "fetched" /\ ParseIgnored(e)
          /\ shown' = [shown EXCEPT !.lists[e.room] = ignored'[e.room]] /\ UNCHANGED requests
       \/ /\ e.kind = "loaded" /\ shown' = [shown EXCEPT !.convs = e.convs]
          /\ UNCHANGED <<ignored, requests>>
       \/ e.kind = "account" /\ OnIqResult(e) /\ UNCHANGED ignored
  /\ UNCHANGED <<up, outbox, serverVars, wished, toggled, denied, orders, sessions>>

-----------------------------------------------------------------------------
(* The server takes what is sent in order, and refuses what it likes.        *)

Answer(e) == answers' = Append(answers, e)
Silent == UNCHANGED answers

Grant(q) ==
  /\ \/ /\ q.kind = "publish" /\ node' = [node EXCEPT ![q.room] = q.users] /\ Silent
        /\ UNCHANGED <<stored, registered, account>>
     \/ /\ q.kind = "fetch" /\ UNCHANGED serverVars
        /\ Answer([kind |-> "fetched", room |-> q.room, users |-> node[q.room]])
     \/ q.kind = "save" /\ stored' = q.convs /\ Silent /\ UNCHANGED <<node, registered, account>>
     \/ q.kind = "load" /\ UNCHANGED serverVars /\ Answer([kind |-> "loaded", convs |-> stored])
     \/ /\ q.kind = "enable" /\ registered' = registered \cup {q.device} /\ Silent
        /\ UNCHANGED <<node, stored, account>>
     \/ /\ q.kind = "disable" /\ registered' = registered \ {q.device} /\ Silent
        /\ UNCHANGED <<node, stored, account>>
     \/ /\ q.kind = "disable all" /\ registered' = {} /\ Silent
        /\ UNCHANGED <<node, stored, account>>
     \/ /\ q.kind \in {"change", "delete"} /\ UNCHANGED <<node, stored, registered>>
        /\ account' = IF q.kind = "change" THEN [account EXCEPT !.changes = @ + 1]
                      ELSE [account EXCEPT !.there = FALSE]
        /\ Answer([kind |-> "account", id |-> q.id, ok |-> TRUE])
  /\ UNCHANGED denied

\* Of the errors only those to an account request are looked at: on_enable_error
\* and on_disable_result are never called, and nothing is tried again.
Refuse(q) ==
  /\ UNCHANGED serverVars /\ denied' = denied \cup ({q.kind} \cap {"enable", "disable all"})
  /\ IF q.kind \in {"change", "delete"}
       THEN Answer([kind |-> "account", id |-> q.id, ok |-> FALSE]) ELSE Silent

Serve ==
  /\ up /\ outbox # <<>> /\ outbox' = Tail(outbox)
  /\ (Grant(Head(outbox)) \/ Refuse(Head(outbox)))
  /\ UNCHANGED <<up, ignored, requests, shown, wished, toggled, orders, sessions>>

Next ==
  \/ Online \/ SessionEnd \/ EnablePush \/ DisablePush \/ DisableAllPush \/ FetchConversations
  \/ ChangePassword \/ DeleteAccount \/ HandleIq \/ Serve
  \/ \E r \in Halls : FetchIgnoreList(r)
  \/ \E r \in Halls, u \in Trolls : IgnoreUser(r, u) \/ UnignoreUser(r, u)
  \/ \E cs \in SUBSET Halls : SyncConversations(cs)

Spec == Init /\ [][Next]_vaVars

-----------------------------------------------------------------------------

TypeOK ==
  /\ up \in BOOLEAN /\ ignored \in [Halls -> SUBSET Trolls]
  /\ requests.change \cup requests.delete \subseteq 0..MaxOrders
  /\ \A r \in Halls : node[r] = Absent \/ node[r] \subseteq Trolls
  /\ stored \subseteq Halls /\ registered \subseteq Nat
  /\ orders \in 0..MaxOrders /\ sessions \in 0..MaxSessions

\* Once the server has answered what the connection sends: if it carried out the
\* clean-up, no registration is left of the sessions before, wherever they were
\* cut off; and if it registered the device, that is still so, for the clean-up
\* does not come after it. Refused, neither is tried again in the session; a
\* clean-up names no service, which is what a server may refuse.
PushIsSingle ==
  up /\ outbox = <<>> /\ ~toggled =>
    /\ "disable all" \notin denied => registered \subseteq IF WithPush THEN {sessions} ELSE {}
    /\ WithPush /\ "enable" \notin denied => sessions \in registered

\* "Disable all stale push subscriptions on connect": never two registrations.
StaleAreGone == up /\ outbox = <<>> /\ ~toggled => Cardinality(registered) <= 1

\* Who is told that a password was changed, or that the account is gone, is told
\* the truth: answers are not taken for those to other requests, nor errors for
\* success, also when several are under way.
WordIsTrue == shown.changed <= account.changes /\ (shown.deleted => ~account.there)

\* "Each room's ignore list is persisted": who was ignored, and not forgiven
\* since, is in the node when everything has arrived.
IgnoredStays ==
  up /\ outbox = <<>> /\ answers = <<>> =>
    \A r \in Halls : wished[r] # {} => node[r] # Absent /\ wished[r] \subseteq node[r]

\* "Build an IQ to disable push notifications for a specific service": the
\* device is not registered when it was carried out.
DisableIsEffective ==
  [][/\ up' /\ outbox # <<>> /\ Head(outbox).kind = "disable" /\ outbox' = Tail(outbox)
     => registered' = {}]_vaVars
=============================================================================
