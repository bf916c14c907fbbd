------------------------------- MODULE Blocking -------------------------------
(***************************************************************************)
(* Who is blocked: the list the server keeps, the copy every session of    *)
(* the engine fetches after it has come up and then follows by pushes, and *)
(* the list of the settings screen.  The server filters what a blocked     *)
(* peer sends from now on; its archive still holds what came before, and   *)
(* the engine filters that.                                                *)
(***************************************************************************)
EXTENDS Naturals, Sequences, FiniteSets

CONSTANTS
  Peers,    \* who may be blocked
  MaxAsked, \* bound: what the user and the user's other clients ask for
  MaxSent,  \* bound: what the peers send
  MaxUps    \* bound: sessions

VARIABLES
  dialogs,  \* conversations of the chat screen
  listing,  \* BlocklistPanel.blocked of the settings screen that is open
  orders,   \* commands, each carried by a task of its own
  on,       \* a session is up
  blocked,  \* blocking_mgr.blocked
  out, in,  \* the stream: to the server, and from it
  listed,   \* external: the list the server keeps
  kept,     \* external: peers with a message in the archive
  steady,   \* history: on the list of the server since the session came up
  leaked,   \* history: of these, those that got through to the interface
  asked, sent, ups \* history: counters for the bounds

uiVars     == <<dialogs, listing>>
engineVars == <<on, blocked>>
stream     == <<out, in>>
serverVars == <<listed, kept>>
history    == <<steady, leaked>>
bounds     == <<asked, sent, ups>>
vars       == <<uiVars, orders, engineVars, stream, serverVars, history, bounds>>

Kinds  == {"body", "archived", "reaction", "typing"}
Orders == {"block", "unblock"} \X Peers
Asks   == asked < MaxAsked /\ asked' = asked + 1 /\ UNCHANGED <<sent, ups>>

Init ==
  /\ dialogs = Peers /\ listing = {} /\ orders = {}
  /\ on = FALSE /\ blocked = {} /\ out = <<>> /\ in = <<>>
  /\ listed \in SUBSET Peers /\ kept \in SUBSET Peers
  /\ steady = {} /\ leaked = {} /\ asked = 0 /\ sent = 0 /\ ups = 0

-----------------------------------------------------------------------------
(* The interface.                                                            *)

\* BlockPeer: the conversation goes.
BlockPeer(p) ==
  /\ p \in dialogs /\ Asks
  /\ dialogs' = dialogs \ {p} /\ orders' = orders \cup {<<"block", p>>}
  /\ UNCHANGED <<listing, engineVars, stream, serverVars, history>>

\* The panel of the settings shows at once what it asked for.
AddJid(p) ==
  /\ Asks
  /\ listing' = listing \cup {p} /\ orders' = orders \cup {<<"block", p>>}
  /\ UNCHANGED <<dialogs, engineVars, stream, serverVars, history>>

Unblock(p) ==
  /\ p \in listing /\ Asks
  /\ listing' = listing \ {p} /\ orders' = orders \cup {<<"unblock", p>>}
  /\ UNCHANGED <<dialogs, engineVars, stream, serverVars, history>>

\* Every settings screen starts with BlocklistPanel::new(vec![]).
OpenPanel ==
  /\ listing # {} /\ listing' = {}
  /\ UNCHANGED <<dialogs, orders, engineVars, stream, serverVars, history, bounds>>

-----------------------------------------------------------------------------
(* The engine.                                                               *)

\* What Online puts in the outbox, as far as it matters here.
OnlineIqs == <<<<"fetch">>, <<"query">>>>

Online ==
  /\ ~on /\ ups < MaxUps /\ ups' = ups + 1
  /\ on' = TRUE /\ blocked' = {} /\ out' = OnlineIqs /\ in' = <<>>
  /\ steady' = listed
  /\ UNCHANGED <<uiVars, orders, serverVars, leaked, asked, sent>>

\* The chat goes, and with it the conversations; the ones of the database come
\* back.
SessionEnd ==
  /\ on
  /\ on' = FALSE /\ blocked' = {} /\ out' = <<>> /\ in' = <<>> /\ steady' = {}
  /\ dialogs' = Peers
  /\ UNCHANGED <<listing, orders, serverVars, leaked, bounds>>

\* BlockJid, UnblockJid: nothing is remembered until the server pushes it. An
\* idle engine drops the command.
Command ==
  \E o \in orders :
    /\ orders' = orders \ {o}
    /\ out' = IF on THEN Append(out, o) ELSE out
    /\ UNCHANGED <<uiVars, engineVars, in, serverVars, history, bounds>>

OnBlocklistResult(s) == s
OnBlockPush(s) == blocked \cup s

\* (mutant) An <unblock> without items unblocks nobody.
OnUnblockPushItems(s) == blocked \ s

\* An <unblock> without items unblocks everyone.
OnUnblockPush(s) == IF s = {} THEN {} ELSE blocked \ s

\* handle_iq
HandleIq ==
  /\ on /\ in # <<>> /\ Head(in)[1] \in {"list", "block", "unblock"} /\ in' = Tail(in)
  /\ LET s == Head(in)[2] IN
       blocked' = CASE Head(in)[1] = "list"    -> OnBlocklistResult(s)
                    [] Head(in)[1] = "block"   -> OnBlockPush(s)
                    [] Head(in)[1] = "unblock" -> OnUnblockPush(s)
  /\ UNCHANGED <<uiVars, orders, on, out, serverVars, history, bounds>>

\* handle_message and the results of the archive: what is checked against the
\* list. A chat state goes on without being looked at.
Passes(kind, p) == kind = "typing" \/ p \notin blocked

\* A body, live or archived, opens its conversation.
HandleMessage ==
  /\ on /\ in # <<>> /\ Head(in)[1] \in Kinds /\ in' = Tail(in)
  /\ LET kind == Head(in)[1]
         p    == Head(in)[2]
         ok   == Passes(kind, p)
     IN /\ dialogs' = IF ok /\ kind \in {"body", "archived"} THEN dialogs \cup {p} ELSE dialogs
        /\ leaked' = IF ok /\ p \in steady THEN leaked \cup {p} ELSE leaked
  /\ UNCHANGED <<listing, orders, engineVars, out, serverVars, steady, bounds>>

-----------------------------------------------------------------------------
(* The server, the peers, the user's other clients.                          *)

Pushed(push) == in' = IF on THEN Append(in, push) ELSE in

Serve ==
  /\ on /\ out # <<>> /\ out' = Tail(out)
  /\ LET o == Head(out) IN
       CASE o[1] = "fetch" ->
              Pushed(<<"list", listed>>) /\ UNCHANGED <<listed, steady>>
         [] o[1] = "query" ->
              /\ \E s \in {t \in [1..Cardinality(kept) -> kept] :
                             \A i, j \in DOMAIN t : t[i] = t[j] => i = j} :
                   in' = in \o [i \in DOMAIN s |-> <<"archived", s[i]>>]
              /\ UNCHANGED <<listed, steady>>
         [] o[1] = "block" ->
              /\ listed' = listed \cup {o[2]} /\ Pushed(<<"block", {o[2]}>>)
              /\ UNCHANGED steady
         [] o[1] = "unblock" ->
              /\ listed' = listed \ {o[2]} /\ Pushed(<<"unblock", {o[2]}>>)
              /\ steady' = steady \ {o[2]}
  /\ UNCHANGED <<uiVars, orders, engineVars, kept, leaked, bounds>>

\* Another client of the account; an empty <unblock> is for everyone.
OtherClient ==
  /\ Asks
  /\ \/ \E p \in Peers :
          /\ listed' = listed \cup {p} /\ Pushed(<<"block", {p}>>) /\ UNCHANGED steady
     \/ \E p \in listed :
          /\ listed' = listed \ {p} /\ Pushed(<<"unblock", {p}>>) /\ steady' = steady \ {p}
     \/ listed # {} /\ listed' = {} /\ Pushed(<<"unblock", {}>>) /\ steady' = {}
  /\ UNCHANGED <<uiVars, orders, engineVars, out, kept, leaked>>

\* What a blocked peer sends is not passed on, and not archived.
Send(p) ==
  /\ sent < MaxSent /\ sent' = sent + 1 /\ p \notin listed
  /\ \E kind \in Kinds \ {"archived"} :
       Pushed(<<kind, p>>) /\ kept' = IF kind = "body" THEN kept \cup {p} ELSE kept
  /\ UNCHANGED <<uiVars, orders, engineVars, out, listed, history, asked, ups>>

Next ==
  \/ OpenPanel \/ Online \/ SessionEnd \/ Command \/ HandleIq \/ HandleMessage \/ Serve
  \/ OtherClient
  \/ \E p \in Peers : BlockPeer(p) \/ AddJid(p) \/ Unblock(p) \/ Send(p)

Spec == Init /\ [][Next]_vars

-----------------------------------------------------------------------------

TypeOK ==
  /\ {dialogs, listing, blocked, listed, kept, steady, leaked} \subseteq SUBSET Peers
  /\ orders \subseteq Orders /\ on \in BOOLEAN
  /\ \A i \in DOMAIN out : out[i] \in Orders \cup {<<"fetch">>, <<"query">>}
  /\ \A i \in DOMAIN in :
       in[i] \in (Kinds \X Peers) \cup ({"list", "block", "unblock"} \X (SUBSET Peers))
  /\ ~on => in = <<>> /\ out = <<>>

\* Nothing of a peer that the server has had on its list ever since the session
\* came up gets through, although every session starts with an empty copy of
\* the list and asks for the archive, in which such a peer may be, at once.
ArchiveFiltered == leaked = {}

\* When nothing is on its way, the copy of the session is the list of the
\* server, whoever changed it.
BlockedAgrees == on /\ in = <<>> /\ out = <<>> => blocked = listed

\* "Sorted, deduplicated list of currently blocked JIDs": the panel has, when
\* nothing is on its way, what the engine knows.
PanelShowsBlocked == on /\ in = <<>> /\ out = <<>> /\ orders = {} => listing = blocked
=============================================================================
