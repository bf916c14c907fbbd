------------------------------- MODULE Queries -------------------------------
(***************************************************************************)
(* Service discovery and ad-hoc commands: the screen on which the user     *)
(* runs commands of a service, and the list of public rooms of the chat.   *)
(* Both ask with the same kind of IQ, disco#items; what an answer belongs  *)
(* to is told by its items.  The screen knows a command only by what it    *)
(* was told last; the service keeps sessions of its own.                   *)
(***************************************************************************)
EXTENDS Naturals, Sequences, FiniteSets

CONSTANTS
  Services,  \* addresses the user may type
  MucService,\* the address that the list of rooms is asked from
  Nodes,     \* commands
  NodesOf,   \* external: the commands of a service; the others have items of another kind
  MaxMoves,  \* bound: what the user does
  MaxStreams \* bound: sessions

VARIABLES
  desk,      \* the screen: "Chat", or "Adhoc" over it
  target,    \* target_jid of the adhoc screen; "" at first
  step,      \* its step
  offered,   \* its commands
  catalogue, \* public_rooms of the chat: whose items they are
  carriers,  \* commands on their way to the engine, numbered
  attached,  \* a session is up
  awaited,   \* pending of adhoc_mgr and pending_items of disco_mgr: ids
  queries,   \* IQs on their way out, with their ids
  replies,   \* and back
  running,   \* external: the sessions of the services
  asked,     \* history: the request that the screen asked last and waits for, its id
  unheard,   \* history: it was lost, refused, or answered with nothing
  moves, streams, n \* history: counters for the bounds, carriers ever

screenVars == <<desk, target, step, offered, catalogue>>
engineVars == <<attached, awaited>>
wireVars   == <<queries, replies>>
history    == <<asked, unheard>>
vars == <<screenVars, carriers, engineVars, wireVars, running, history, moves, streams, n>>

Nowhere == ""
Plain(s) == [kind |-> s, node |-> Nowhere, session |-> 0]
Form(c, k) == [kind |-> "form", node |-> c, session |-> k]
Moves == moves < MaxMoves /\ moves' = moves + 1 /\ UNCHANGED streams
Carry(c) == carriers' = carriers \cup {<<n, c>>} /\ n' = n + 1
Idle  == UNCHANGED <<carriers, n>>
Await == asked' = n /\ unheard' = FALSE

Ask(kind, to, node, k) == [kind |-> kind, to |-> to, node |-> node, session |-> k]

Init ==
  /\ desk = "Chat" /\ target = Nowhere /\ step = Plain("input") /\ offered = {}
  /\ catalogue = Nowhere /\ carriers = {} /\ attached = FALSE /\ awaited = {}
  /\ queries = <<>> /\ replies = <<>> /\ running = {} /\ asked = 0 /\ unheard = FALSE
  /\ moves = 0 /\ streams = 0 /\ n = 0

-----------------------------------------------------------------------------
(* The user.                                                                 *)

\* FetchRoomList
BrowseRooms ==
  /\ desk = "Chat" /\ Moves
  /\ Carry(Ask("items", MucService, Nowhere, 0))
  /\ UNCHANGED <<screenVars, engineVars, wireVars, running, history>>

\* go_to_adhoc, with a new screen
GoToAdhoc ==
  /\ desk = "Chat" /\ Moves /\ Idle
  /\ desk' = "Adhoc" /\ target' = Nowhere /\ step' = Plain("input") /\ offered' = {}
  /\ UNCHANGED <<catalogue, engineVars, wireVars, running, history>>

Close ==
  /\ desk = "Adhoc" /\ desk' = "Chat" /\ Idle
  /\ UNCHANGED <<target, step, offered, catalogue, engineVars, wireVars, running, history, moves,
                 streams>>

\* TargetJidChanged and DiscoverRequested; "Try again" keeps the target.
DiscoverRequested ==
  /\ desk = "Adhoc" /\ Moves
  /\ \/ step = Plain("input") /\ target' \in Services
     \/ step = Plain("list") /\ offered = {} /\ target' = target
  /\ step' = Plain("discovering") /\ offered' = {}
  /\ Carry(Ask("items", target', Nowhere, 0)) /\ Await
  /\ UNCHANGED <<desk, catalogue, engineVars, wireVars, running>>

CommandSelected(c) ==
  /\ desk = "Adhoc" /\ step = Plain("list") /\ c \in offered /\ Moves
  /\ step' = Plain("executing")
  /\ Carry(Ask("execute", target, c, 0)) /\ Await
  /\ UNCHANGED <<desk, target, offered, catalogue, engineVars, wireVars, running>>

\* The form stays until the answer has come.
SubmitForm ==
  /\ desk = "Adhoc" /\ step.kind = "form" /\ Moves
  /\ Carry(Ask("next", target, step.node, step.session))
  /\ UNCHANGED <<screenVars, engineVars, wireVars, running, history>>

CancelCommand ==
  /\ desk = "Adhoc" /\ step.kind = "form" /\ Moves
  /\ step' = Plain("list")
  /\ Carry(Ask("cancel", target, step.node, step.session))
  /\ UNCHANGED <<desk, target, offered, catalogue, engineVars, wireVars, running, history>>

BackToList ==
  /\ desk = "Adhoc" /\ step = Plain("done") /\ Moves /\ Idle
  /\ step' = Plain("list")
  /\ UNCHANGED <<desk, target, offered, catalogue, engineVars, wireVars, running, history>>

-----------------------------------------------------------------------------
(* The engine.                                                               *)

Sending  == {c[1] : c \in carriers}
OnStream == {queries[i][1] : i \in DOMAIN queries} \cup {replies[i].id : i \in DOMAIN replies}

Online ==
  /\ ~attached /\ streams < MaxStreams /\ streams' = streams + 1
  /\ attached' = TRUE
  /\ UNCHANGED <<screenVars, carriers, awaited, wireVars, running, history, moves, n>>

SessionEnd ==
  /\ attached
  /\ attached' = FALSE /\ awaited' = {} /\ queries' = <<>> /\ replies' = <<>>
  /\ unheard' = (unheard \/ asked \in OnStream)
  /\ UNCHANGED <<screenVars, carriers, running, asked, moves, streams, n>>

\* (mutant) The continuation of a command is not noted as pending.
BuiltContinue(i, q) == IF q.kind = "execute" THEN {} ELSE {<<i, q.kind = "items">>}

\* build_items_request, build_execute, build_continue, build_cancel
Built(i, q) == {<<i, q.kind = "items">>}

Command ==
  \E c \in carriers :
    /\ carriers' = carriers \ {c}
    /\ IF attached
         THEN /\ awaited' = awaited \cup Built(c[1], c[2])
              /\ queries' = Append(queries, c) /\ UNCHANGED unheard
         ELSE unheard' = (unheard \/ c[1] = asked) /\ UNCHANGED <<awaited, queries>>
    /\ UNCHANGED <<screenVars, attached, replies, running, asked, moves, streams, n>>

\* CommandResponseReceived, if the screen is there
ShowResponse(r) ==
  /\ step' = IF desk # "Adhoc" THEN step
             ELSE CASE r.status = "completed" -> Plain("done")
                    [] r.status = "canceled"  -> Plain("list")
                    [] r.status = "executing" -> Form(r.node, r.session)
  /\ UNCHANGED <<offered, catalogue>>

\* Items with a node are commands, for the screen if it is there; all others
\* are rooms, for the chat if it is on top.
ShowItems(from, cs) ==
  IF cs # {}
  THEN /\ step' = IF desk = "Adhoc" THEN Plain("list") ELSE step
       /\ offered' = IF desk = "Adhoc" THEN cs ELSE offered
       /\ UNCHANGED catalogue
  ELSE /\ catalogue' = IF desk = "Chat" THEN from ELSE catalogue
       /\ UNCHANGED <<step, offered>>

\* An answer of which the screen is told nothing.
Mute(r) == r.status \in {"error", "bare"}

\* handle_iq: only a result is looked up, first as that of a command; one without
\* a <command>, or without a <query>, takes its id from the pending ones and is
\* shown nowhere.
HandleIq ==
  /\ attached /\ replies # <<>> /\ replies' = Tail(replies)
  /\ LET r == Head(replies)
         p == <<r.id, r.items>>
     IN IF r.status = "error" \/ p \notin awaited
        THEN UNCHANGED <<awaited, step, offered, catalogue>>
        ELSE /\ awaited' = awaited \ {p}
             /\ \/ r.status = "bare" /\ UNCHANGED <<step, offered, catalogue>>
                \/ r.status # "bare" /\ r.items /\ ShowItems(r.from, r.commands)
                \/ r.status # "bare" /\ ~r.items /\ ShowResponse(r)
  /\ unheard' = (unheard \/ (Head(replies).id = asked /\ Mute(Head(replies))))
  /\ UNCHANGED <<desk, target, carriers, attached, queries, running, asked, moves, streams, n>>

-----------------------------------------------------------------------------
(* The services.                                                             *)

Reply(c, status, k, cs) ==
  [id |-> c[1], items |-> c[2].kind = "items", from |-> c[2].to, node |-> c[2].node,
   status |-> status, session |-> k, commands |-> cs]

\* A command list that came late may be shown on a screen without a target.
Held(to) == IF to = Nowhere THEN {} ELSE NodesOf[to]

Serve ==
  /\ attached /\ queries # <<>> /\ queries' = Tail(queries)
  /\ LET c == Head(queries)
         q == c[2]
         fresh == Cardinality(running) + 1
     IN \/ /\ UNCHANGED running
           /\ \E s \in {"error", "bare"} : replies' = Append(replies, Reply(c, s, 0, {}))
        \/ /\ q.kind = "items" /\ UNCHANGED running
           /\ replies' = Append(replies, Reply(c, "result", 0, Held(q.to)))
        \/ /\ q.kind = "execute" /\ q.node \in Held(q.to)
           /\ \/ running' = running \cup {<<q.to, fresh>>}
                 /\ replies' = Append(replies, Reply(c, "executing", fresh, {}))
              \/ replies' = Append(replies, Reply(c, "completed", 0, {})) /\ UNCHANGED running
        \/ /\ q.kind = "next" /\ <<q.to, q.session>> \in running /\ UNCHANGED running
           /\ replies' = Append(replies, Reply(c, "executing", q.session, {}))
        \/ /\ q.kind \in {"next", "cancel"} /\ <<q.to, q.session>> \in running
           /\ running' = running \ {<<q.to, q.session>>}
           /\ replies' = Append(replies, Reply(c, IF q.kind = "next" THEN "completed" ELSE "canceled",
                                               q.session, {}))
  /\ UNCHANGED <<screenVars, carriers, engineVars, history, moves, streams, n>>

Next ==
  \/ BrowseRooms \/ GoToAdhoc \/ Close \/ DiscoverRequested \/ SubmitForm \/ CancelCommand
  \/ BackToList \/ Online \/ SessionEnd \/ Command \/ HandleIq \/ Serve
  \/ \E c \in Nodes : CommandSelected(c)

Spec == Init /\ [][Next]_vars

-----------------------------------------------------------------------------

Kinds == {"items", "execute", "next", "cancel"}

TypeOK ==
  /\ desk \in {"Chat", "Adhoc"} /\ target \in Services \cup {Nowhere}
  /\ step.kind \in {"input", "discovering", "list", "executing", "form", "done"}
  /\ asked \in Nat /\ unheard \in BOOLEAN
  /\ offered \subseteq Nodes /\ catalogue \in Services \cup {MucService, Nowhere}
  /\ \A c \in carriers : c[1] < n /\ c[2].kind \in Kinds
  /\ {queries[i][1] : i \in DOMAIN queries} \cup {replies[i].id : i \in DOMAIN replies}
       \subseteq {p[1] : p \in awaited}
  /\ (~attached => queries = <<>> /\ replies = <<>>)

Coming == Sending \cup OnStream

\* "A command was selected and executed; we are waiting for the result": it is on
\* its way, as a request or as an answer, unless it was lost with a session, refused,
\* or came without a command, of which the screen is told nothing; whatever was
\* cancelled, submitted twice, left behind on a screen that was closed, or asked
\* for on another one meanwhile.
CommandsAnswered ==
  desk = "Adhoc" /\ step.kind = "executing" /\ ~unheard => asked \in Coming

\* "Waiting for discovery results to arrive": they do, also if there are none.
DiscoveryAnswered ==
  desk = "Adhoc" /\ step.kind = "discovering" /\ ~unheard => asked \in Coming

\* "public rooms list received from MUC service": it is the one of that service.
RoomsAreRooms == catalogue \in {Nowhere, MucService}
=============================================================================
