-------------------------------- MODULE Dial --------------------------------
(***************************************************************************)
(* Where a session connects to.  The network panel of the settings writes  *)
(* each edit to the disk; the login screen reads the disk once, into the   *)
(* configuration of the account; every session, also one that reconnects,  *)
(* picks its connector from that configuration.  The SRV records and the   *)
(* standard discovery of the library are external.  Of ProxyLifecycle the  *)
(* program calls what is modelled here, and nothing else.  A delayed       *)
(* reconnection that meets another login is in Connection.                 *)
(***************************************************************************)
EXTENDS Naturals

CONSTANTS
  Nothing,   \* a field that is not set
  MaxEdits,  \* bound: edits in the panel
  MaxLogins, \* bound: logins
  MaxDials   \* bound: sessions

VARIABLES
  disk,      \* the network settings as saved
  panel,     \* host, port and SRV name as the panel shows them
  lastCfg,   \* last_connect_cfg
  session,   \* the connector of the session, or Nothing
  proxy,     \* proxy_lifecycle of the session
  broken,    \* the session failed and a reconnection is due
  chosen,    \* history: what the disk and the login screen said at the last login
  failed,    \* history: sessions in a row that failed
  edits, logins, dials \* history: counters for the bounds

vars == <<disk, panel, lastCfg, session, proxy, broken, chosen, failed, edits, logins, dials>>
shown == <<disk, panel>>

\* Texts of a field, named for what the code makes of them: blanks are trimmed, a
\* word is no port. Names of SRV records resolve or not.
Typed   == [host : {"", " ", "proxy"}, port : {"", "1080", "word"}, srv : {"", " ", "srv"}]
Servers == {"", " ", "host", "host:7000", "host:word"}
Network == [kind : {Nothing, "socks5", "http"}, host : {Nothing, "proxy"},
            port : {Nothing, 1080}, srv : {Nothing, "srv"}, forceTls : BOOLEAN]
Config  == [net : Network, server : Servers]

Blank(t) == t \in {"", " "}
Trimmed(t) == IF Blank(t) THEN Nothing ELSE t

Init ==
  /\ disk = [kind |-> Nothing, host |-> Nothing, port |-> Nothing, srv |-> Nothing,
             forceTls |-> TRUE]
  /\ panel = [host |-> "", port |-> "", srv |-> ""]
  /\ lastCfg = Nothing /\ session = Nothing /\ proxy = Nothing /\ broken = FALSE
  /\ chosen = Nothing /\ failed = 0 /\ edits = 0 /\ logins = 0 /\ dials = 0

-----------------------------------------------------------------------------
(* The network panel.                                                        *)

Edit == edits < MaxEdits /\ edits' = edits + 1
        /\ UNCHANGED <<lastCfg, session, proxy, broken, chosen, failed, logins, dials>>

\* Without a proxy its fields are hidden, and keep what they hold.
ProxyTypeSelected ==
  /\ Edit /\ \E k \in {Nothing, "socks5", "http"} : disk' = [disk EXCEPT !.kind = k]
  /\ UNCHANGED panel

ProxyHostChanged ==
  /\ Edit /\ disk.kind # Nothing
  /\ \E t \in {"", " ", "proxy"} :
       panel' = [panel EXCEPT !.host = t] /\ disk' = [disk EXCEPT !.host = Trimmed(t)]

\* What is no number clears the port.
ProxyPortChanged ==
  /\ Edit /\ disk.kind # Nothing
  /\ \E t \in {"", "1080", "word"} :
       /\ panel' = [panel EXCEPT !.port = t]
       /\ disk' = [disk EXCEPT !.port = IF t = "1080" THEN 1080 ELSE Nothing]

ManualSrvChanged ==
  /\ Edit
  /\ \E t \in {"", " ", "srv"} :
       panel' = [panel EXCEPT !.srv = t] /\ disk' = [disk EXCEPT !.srv = Trimmed(t)]

ForceTlsToggled ==
  /\ Edit /\ disk' = [disk EXCEPT !.forceTls = ~@] /\ UNCHANGED panel

-----------------------------------------------------------------------------
(* The connector.                                                            *)

ProxyConfig(cfg) == cfg.net.kind # Nothing /\ cfg.net.host # Nothing /\ cfg.net.port # Nothing

\* ProxyLifecycle: a new one is stopped, starts, and is running.
New       == [state |-> "Stopped", transport |-> "TcpProxy", failures |-> 0]
Start(p)  == IF p.state \in {"Starting", "Running"} THEN p ELSE [p EXCEPT !.state = "Starting"]
OnStarted(p) == IF p.state = "Starting" THEN [p EXCEPT !.state = "Running"] ELSE p

ParseHostPort(server) ==
  IF server = "host:7000" THEN <<"host", 7000>> ELSE <<"host", 5222>>

\* lookup_srv: the target of the record with the lowest priority, or an error.
LookupSrv(name) == {<<name, 5222>>, Nothing}

Standard == <<"discovered", 0>>

\* Without forced TLS neither the domain nor the SRV name is looked at.
RunSessionPlain(cfg) ==
  {IF Blank(cfg.server) THEN <<"localhost", 5222>> ELSE ParseHostPort(cfg.server)}

RunSession(cfg) ==
  IF ~Blank(cfg.server) THEN {ParseHostPort(cfg.server)}
  ELSE IF cfg.net.srv = Nothing THEN {Standard}
  ELSE {IF e = Nothing THEN Standard ELSE e : e \in LookupSrv(cfg.net.srv)}

Connect(cfg) ==
  /\ dials < MaxDials /\ dials' = dials + 1
  /\ session' \in IF cfg.net.forceTls THEN RunSession(cfg) ELSE RunSessionPlain(cfg)
  /\ proxy' = IF ~cfg.net.forceTls THEN Nothing
              ELSE IF ProxyConfig(cfg) THEN OnStarted(Start(New)) ELSE New
  /\ broken' = FALSE

\* The user presses Connect: connect_config reads the disk.
Login ==
  /\ session = Nothing /\ logins < MaxLogins /\ logins' = logins + 1
  /\ \E s \in Servers :
       LET cfg == [net |-> disk, server |-> s] IN
         Connect(cfg) /\ lastCfg' = cfg /\ chosen' = cfg
  /\ failed' = 0 /\ UNCHANGED <<shown, edits>>

Fail ==
  /\ session # Nothing /\ session' = Nothing /\ proxy' = Nothing
  /\ broken' = TRUE /\ failed' = failed + 1
  /\ UNCHANGED <<shown, lastCfg, chosen, edits, logins, dials>>

\* (mutant) A reconnection reads the disk again.
ReconnectingFresh ==
  /\ broken
  /\ Connect([lastCfg EXCEPT !.net = disk]) /\ lastCfg' = [lastCfg EXCEPT !.net = disk]
  /\ UNCHANGED <<shown, chosen, failed, edits, logins>>

Reconnecting ==
  /\ broken /\ Connect(lastCfg)
  /\ UNCHANGED <<shown, lastCfg, chosen, failed, edits, logins>>

Next ==
  \/ ProxyTypeSelected \/ ProxyHostChanged \/ ProxyPortChanged \/ ManualSrvChanged
  \/ ForceTlsToggled \/ Login \/ Fail \/ Reconnecting

Spec == Init /\ [][Next]_vars

-----------------------------------------------------------------------------

TypeOK ==
  /\ disk \in Network /\ panel \in Typed
  /\ lastCfg \in Config \cup {Nothing} /\ chosen \in Config \cup {Nothing}
  /\ proxy \in {Nothing} \cup [state : {"Stopped", "Starting", "Running"},
                               transport : {"TcpProxy", "WebSocket"}, failures : Nat]

\* A session, however often it was begun again, connects to the host the user named
\* at the last login; to the target of the SRV name only if none was named; and to
\* this machine only where TLS was not forced then. Edits since then wait for the
\* next login.
DialsAsTold ==
  session # Nothing =>
    /\ ~Blank(chosen.server) => session = ParseHostPort(chosen.server)
    /\ session[1] = "srv" => chosen.net.srv = "srv" /\ Blank(chosen.server)
    /\ session[1] = "localhost" <=> Blank(chosen.server) /\ ~chosen.net.forceTls

\* "the transport-kind logic (TCP -> WebSocket fallback after 3 failures) is
\* exercised on every connection attempt".
FallsBack ==
  session # Nothing /\ failed >= 3 /\ chosen.net.forceTls /\ ProxyConfig(chosen) =>
    proxy.transport = "WebSocket"

\* "When set this SRV name is resolved instead of the standard RFC 6120 names."
OverrideHonoured ==
  session # Nothing /\ chosen.net.srv # Nothing /\ Blank(chosen.server) =>
    session[1] = "srv"
=============================================================================
