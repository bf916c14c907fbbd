-------------------------------- MODULE Shell --------------------------------
(***************************************************************************)
(* The window: the screens, each above the one it was opened from, the     *)
(* command palette and its search, the dialogs, toasts with their timers,  *)
(* the console, and which of these layers are drawn.  A dialog that is not *)
(* drawn cannot be answered.                                               *)
(***************************************************************************)
EXTENDS Naturals, Sequences, FiniteSets

CONSTANTS
  Commands,   \* of the palette, in the order of their labels
  Queries,    \* what is typed there; "" is one of them
  Score,      \* of a command for a query
  Capacity,   \* max_entries of the console
  MaxKeys,    \* bound: what the user does
  MaxToasts,  \* bound: toasts
  MaxStanzas, \* bound: stanzas logged
  MaxDepth    \* bound: screens above each other

VARIABLES
  screens,   \* the screen on top and what is below it
  palette, query,
  spam,      \* spam_report_modal: closed, without a JID, or filled in
  trust,     \* omemo_trust_modal is open
  banner,    \* reconnect_attempt > 0
  toasts, nextToast,
  timers,    \* tasks that will dismiss a toast
  console,   \* show_console
  entries,   \* of the console
  log,       \* history: all stanzas
  keys       \* history: counter for the bound

shVars  == <<screens, palette, query, spam, trust, banner, toasts, nextToast, timers, console,
             entries, log, keys>>
search  == <<palette, query>>
dialogs == <<spam, trust, banner>>
toastVars == <<toasts, nextToast, timers>>
logVars == <<entries, log>>

Range(s) == {s[i] : i \in DOMAIN s}

Init ==
  /\ screens = <<"Login">> /\ palette = FALSE /\ query = "" /\ spam = "closed" /\ trust = FALSE
  /\ banner = FALSE /\ toasts = {} /\ nextToast = 0 /\ timers = {} /\ console = FALSE
  /\ entries = <<>> /\ log = <<>> /\ keys = 0

Key == keys < MaxKeys /\ keys' = keys + 1

-----------------------------------------------------------------------------
(* What is drawn.                                                            *)

\* The layers above the screen, in their order; a dialog has a backdrop.
Overlays ==
  (IF trust THEN <<"trust backdrop", "trust">> ELSE <<>>)
  \o (IF spam # "closed" THEN <<"spam backdrop", "spam">> ELSE <<>>)
  \o (IF banner THEN <<"banner">> ELSE <<>>)
  \o (IF palette THEN <<"palette">> ELSE <<>>)

\* Without toasts the first layer is stacked on the screen and no other one.
Visible ==
  IF toasts = {} THEN {Overlays[i] : i \in DOMAIN Overlays \cap {1}}
  ELSE Range(Overlays) \cup {"console button", "toasts"}
       \cup (IF console THEN {"console"} ELSE {})

-----------------------------------------------------------------------------
(* The palette.                                                              *)

Position(c) == CHOOSE i \in DOMAIN Commands : Commands[i] = c

\* command_palette::search: everything for an empty query, in the order of the
\* labels; otherwise what matches, by score first.
Found(q) == {c \in Range(Commands) : q = "" \/ Score[q][c] > 0}
Better(q, c, d) ==
  IF q = "" \/ Score[q][c] = Score[q][d] THEN Position(c) < Position(d)
  ELSE Score[q][c] > Score[q][d]
Rank(q, c) == Cardinality({d \in Found(q) : Better(q, d, c)})

TogglePalette ==
  /\ Key /\ palette' = ~palette /\ query' = ""
  /\ UNCHANGED <<screens, dialogs, toastVars, console, logVars>>

PaletteQuery(q) ==
  /\ Key /\ "palette" \in Visible /\ query' = q
  /\ UNCHANGED <<screens, palette, dialogs, toastVars, console, logVars>>

\* (mutant) The identifier is the number of toasts on screen.
ShowToastCounted ==
  /\ nextToast < MaxToasts /\ nextToast' = nextToast + 1
  /\ toasts' = toasts \cup {Cardinality(toasts) + 1}
  /\ timers' = timers \cup {Cardinality(timers) + 1}

\* Every toast has a timer of its own.
ShowToast ==
  /\ nextToast < MaxToasts /\ nextToast' = nextToast + 1
  /\ toasts' = toasts \cup {nextToast} /\ timers' = timers \cup {nextToast}

Open(s) == Len(screens) < MaxDepth /\ screens' = <<s>> \o screens

\* PaletteExecute(i). The query of a listed command is never a URI, so that
\* "open-xmpp-uri" only complains; "add-contact" does nothing.
PaletteExecute(i) ==
  /\ Key /\ "palette" \in Visible /\ palette' = FALSE
  /\ \E c \in Found(query) :
       /\ Rank(query, c) = i
       /\ query' = IF c \in {"add-contact", "disconnect", "open-xmpp-uri"} THEN "" ELSE query
       /\ CASE c \in {"open-settings", "open-about", "edit-profile", "adhoc-commands",
                      "switch-account"}
                 -> Open(c) /\ UNCHANGED <<dialogs, toastVars, console>>
            [] c = "toggle-console"
                 -> console' = ~console /\ UNCHANGED <<screens, dialogs, toastVars>>
            [] c = "report-spam"
                 -> spam' = "blank" /\ UNCHANGED <<screens, trust, banner, toastVars, console>>
            [] c = "open-xmpp-uri" -> ShowToast /\ UNCHANGED <<screens, dialogs, console>>
            [] OTHER -> UNCHANGED <<screens, dialogs, toastVars, console>>
  /\ UNCHANGED logVars

\* Enter with nothing found closes the palette.
SubmitEmpty == Found(query) = {} /\ "palette" \in Visible /\ TogglePalette

-----------------------------------------------------------------------------
(* Screens and dialogs.                                                      *)

\* Cmd+comma, over whatever is there.
GoToSettings ==
  /\ Key /\ Open("open-settings")
  /\ UNCHANGED <<search, dialogs, toastVars, console, logVars>>

\* The button of each of these screens that leads back.
GoBack ==
  /\ Key /\ Len(screens) > 1 /\ screens' = Tail(screens)
  /\ UNCHANGED <<search, dialogs, toastVars, console, logVars>>

\* Add account: the switcher and what is below it give way to a login.
AddAccount ==
  /\ Key /\ Head(screens) = "switch-account" /\ screens' = <<"Login">>
  /\ UNCHANGED <<search, dialogs, toastVars, console, logVars>>

\* Logout is on the settings; the login button begins to count attempts anew.
Logout ==
  /\ Key /\ Head(screens) = "open-settings" /\ screens' = <<"Login">>
  /\ UNCHANGED <<search, dialogs, toastVars, console, logVars>>

AttemptConnect ==
  /\ Key /\ Head(screens) = "Login" /\ banner' = FALSE
  /\ UNCHANGED <<screens, search, spam, trust, toastVars, console, logVars>>

OpenOmemoTrust ==
  /\ Key /\ Head(screens) = "Chat" /\ trust' = TRUE
  /\ UNCHANGED <<screens, search, spam, banner, toastVars, console, logVars>>

CloseTrust ==
  /\ Key /\ "trust" \in Visible /\ trust' = FALSE
  /\ UNCHANGED <<screens, search, spam, banner, toastVars, console, logVars>>

JidChanged ==
  /\ Key /\ "spam" \in Visible /\ spam' = "filled"
  /\ UNCHANGED <<screens, search, trust, banner, toastVars, console, logVars>>

\* Without a JID nothing happens.
SubmitSpamReport ==
  /\ Key /\ "spam" \in Visible /\ spam = "filled" /\ spam' = "closed" /\ ShowToast
  /\ UNCHANGED <<screens, search, trust, banner, console, logVars>>

CancelSpamReport ==
  /\ Key /\ "spam" \in Visible /\ spam' = "closed"
  /\ UNCHANGED <<screens, search, trust, banner, toastVars, console, logVars>>

ToggleConsole ==
  /\ Key /\ "console button" \in Visible /\ console' = ~console
  /\ UNCHANGED <<screens, search, dialogs, toastVars, logVars>>

\* By its button or by its timer.
DismissToast(t) ==
  /\ t \in timers /\ timers' = timers \ {t} /\ toasts' = toasts \ {t}
  /\ UNCHANGED <<screens, search, dialogs, nextToast, console, logVars, keys>>
DismissByHand(t) ==
  /\ Key /\ t \in toasts /\ toasts' = toasts \ {t}
  /\ UNCHANGED <<screens, search, dialogs, nextToast, timers, console, logVars>>

-----------------------------------------------------------------------------
(* Events of the engine.                                                     *)

\* The attempt is not set back, so the banner of a reconnection stays.
Connected ==
  /\ screens' = <<"Chat">> /\ ShowToast
  /\ UNCHANGED <<search, dialogs, console, logVars, keys>>

\* Reconnecting shows a toast and the banner; the dialogs stay.
Reconnecting ==
  /\ banner' = TRUE /\ ShowToast
  /\ screens' = IF Head(screens) = "Chat" THEN <<"Login">> ELSE screens
  /\ UNCHANGED <<search, spam, trust, console, logVars, keys>>

ConsoleEntry ==
  /\ Len(log) < MaxStanzas /\ log' = Append(log, Len(log))
  /\ entries' = Append(IF Len(entries) = Capacity THEN Tail(entries) ELSE entries, Len(log))
  /\ UNCHANGED <<screens, search, dialogs, toastVars, console, keys>>

Next ==
  \/ TogglePalette \/ SubmitEmpty \/ \E q \in Queries : PaletteQuery(q)
  \/ \E i \in 0..Len(Commands) : PaletteExecute(i)
  \/ GoToSettings \/ GoBack \/ AddAccount \/ Logout \/ AttemptConnect \/ OpenOmemoTrust \/ CloseTrust
  \/ JidChanged \/ SubmitSpamReport \/ CancelSpamReport \/ ToggleConsole
  \/ \E t \in timers : DismissToast(t)
  \/ \E t \in toasts : DismissByHand(t)
  \/ Connected \/ Reconnecting \/ ConsoleEntry

Spec == Init /\ [][Next]_shVars

-----------------------------------------------------------------------------

TypeOK ==
  /\ screens \in Seq({"Login", "Chat"} \cup Range(Commands)) /\ Len(screens) \in 1..MaxDepth
  /\ {palette, trust, banner, console} \subseteq BOOLEAN /\ query \in Queries
  /\ spam \in {"closed", "blank", "filled"}
  /\ nextToast \in 0..MaxToasts /\ toasts \cup timers \subseteq 0..MaxToasts
  /\ entries \in Seq(Nat) /\ Len(entries) <= Capacity /\ keys \in 0..MaxKeys

\* No toast stays for ever ("auto-dismiss after 3 seconds"): each one on the
\* screen has a timer under way that names it and no other toast.
ToastsExpire == toasts \subseteq timers /\ \A t \in toasts : t < nextToast

\* The debug console shows the last stanzas, in order.
ConsoleIsTail ==
  entries = SubSeq(log, Len(log) - Len(entries) + 1, Len(log))
  /\ (Len(log) <= Capacity => entries = log)

\* What is open is drawn: a dialog without its backdrop alone, the palette
\* that a key has opened.
OverlaysShown == Range(Overlays) \subseteq Visible

\* "build the XML toggle button (always visible, bottom-left corner)"
ConsoleButtonShown == "console button" \in Visible
=============================================================================
