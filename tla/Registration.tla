----------------------------- MODULE Registration -----------------------------
(***************************************************************************)
(* Registering an account (XEP-0077): the login screen, the task that      *)
(* carries its command and says so afterwards, the engine, which is idle,  *)
(* in a registration or in a session, and the server.  Nothing in the      *)
(* window sends the filled form back yet; the engine is ready for it.      *)
(***************************************************************************)
EXTENDS Naturals, Sequences, FiniteSets

CONSTANTS
  MaxTries,   \* bound: buttons of the login screen
  MaxReplies  \* bound: what the server says of its own accord

VARIABLES
  shown,     \* LoginState, and the chat screen behind it
  carried,   \* tasks on their way: the command, then the message to the screen
  queue,     \* commands
  mode,      \* what the engine runs
  replies,   \* external: requests of the registration the server will answer
  told,      \* events
  begun,     \* history: Register commands the engine has taken
  ended,     \* history: registrations that ended with a word to the window
  left,      \* history: registrations the user left
  tries, says \* history: counters for the bounds

regVars == <<shown, carried, queue, mode, replies, told, begun, ended, left, tries, says>>
window  == <<shown, carried>>
history == <<begun, ended, left>>

Init ==
  /\ shown = "Idle" /\ carried = {} /\ queue = <<>> /\ mode = "Idle" /\ replies = 0 /\ told = <<>>
  /\ begun = 0 /\ ended = 0 /\ left = 0 /\ tries = 0 /\ says = 0

-----------------------------------------------------------------------------
(* The window.                                                               *)

\* Connect and Register show what they do, validate the JID and start a task.
Press(c) ==
  /\ shown # "Chat" /\ tries < MaxTries /\ tries' = tries + 1
  /\ \/ shown' = "Error" /\ UNCHANGED carried
     \/ /\ shown' = IF c = "Connect" THEN "Connecting" ELSE "Registering"
        /\ carried' = carried \cup {[cmd |-> c, at |-> tries', sent |-> FALSE]}
  /\ UNCHANGED <<queue, mode, replies, told, history, says>>

Send(t) ==
  /\ t \in carried /\ ~t.sent /\ queue' = Append(queue, t.cmd)
  /\ carried' = (carried \ {t}) \cup {[t EXCEPT !.sent = TRUE]}
  /\ UNCHANGED <<shown, mode, replies, told, history, tries, says>>

\* Message::Connecting, Message::Registering: the command has been sent.
Sent(t) ==
  /\ t \in carried /\ t.sent /\ carried' = carried \ {t}
  /\ shown' = IF shown = "Chat" THEN shown
              ELSE IF t.cmd = "Connect" THEN "Connecting" ELSE "Registering"
  /\ UNCHANGED <<queue, mode, replies, told, history, tries, says>>

\* The form is a toast and no more; success leaves the login screen as it is.
HandleEvent ==
  /\ told # <<>> /\ told' = Tail(told)
  /\ shown' = CASE Head(told) = "Connected" -> "Chat"
                [] Head(told) \in {"Failure", "Disconnected"} /\ shown # "Chat" -> "Error"
                [] Head(told) = "Disconnected" /\ shown = "Chat" -> "Idle"
                [] OTHER -> shown
  /\ UNCHANGED <<carried, queue, mode, replies, history, tries, says>>

\* The command that answers a form; no part of the window sends it yet.
SubmitRegistration ==
  /\ mode = "Registration" /\ tries < MaxTries /\ tries' = tries + 1
  /\ queue' = Append(queue, "Submit")
  /\ UNCHANGED <<window, mode, replies, told, history, says>>

\* Logging out of a session.
Logout ==
  /\ shown = "Chat" /\ shown' = "Idle" /\ queue' = Append(queue, "Disconnect")
  /\ UNCHANGED <<carried, mode, replies, told, history, tries, says>>

-----------------------------------------------------------------------------
(* The engine: run_engine, and run_registration_session.                     *)

\* (mutant) The loop goes on after the event.
EndGoesOn(e) ==
  /\ told' = Append(told, e) /\ ended' = ended + 1 /\ UNCHANGED <<mode, replies, begun, left>>

\* It ends with one event and returns to run_engine.
End(e) ==
  /\ told' = Append(told, e) /\ ended' = ended + 1 /\ mode' = "Idle" /\ replies' = 0
  /\ UNCHANGED <<begun, left>>

Take(c) == queue # <<>> /\ Head(queue) = c /\ queue' = Tail(queue)

\* The session is bound, or refused; one that cannot be reached is tried again
\* (Connection).
Connect ==
  /\ mode = "Idle" /\ Take("Connect")
  /\ \/ mode' = "Session" /\ told' = Append(told, "Connected")
     \/ told' = Append(told, "Disconnected") /\ UNCHANGED mode
  /\ UNCHANGED <<window, replies, history, tries, says>>

\* A JID that does not parse, a server that cannot be reached, a request that
\* cannot be sent; or the form is asked for.
Register ==
  /\ mode = "Idle" /\ Take("Register") /\ begun' = begun + 1
  /\ \/ mode' = "Registration" /\ replies' = 1 /\ UNCHANGED <<told, ended, left>>
     \/ /\ told' = Append(told, "Failure") /\ ended' = ended + 1
        /\ UNCHANGED <<mode, replies, left>>
  /\ UNCHANGED <<window, tries, says>>

\* Other commands while idle are ignored, without a word to the window.
Ignore ==
  /\ mode = "Idle" /\ queue # <<>> /\ Head(queue) \notin {"Connect", "Register"}
  /\ queue' = Tail(queue)
  /\ UNCHANGED <<window, mode, replies, told, history, tries, says>>

\* The form goes to the server, or cannot be sent, which ends the registration.
Submit ==
  /\ mode = "Registration" /\ Take("Submit")
  /\ \/ /\ IF replies = 2 THEN UNCHANGED replies ELSE replies' = replies + 1
        /\ UNCHANGED <<mode, told, history>>
     \/ End("Failure")
  /\ UNCHANGED <<window, tries, says>>

\* Disconnect, of which there are two kinds of loop; a Connect is among what a
\* registration ignores, and ends a session.
Disconnect ==
  /\ mode # "Idle" /\ Take("Disconnect") /\ mode' = "Idle" /\ replies' = 0
  /\ left' = IF mode = "Registration" THEN left + 1 ELSE left
  /\ UNCHANGED <<window, told, begun, ended, tries, says>>

Other ==
  /\ mode = "Registration" /\ queue # <<>> /\ Head(queue) \in {"Connect", "Register"}
  /\ queue' = Tail(queue)
  /\ UNCHANGED <<window, mode, replies, told, history, tries, says>>

InSession ==
  /\ mode = "Session" /\ queue # <<>> /\ Head(queue) # "Disconnect" /\ queue' = Tail(queue)
  /\ mode' = IF Head(queue) = "Connect" THEN "Idle" ELSE mode
  /\ UNCHANGED <<window, replies, told, history, tries, says>>

-----------------------------------------------------------------------------
(* What comes from the server: a form, a result without one, an error, the   *)
(* end of the stream.                                                        *)

Form ==
  /\ mode = "Registration" /\ replies > 0 /\ replies' = replies - 1
  /\ told' = Append(told, "Form")
  /\ UNCHANGED <<window, queue, mode, history, tries, says>>

Result ==
  /\ mode = "Registration" /\ replies > 0 /\ \E e \in {"Success", "Failure"} : End(e)
  /\ UNCHANGED <<window, queue, tries, says>>

StreamEnds ==
  /\ mode = "Registration" /\ says < MaxReplies /\ says' = says + 1 /\ End("Failure")
  /\ UNCHANGED <<window, queue, tries>>

Next ==
  \/ \E c \in {"Connect", "Register"} : Press(c)
  \/ \E t \in carried : Send(t) \/ Sent(t)
  \/ HandleEvent \/ SubmitRegistration \/ Logout
  \/ Connect \/ Register \/ Ignore \/ Submit \/ Disconnect \/ Other
  \/ InSession \/ Form \/ Result \/ StreamEnds

Spec == Init /\ [][Next]_regVars

-----------------------------------------------------------------------------

TypeOK ==
  /\ shown \in {"Idle", "Connecting", "Registering", "Error", "Chat"}
  /\ mode \in {"Idle", "Registration", "Session"} /\ replies \in 0..2
  /\ \A i \in DOMAIN queue : queue[i] \in {"Connect", "Register", "Submit", "Disconnect"}
  /\ {begun, ended, left, says} \subseteq Nat /\ tries \in 0..MaxTries

\* Each registration the engine begins ends with one word to the window, unless
\* the user leaves it: none is forgotten, none is answered twice, whatever the
\* server says and when.
RegistrationEnds ==
  begun = ended + left + (IF mode = "Registration" THEN 1 ELSE 0)

\* What the login screen says is under way is under way: somewhere between the
\* button and the event there is something left to happen.
StatusIsTrue ==
  shown \in {"Connecting", "Registering"} =>
    carried # {} \/ queue # <<>> \/ told # <<>> \/ (mode = "Registration" /\ replies > 0)
=============================================================================
