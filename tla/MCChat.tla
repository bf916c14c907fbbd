------------------------------- MODULE MCChat -------------------------------
(* The chat side on small instances; the .cfg files give the other constants. *)
EXTENDS ChatParts, TLC

ConversationOf == (1 :> "c1") @@ (2 :> "c2")

\* The commands of the palette in the order of their labels, and how well one
\* matches what was typed.
Labelled == <<"adhoc-commands", "add-contact", "disconnect", "edit-profile", "open-about",
              "open-settings", "open-xmpp-uri", "report-spam", "switch-account",
              "toggle-console">>
Matching == ("spam" :> {"report-spam"}) @@ ("zzz" :> {})
              @@ ("open" :> {"open-about", "open-settings", "open-xmpp-uri"})
Scores == [q \in DOMAIN Matching |->
            [i \in {Labelled[k] : k \in DOMAIN Labelled} |-> IF i \in Matching[q] THEN 80 ELSE 0]]

\* A message of an earlier run.
Greeting == [id |-> 1, who |-> "bob", text |-> "plain", at |-> 0, hit |-> TRUE,
             gone |-> FALSE, edited |-> FALSE]
OneGreeting == <<Greeting>>

\* Two forms of services: one field to fill; one with two values, and one that
\* is only shown.
Papers == {[a |-> [kind |-> "text-single", values |-> <<>>]],
           [a |-> [kind |-> "text-multi", values |-> <<"x", "y">>],
            b |-> [kind |-> "boolean", values |-> <<"1">>]]}
=============================================================================
