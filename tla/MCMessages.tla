----------------------------- MODULE MCMessages -----------------------------
(* The stream, the archive and the composer on small instances; the .cfg file *)
(* gives the other constants.                                                 *)
EXTENDS MessageParts, TLC

CONSTANTS alice, bob

\* Two conversations, one of them with a user who is blocked; one message of the
\* archive has no text.
OneBlocked  == {bob}
FourStored  == <<[id |-> 1, conv |-> alice, text |-> TRUE],
                 [id |-> 2, conv |-> bob, text |-> TRUE],
                 [id |-> 3, conv |-> alice, text |-> FALSE],
                 [id |-> 4, conv |-> alice, text |-> TRUE]>>
TheirCursors == (alice :> {None, 1}) @@ (bob :> {None})
=============================================================================
