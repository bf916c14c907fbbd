------------------------------ MODULE MCDelivery ------------------------------
(* Delivery on a small instance: one message of each kind and an anonymous   *)
(* one of the kinds that may be.                                             *)
EXTENDS Delivery

Msg(n, kind, named) == [n |-> n, kind |-> kind, named |-> named]

\* Everything that passes the cache, so that it overflows.
CachedMsgs == {Msg(1, "own", FALSE), Msg(2, "groupchat", TRUE),
               Msg(3, "groupchat", FALSE), Msg(4, "encrypted", FALSE),
               Msg(5, "chat", TRUE)}
Chats      == {Msg(1, "chat", TRUE), Msg(2, "chat", TRUE)}
Anonymous  == {Msg(1, "chat", FALSE), Msg(2, "chat", FALSE)}
=============================================================================
