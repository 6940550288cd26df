------------------------------ MODULE MCIrcBot ------------------------------
EXTENDS IrcBot

(* Two servers, one of them with a channel.                                *)
MCServers == <<"s1", "s2">>
MCChannelsOf == [s \in {"s1", "s2"} |-> IF s = "s1" THEN {"c"} ELSE {}]

H(type, serverId, origin, filter) ==
    [type |-> type, serverId |-> serverId, origin |-> origin, filter |-> filter]

(* A command handler for every origin and one for channels of one server,  *)
(* handlers for messages by name and by kind of origin, and one for each   *)
(* other event.                                                            *)
MCRegistrable ==
    {H("BOTCOMMAND", Null, Null, "w"), H("BOTCOMMAND", "s1", ORIGIN_CHANNEL, Null),
     H("PRIVMSG", Null, "c", Null), H("PRIVMSG", Null, ORIGIN_PRIVATE, Null),
     H("JOINED", Null, "c", Null), H("CONNECTED", "s1", Null, Null)}

(* Reports of both servers have a handler, and a user's entry has one.     *)
MCRunWith == {<<H("BOTCOMMAND", Null, Null, "w"), H("JOINED", Null, "c", Null)>>}
=============================================================================
