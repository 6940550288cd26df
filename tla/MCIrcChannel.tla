---------------------------- MODULE MCIrcChannel ---------------------------
(* Instances of IrcChannel for TLC.                                        *)
EXTENDS IrcChannel
=============================================================================
