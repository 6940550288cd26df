---------------------------- MODULE MCIrcServer ----------------------------
(* Instances of IrcServer for TLC.                                         *)
EXTENDS IrcServer
=============================================================================
