----------------------------- MODULE MCPidFile -----------------------------
(* The instance of PidFile for TLC.                                        *)
EXTENDS PidFile
=============================================================================
