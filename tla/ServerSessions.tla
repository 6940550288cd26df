--------------------------- MODULE ServerSessions ---------------------------
(***************************************************************************)
(* What IRC servers promise to the bot that uses them, without ticks,      *)
(* handshakes or what is sent: a server has no connection ("none"), one    *)
(* that is not logged in ("pending") or one that is ("in").  Each          *)
(* connection is logged in to at most once.  A shutdown request ends the   *)
(* connections that are not logged in, at once, asks the others to end,    *)
(* and no connection is opened after it.                                   *)
(***************************************************************************)
EXTENDS Naturals

CONSTANT Ids   \* the servers

VARIABLES link,  \* link[s]: the connection of server s
          quits  \* shutdown requests so far

Init ==
    /\ link \in [Ids -> {"none", "pending"}]
    /\ quits = 0

(* The servers in S, all at once at the start, get a connection.           *)
Open(S) ==
    /\ quits = 0 /\ \A s \in S : link[s] = "none"
    /\ link' = [s \in Ids |-> IF s \in S THEN "pending" ELSE link[s]]
    /\ UNCHANGED quits

LogIn(s) ==
    /\ link[s] = "pending"
    /\ link' = [link EXCEPT ![s] = "in"]
    /\ UNCHANGED quits

Disconnect(s) ==
    /\ link[s] # "none"
    /\ link' = [link EXCEPT ![s] = "none"]
    /\ UNCHANGED quits

Shutdown ==
    /\ quits' = quits + 1
    /\ link' = [s \in Ids |-> IF link[s] = "pending" THEN "none" ELSE link[s]]

Next ==
    \/ \E S \in SUBSET Ids : Open(S)
    \/ \E s \in Ids : LogIn(s) \/ Disconnect(s)
    \/ Shutdown

Spec == Init /\ [][Next]_<<link, quits>>
=============================================================================
