---------------------------- MODULE MCContainers ----------------------------
(* The containers of the library, one of them in use in each behaviour.    *)
EXTENDS IBQueue, HashTable, IBList

VARIABLE used

(* Two of the three keys collide.                                          *)
MCHash == [k \in {"k1", "k2", "k3"} |-> IF k = "k3" THEN 1 ELSE 0]

MCInit == Init /\ TableInit /\ ListInit /\ used \in {"queue", "table", "list"}

MCNext ==
    \/ used = "queue" /\ Next /\ UNCHANGED <<tableVars, listVars, used>>
    \/ used = "table" /\ TableNext /\ UNCHANGED <<vars, listVars, used>>
    \/ used = "list" /\ ListNext /\ UNCHANGED <<vars, tableVars, used>>

MCSpec == MCInit /\ [][MCNext]_<<vars, tableVars, listVars, used>>
=============================================================================
