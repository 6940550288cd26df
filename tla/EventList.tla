----------------------------- MODULE EventList -----------------------------
(***************************************************************************)
(* The handlers of an Event (event.c) as a sequence.  An unregistered      *)
(* entry stays in place, as "gone", until the next registration squeezes   *)
(* it out: Event_raise may be walking the list by index meanwhile.         *)
(***************************************************************************)
EXTENDS Integers, Sequences, FiniteSets

(* The registered entries among the first n of a list, for each n.         *)
LiveUpTo(list) ==
    LET live[n \in 0..Len(list)] ==
            IF n = 0 THEN <<>>
            ELSE IF list[n] = "gone" THEN live[n - 1]
            ELSE Append(live[n - 1], list[n])
    IN  live

(* Event_register: unregistered entries are squeezed out first.            *)
Register(list, h) == Append(LiveUpTo(list)[Len(list)], h)

(* Event_unregister: the first such entry is marked.                       *)
Unregister(list, h) ==
    LET found == {i \in DOMAIN list : list[i] = h}
    IN  [i \in DOMAIN list |->
            IF i \in found /\ \A k \in found : i <= k THEN "gone" ELSE list[i]]

(* How often h is registered.                                              *)
Registered(list, h) == Cardinality({i \in DOMAIN list : list[i] = h})
=============================================================================
