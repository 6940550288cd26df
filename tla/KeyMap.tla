------------------------------- MODULE KeyMap -------------------------------
(***************************************************************************)
(* What a table promises: it maps keys to objects, and an object it was    *)
(* given to own is released when its key gets another object, is deleted   *)
(* or the table goes away, at that moment and only once.                   *)
(***************************************************************************)
EXTENDS Functions

CONSTANTS Keys, Owned, Borrowed   \* objects the table owns, or does not

VARIABLES map,       \* the objects by key
          released   \* owned objects the table has released

Init == map = <<>> /\ released = {}

(* The owned objects among those of the keys in ks.                        *)
OwnedOf(ks) == {map[k] : k \in ks \cap DOMAIN map} \cap Owned

Put(k, o) ==
    /\ o \notin released /\ o \notin OwnedOf(Keys)
    /\ map' = [x \in DOMAIN map \cup {k} |-> IF x = k THEN o ELSE map[x]]
    /\ released' = released \cup OwnedOf({k})

Remove(k) ==
    /\ map' = Restrict(map, DOMAIN map \ {k})
    /\ released' = released \cup OwnedOf({k})

RemoveAll ==
    /\ map' = <<>>
    /\ released' = released \cup OwnedOf(Keys)

Next ==
    \/ \E k \in Keys, o \in Owned \cup Borrowed : Put(k, o)
    \/ \E k \in Keys : Remove(k)
    \/ RemoveAll

Spec == Init /\ [][Next]_<<map, released>>
=============================================================================
