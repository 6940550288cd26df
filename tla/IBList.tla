------------------------------- MODULE IBList -------------------------------
(***************************************************************************)
(* The list of list.c: an array that doubles when it is full.  The bot     *)
(* keeps its servers and handlers in lists, an event its responses and a   *)
(* message its parameters.  An object may have a deleter and be in the     *)
(* list once, or have none.                                                *)
(***************************************************************************)
EXTENDS Integers, Sequences, SequencesExt

CONSTANTS Mine,         \* objects appended with a deleter, each once
          Others,       \* objects appended without
          ListCapa,     \* INITIALCAPA
          MaxLength     \* bound: objects in the list

ASSUME ListAssumption == ListCapa \in Nat \ {0} /\ MaxLength \in Nat

VARIABLES
    array,     \* what was written to the array, beyond count too
    length,    \* count
    listCapa,  \* capa
    expected,  \* history: the list as its operations define it
    dropped    \* history: the deleters called, in order

listVars == <<array, length, listCapa, expected, dropped>>

(* The objects of keep among the first n of a list, for each n, and all.   *)
KeptUpTo(list, keep) ==
    LET kept[n \in 0..Len(list)] ==
          IF n = 0 THEN <<>>
          ELSE IF list[n] \in keep THEN Append(kept[n - 1], list[n])
          ELSE kept[n - 1]
    IN  kept

Kept(list, keep) == KeptUpTo(list, keep)[Len(list)]

ListInit ==
    /\ array = <<>> /\ length = 0 /\ listCapa = ListCapa
    /\ expected = <<>> /\ dropped = <<>>

(* The capacity once there is room for one more.                           *)
Grown == IF length = listCapa THEN 2 * listCapa ELSE listCapa

(* An array with obj at index i, which is at most its length.              *)
Written(a, i, obj) == IF i < Len(a) THEN [a EXCEPT ![i + 1] = obj] ELSE Append(a, obj)

IBList_append(obj) ==
    /\ length < MaxLength
    /\ obj \in Mine => ~Contains(expected, obj) /\ ~Contains(dropped, obj)
    /\ listCapa' = Grown
    /\ array' = Written(array, length, obj)
    /\ length' = length + 1
    /\ expected' = Append(expected, obj)
    /\ UNCHANGED dropped

(* removeAt(i), i from 0, of the first n entries of a: the rest moves up.  *)
removeAt(a, n, i) ==
    [k \in DOMAIN a |-> IF k > i /\ k < n THEN a[k + 1] ELSE a[k]]

IBList_remove(obj) ==
    LET i == SelectInSubSeq(array, 1, length, LAMBDA x : x = obj)
    IN  /\ i # 0
        /\ array' = removeAt(array, length, i - 1)
        /\ length' = length - 1
        /\ expected' = RemoveFirst(expected, obj)
        /\ UNCHANGED <<listCapa, dropped>>

(* mutant: the entry that moved up is skipped *)
AfterRemovalSkip(i) == i + 1

(* The index after --i and ++i.                                            *)
AfterRemoval(i) == i

(* The loop of IBList_removeAll at index i, with n entries left in a and   *)
(* the deleters called so far, for the objects the matcher accepts.        *)
Examined(s, matches) ==
    IF s.i >= s.n THEN s
    ELSE IF s.a[s.i + 1] \in matches
    THEN [i |-> AfterRemoval(s.i), n |-> s.n - 1, a |-> removeAt(s.a, s.n, s.i),
          calls |-> IF s.a[s.i + 1] \in Mine THEN Append(s.calls, s.a[s.i + 1])
                    ELSE s.calls]
    ELSE [s EXCEPT !.i = s.i + 1]

(* After k times through it: every time one more of the entries there were *)
(* has been looked at.                                                     *)
Loop(matches) ==
    LET loop[k \in 0..length] ==
          IF k = 0 THEN [i |-> 0, n |-> length, a |-> array, calls |-> <<>>]
          ELSE Examined(loop[k - 1], matches)
    IN  loop

IBList_removeAll(matches) ==
    LET done == Loop(matches)[length]
    IN  /\ array' = done.a /\ length' = done.n
        /\ dropped' = dropped \o done.calls
        /\ expected' = Kept(expected, (Mine \cup Others) \ matches)
        /\ UNCHANGED listCapa

(* IBList_destroy, and IBList_create for the next user.                    *)
IBList_destroy ==
    /\ dropped' = dropped \o Kept(SubSeq(array, 1, length), Mine)
    /\ array' = <<>> /\ length' = 0 /\ listCapa' = ListCapa
    /\ expected' = <<>>

ListNext ==
    \/ \E x \in Mine \cup Others : IBList_append(x) \/ IBList_remove(x)
    \/ \E matches \in SUBSET (Mine \cup Others) : IBList_removeAll(matches)
    \/ IBList_destroy

ListSpec == ListInit /\ [][ListNext]_listVars

-----------------------------------------------------------------------------
(* Properties.                                                             *)

(* Nothing is written or read beyond the array, also after it has grown    *)
(* and shrunk again.  Removing in place while the loop goes on leaves the  *)
(* list its definition gives, in order, and no deleter is called twice.    *)
ListCorrect ==
    /\ length <= Len(array) /\ Len(array) <= listCapa
    /\ SubSeq(array, 1, length) = expected
    /\ \A i, j \in DOMAIN dropped : dropped[i] = dropped[j] => i = j
    /\ \A i \in DOMAIN dropped : ~Contains(expected, dropped[i])
=============================================================================
