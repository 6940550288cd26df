----------------------------- MODULE HashTable -----------------------------
(***************************************************************************)
(* The hash table of hashtable.c, with chains of entries: a server keeps   *)
(* its channels in one, which owns them (they have a deleter), a channel   *)
(* the nicks of its users, all with one object that is not owned.  A table *)
(* can be walked with an iterator, which copies the keys and objects it    *)
(* finds, as pointers: those of an entry that was deleted since are freed. *)
(***************************************************************************)
EXTENDS Integers, Sequences, SequencesExt, FiniteSetsExt

CONSTANTS Keys,
          Owned,      \* objects set with a deleter, each at most once
          Borrowed,   \* objects set without
          Size,       \* HT_SIZE(bits)
          Hash        \* the hash of every key

ASSUME HashAssumption ==
    /\ Size \in Nat \ {0}
    /\ Hash \in [Keys -> 0..Size - 1]
    /\ Owned \cap Borrowed = {}

VARIABLES
    bucket,   \* the chains
    total,    \* count
    deleted,  \* history: how often the deleter was called for an object
    iter,     \* the entries and the position of an iterator
    walked    \* history: the keys it gave since it was last at the end

tableVars == <<bucket, total, deleted, iter, walked>>

Entry == [key : Keys, obj : Owned \cup Borrowed]

(* All entries, in the order of the buckets.                               *)
AllEntries == FlattenSeq([h \in 1..Size |-> bucket[h - 1]])

(* Every variable has its type, no key is in a bucket where                *)
(* IBHashTable_get would not look for it or in one twice, count is the     *)
(* number of entries, and no object is given to its deleter twice or while *)
(* it is in the table.                                                     *)
TableOK ==
    /\ bucket \in [0..Size - 1 -> Seq(Entry)]
    /\ \A h \in 0..Size - 1 : \A i, j \in DOMAIN bucket[h] :
          /\ Hash[bucket[h][i].key] = h
          /\ bucket[h][i].key = bucket[h][j].key => i = j
    /\ total = Len(AllEntries)
    /\ deleted \in [Owned -> 0..1]
    /\ \A e \in ToSet(AllEntries) : e.obj \in Owned => deleted[e.obj] = 0
    /\ iter.pos \in 0..Len(iter.entries)

TableInit ==
    /\ bucket = [h \in 0..Size - 1 |-> <<>>]
    /\ total = 0
    /\ deleted = [o \in Owned |-> 0]
    /\ iter = [entries |-> <<>>, pos |-> 0]
    /\ walked = <<>>

-----------------------------------------------------------------------------
(* The position of a key in its chain, 0 if it is not there.               *)
Find(chain, key) == SelectInSeq(chain, LAMBDA e : e.key = key)

(* deleter(obj) for the objects in objs that have one.                     *)
CallDeleters(objs) ==
    deleted' = [o \in Owned |-> IF o \in objs THEN deleted[o] + 1 ELSE deleted[o]]

(* mutant: the object that is replaced is forgotten *)
ReplacedNone(chain, i) == {}

(* The object that gives way to a new one.                                 *)
Replaced(chain, i) == IF i = 0 THEN {} ELSE {chain[i].obj}

IBHashTable_set(key, obj) ==
    LET h == Hash[key]
        i == Find(bucket[h], key)
        new == [key |-> key, obj |-> obj]
    IN  /\ obj \in Owned => /\ deleted[obj] = 0
                            /\ obj \notin {e.obj : e \in ToSet(AllEntries)}
        /\ bucket' = [bucket EXCEPT ![h] = IF i = 0 THEN Append(@, new)
                                           ELSE [@ EXCEPT ![i] = new]]
        /\ total' = IF i = 0 THEN total + 1 ELSE total
        /\ CallDeleters(Replaced(bucket[h], i))
        /\ UNCHANGED <<iter, walked>>

(* mutant: the rest of the chain goes with the entry *)
UnlinkedCut(chain, i) == SubSeq(chain, 1, i - 1)

(* A chain without its i-th entry.                                         *)
Unlinked(chain, i) == RemoveAt(chain, i)

IBHashTable_delete(key) ==
    LET h == Hash[key]
        i == Find(bucket[h], key)
    IN  /\ i # 0
        /\ bucket' = [bucket EXCEPT ![h] = Unlinked(@, i)]
        /\ total' = total - 1
        /\ CallDeleters({bucket[h][i].obj})
        /\ UNCHANGED <<iter, walked>>

(* IBHashTable_destroy, and IBHashTable_create for the next user.          *)
IBHashTable_destroy ==
    /\ CallDeleters({e.obj : e \in ToSet(AllEntries)})
    /\ bucket' = [h \in 0..Size - 1 |-> <<>>]
    /\ total' = 0
    /\ UNCHANGED <<iter, walked>>

(* mutant: the new iterator is at the first entry *)
AtEndFirst(n) == 0

(* A new iterator is at the end, where the first entry comes next.         *)
AtEnd(n) == n

IBHashTable_iterator ==
    /\ iter' = [entries |-> AllEntries, pos |-> AtEnd(Len(AllEntries))]
    /\ walked' = <<>>
    /\ UNCHANGED <<bucket, total, deleted>>

(* IBHashTableIterator_moveNext: pos counts from 0, and from the end it    *)
(* goes back to the start.                                                 *)
NextPos == IF iter.pos >= Len(iter.entries) THEN 0 ELSE iter.pos + 1

IBHashTableIterator_moveNext ==
    /\ iter' = [iter EXCEPT !.pos = NextPos]
    /\ walked' = IF NextPos < Len(iter.entries)
                 THEN Append(walked, iter.entries[NextPos + 1].key)
                 ELSE <<>>
    /\ UNCHANGED <<bucket, total, deleted>>

TableNext ==
    \/ \E k \in Keys, o \in Owned \cup Borrowed : IBHashTable_set(k, o)
    \/ \E k \in Keys : IBHashTable_delete(k)
    \/ IBHashTable_destroy
    \/ IBHashTable_iterator \/ IBHashTableIterator_moveNext

TableSpec == TableInit /\ [][TableNext]_tableVars

-----------------------------------------------------------------------------
(* Properties.                                                             *)

(* IBHashTable_get for every key that it finds.                            *)
IBHashTable_get(key) == bucket[Hash[key]][Find(bucket[Hash[key]], key)].obj
Found == {k \in Keys : Find(bucket[Hash[k]], k) # 0}

(* The table is a map from keys to objects that releases what it owns at   *)
(* the moment it loses it: replacing, deleting and destroying in chains    *)
(* with collisions neither loses a key nor finds an old object, and calls  *)
(* every deleter once.                                                     *)
Map == INSTANCE KeyMap WITH map <- [k \in Found |-> IBHashTable_get(k)],
                            released <- {o \in Owned : deleted[o] > 0}
ImplementsMap == Map!Spec

(* A walk gives every entry that was in the table when the iterator was    *)
(* made exactly once before it ends, however the table grows and shrinks   *)
(* meanwhile, and can be repeated.                                         *)
WalkEnds == NextPos >= Len(iter.entries) /\ iter' = [iter EXCEPT !.pos = NextPos]
WalkComplete ==
    [][WalkEnds => /\ Len(walked) = Len(iter.entries)
                   /\ ToSet(walked) = {e.key : e \in ToSet(iter.entries)}]_tableVars
=============================================================================
