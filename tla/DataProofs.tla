----------------------------- MODULE DataProofs -----------------------------
(***************************************************************************)
(* Proofs about the library's data structures, for all constants.          *)
(* IBQueue: the counters always describe one ring, and a queue that never  *)
(* moved entries when it grew is first in, first out.  HashTable: it is a  *)
(* map from keys to objects, walked completely, that calls every deleter   *)
(* once.  IBList: what removing leaves is in order, and every deleter is   *)
(* called once.  RecvBuffer: the next read always fits, and no line is     *)
(* lost, cut or handled twice, nor a reply taken for a word.               *)
(***************************************************************************)
EXTENDS IBQueue, HashTable, IBList, RecvBuffer, EventListProofs, SequenceTheorems

(* The i-th entry from the front is the i-th object of the history.        *)
Matches == \A i \in 1..count : entries[Pos(i - 1)] = queued[i]

InOrder == ~moved => Matches /\ result = oldest

(* The inductive invariant.                                                *)
IndInv == TypeOK /\ RingConsistent /\ InOrder

(* What Append and Tail do to a sequence, in the form the proofs use.      *)
LEMMA AppendFacts ==
    ASSUME NEW T, NEW s \in Seq(T), NEW e \in T
    PROVE  /\ Append(s, e) \in Seq(T)
           /\ Len(Append(s, e)) = Len(s) + 1
           /\ Append(s, e)[Len(s) + 1] = e
           /\ \A i \in 1..Len(s) : Append(s, e)[i] = s[i]
OBVIOUS

LEMMA TailFacts ==
    ASSUME NEW T, NEW s \in Seq(T), s # <<>>
    PROVE  /\ Tail(s) \in Seq(T) /\ Head(s) \in T /\ Head(s) = s[1]
           /\ Len(Tail(s)) = Len(s) - 1
           /\ \A i \in 1..Len(s) - 1 : Tail(s)[i] = s[i + 1]
OBVIOUS

(* A new queue is empty, and its counters agree.                           *)
LEMMA InitOK == Init => IndInv
<1> SUFFICES ASSUME Init PROVE IndInv
    OBVIOUS
<1>1. TypeOK
    <2>1. moved \in BOOLEAN /\ result = Null /\ oldest = Null
        BY DEF Init
    <2>2. queued \in Seq(Objects)
        BY DEF Init
    <2>3. /\ capa \in Nat \ {0} /\ count \in 0..capa
          /\ front \in 0..capa-1 /\ back \in 0..capa-1
        BY SizeAssumption DEF Init
    <2>4. entries \in [0..capa-1 -> Objects \cup {Garbage}]
        BY DEF Init
    <2> QED  BY <2>1, <2>2, <2>3, <2>4 DEF TypeOK
<1>2. RingConsistent /\ InOrder
    BY DEF Init, RingConsistent, InOrder, Matches
<1> QED  BY <1>1, <1>2 DEF IndInv

(* IBQueue_enqueue into a ring with space, keeps the queue in order.       *)
LEMMA EnqueueSpaceOK ==
    ASSUME IndInv, NEW obj \in Objects, Enqueue(obj), EnqueueSpace(obj)
    PROVE  IndInv'
<1> USE SizeAssumption DEF IndInv, TypeOK, RingConsistent
<1>1. /\ count' = count + 1 /\ capa' = capa /\ front' = front
      /\ queued' = Append(queued, obj)
      /\ entries' = [entries EXCEPT ![back] = obj]
      /\ back' = IF back + 1 = capa THEN 0 ELSE back + 1
      /\ count < capa
      /\ result' = result /\ oldest' = oldest /\ moved' = moved
    BY DEF Enqueue, EnqueueSpace
<1>2. TypeOK'
    <2>1. /\ moved' \in BOOLEAN
          /\ result' \in Objects \cup {Garbage, Null}
          /\ oldest' \in Objects \cup {Null}
        BY <1>1
    <2>2. queued' \in Seq(Objects)
        BY <1>1
    <2>3. /\ capa' \in Nat \ {0} /\ count' \in 0..capa'
          /\ front' \in 0..capa'-1 /\ back' \in 0..capa'-1
        BY <1>1
    <2>4. entries' \in [0..capa'-1 -> Objects \cup {Garbage}]
        BY <1>1
    <2> QED  BY <2>1, <2>2, <2>3, <2>4
<1>3. RingConsistent'
    <2>1. Len(queued') = Len(queued) + 1
        BY <1>1, AppendFacts
    <2>2. count' = Len(queued')
        BY <2>1, <1>1
    <2>3. back' = front' + count' \/ back' = front' + count' - capa'
        <3>1. /\ capa \in Nat /\ count \in 0..capa /\ front \in 0..capa-1
              /\ back = front + count \/ back = front + count - capa
            OBVIOUS
        <3>2. /\ count < capa /\ capa' = capa /\ front' = front
              /\ count' = count + 1
              /\ back' = IF back + 1 = capa THEN 0 ELSE back + 1
            BY <1>1
        <3>3. back \in 0..capa-1
            OBVIOUS
        <3> HIDE DEF IndInv, TypeOK, RingConsistent
        <3>4. CASE back + 1 = capa
            BY <3>1, <3>2, <3>3, <3>4
        <3>5. CASE back + 1 # capa
            BY <3>1, <3>2, <3>3, <3>5
        <3> QED  BY <3>4, <3>5
    <2> QED  BY <2>2, <2>3
<1>4. ASSUME ~moved PROVE Matches'
    <2> SUFFICES ASSUME NEW i \in 1..count + 1
                 PROVE  entries'[Pos(i - 1)] = Append(queued, obj)[i]
        BY <1>1 DEF Matches, Pos
    <2>1. CASE i = count + 1
        <3>1. Pos(i - 1) = back
            BY <2>1, <1>1 DEF Pos
        <3> QED  BY <3>1, <2>1, <1>1
    <2>2. CASE i \in 1..count
        <3>1. Pos(i - 1) # back /\ Pos(i - 1) \in 0..capa-1
            BY <2>2, <1>1 DEF Pos
        <3>2. entries[Pos(i - 1)] = queued[i]
            BY <2>2, <1>4 DEF InOrder, Matches
        <3> QED  BY <3>1, <3>2, <2>2, <1>1
    <2> QED  BY <2>1, <2>2
<1> QED  BY <1>1, <1>2, <1>3, <1>4 DEF InOrder

(* The same for a full ring, which grows first: the counters agree also    *)
(* when entries are moved.                                                 *)
LEMMA EnqueueFullOK ==
    ASSUME IndInv, NEW obj \in Objects, Enqueue(obj), EnqueueFull(obj)
    PROVE  IndInv'
<1> USE SizeAssumption DEF IndInv, TypeOK, RingConsistent
<1> DEFINE grown == [i \in 0..2*capa-1 |->
                        IF i < capa THEN entries[i]
                        ELSE IF front > 0 /\ i >= front + capa THEN Copied(i)
                        ELSE Garbage]
<1>1. /\ count' = count + 1 /\ count = capa /\ capa' = 2 * capa
      /\ queued' = Append(queued, obj)
      /\ front' = expandedFront
      /\ back' = IF expandedBack + 1 = 2 * capa THEN 0 ELSE expandedBack + 1
      /\ result' = result /\ oldest' = oldest
    BY DEF Enqueue, EnqueueFull
<1>2. moved' = (moved \/ front > 0)
    BY DEF EnqueueFull
<1>3. entries' = [grown EXCEPT ![expandedBack] = obj]
    BY DEF EnqueueFull
<1>4. grown \in [0..2*capa-1 -> Objects \cup {Garbage}]
    <2>1. ASSUME NEW i \in 0..2*capa-1, i >= front + capa, front > 0
          PROVE  Copied(i) \in Objects \cup {Garbage}
        <3>1. i - capa \in 0..capa-1
            BY <2>1
        <3> QED  BY <3>1 DEF Copied
    <2>2. ASSUME NEW i \in 0..2*capa-1, i < capa
          PROVE  entries[i] \in Objects \cup {Garbage}
        <3>1. i \in 0..capa-1
            BY <2>2
        <3> QED  BY <3>1
    <2>3. ASSUME NEW i \in 0..2*capa-1
          PROVE  grown[i] \in Objects \cup {Garbage}
        BY <2>1, <2>2
    <2> QED  BY <2>3
<1>5. \A i \in 0..capa-1 : grown[i] = entries[i]
    <2> TAKE i \in 0..capa-1
    <2>1. i \in 0..2*capa-1 /\ i < capa
        OBVIOUS
    <2> QED  BY <2>1
<1> HIDE DEF grown
<1>6. /\ expandedBack \in 0..2*capa-1 /\ expandedFront \in 0..2*capa-1
      /\ expandedBack = expandedFront + capa
         \/ expandedBack = expandedFront + capa - 2 * capa
    BY <1>1 DEF expandedBack, expandedFront
<1>7. TypeOK'
    <2>1. /\ result' \in Objects \cup {Garbage, Null}
          /\ oldest' \in Objects \cup {Null}
        BY <1>1
    <2>2. queued' \in Seq(Objects)
        BY <1>1
    <2>3. /\ capa' \in Nat \ {0} /\ count' \in 0..capa'
          /\ front' \in 0..capa'-1 /\ back' \in 0..capa'-1
        BY <1>1, <1>6
    <2>4. entries' \in [0..capa'-1 -> Objects \cup {Garbage}]
        BY <1>1, <1>3, <1>4
    <2>5. moved' \in BOOLEAN
        BY <1>2
    <2> QED  BY <2>1, <2>2, <2>3, <2>4, <2>5
<1>8. RingConsistent'
    <2>1. Len(queued') = Len(queued) + 1
        BY <1>1, AppendFacts
    <2> QED  BY <2>1, <1>1, <1>6
<1>9. ASSUME ~moved, front = 0 PROVE Matches'
    <2>1. expandedBack = capa /\ front' = 0
        BY <1>1, <1>9 DEF expandedBack, expandedFront
    <2>2. ASSUME NEW i \in 1..capa + 1
          PROVE  entries'[i - 1] = Append(queued, obj)[i]
        <3>1. CASE i = capa + 1
            <4>1. entries'[i - 1] = obj
                BY <2>1, <3>1, <1>3, <1>4
            <4>2. Append(queued, obj)[i] = obj
                <5>1. queued \in Seq(Objects) /\ i = Len(queued) + 1
                    BY <3>1, <1>1
                <5> QED  BY <5>1, AppendFacts
            <4> QED  BY <4>1, <4>2
        <3>2. CASE i \in 1..capa
            <4>1. entries[i - 1] = queued[i]
                BY <3>2, <1>1, <1>9 DEF InOrder, Matches, Pos
            <4>2. entries'[i - 1] = grown[i - 1]
                BY <2>1, <3>2, <1>3, <1>4
            <4>3. Append(queued, obj)[i] = queued[i]
                <5>1. queued \in Seq(Objects) /\ i \in 1..Len(queued)
                    BY <3>2, <1>1
                <5> QED  BY <5>1, AppendFacts
            <4>4. i - 1 \in 0..capa-1
                BY <3>2
            <4> QED  BY <4>1, <4>2, <4>3, <4>4, <1>5
        <3>3. i = capa + 1 \/ i \in 1..capa
            OBVIOUS
        <3> QED  BY <3>1, <3>2, <3>3
    <2>3. \A i \in 1..capa + 1 : Pos(i - 1)' = i - 1
        BY <2>1, <1>1 DEF Pos
    <2> QED  BY <2>2, <2>3, <1>1 DEF Matches
<1>10. InOrder'
    <2>1. CASE moved'
        BY <2>1 DEF InOrder
    <2>2. CASE ~moved'
        <3>1. ~moved /\ front = 0
            BY <2>2, <1>2
        <3> QED  BY <3>1, <1>1, <1>9 DEF InOrder
    <2> QED  BY <2>1, <2>2
<1> QED  BY <1>7, <1>8, <1>10

(* IBQueue_dequeue takes the first object of the history.                  *)
LEMMA DequeueOK ==
    ASSUME IndInv, Dequeue
    PROVE  IndInv'
<1> USE SizeAssumption DEF IndInv, TypeOK, RingConsistent
<1>1. /\ count > 0 /\ count' = count - 1 /\ capa' = capa /\ back' = back
      /\ queued' = Tail(queued) /\ entries' = entries
      /\ front' = (IF front + 1 = capa THEN 0 ELSE front + 1)
      /\ result' = entries[front] /\ oldest' = Head(queued)
      /\ moved' = moved
    BY DEF Dequeue, AfterFront
<1>2. queued # <<>>
    BY <1>1
<1>3. TypeOK'
    <2>1. moved' \in BOOLEAN
        BY <1>1
    <2>2. queued' \in Seq(Objects) /\ oldest' \in Objects
        BY <1>1, <1>2
    <2>3. /\ capa' \in Nat \ {0} /\ count' \in 0..capa'
          /\ front' \in 0..capa'-1 /\ back' \in 0..capa'-1
        BY <1>1
    <2>4. entries' \in [0..capa'-1 -> Objects \cup {Garbage}]
        BY <1>1
    <2>5. result' \in Objects \cup {Garbage}
        BY <1>1
    <2> QED  BY <2>1, <2>2, <2>3, <2>4, <2>5
<1>4. RingConsistent'
    <2>1. Len(queued') = Len(queued) - 1
        BY <1>1, <1>2, TailFacts
    <2>2. count' = Len(queued')
        BY <2>1, <1>1
    <2>3. back' = front' + count' \/ back' = front' + count' - capa'
        <3>1. /\ capa \in Nat /\ count \in 0..capa /\ front \in 0..capa-1
              /\ back = front + count \/ back = front + count - capa
            OBVIOUS
        <3>2. CASE front + 1 = capa
            <4>1. front' = 0
                BY <1>1, <3>2
            <4> QED  BY <1>1, <3>1, <3>2, <4>1
        <3>3. CASE front + 1 # capa
            <4>1. front' = front + 1
                BY <1>1, <3>3
            <4>2. count' = count - 1 /\ capa' = capa /\ back' = back
                BY <1>1
            <4> QED  BY <3>1, <4>1, <4>2
        <3> QED  BY <3>2, <3>3
    <2> QED  BY <2>2, <2>3
<1>5. ASSUME ~moved PROVE Matches' /\ result' = oldest'
    <2>1. \A i \in 1..count : entries[Pos(i - 1)] = queued[i]
        BY <1>5 DEF InOrder, Matches
    <2>2. entries[front] = queued[1]
        BY <2>1, <1>1 DEF Pos
    <2>3. \A i \in 1..count - 1 : Pos(i - 1)' = Pos(i)
        BY <1>1 DEF Pos
    <2>4. \A i \in 1..count - 1 : Tail(queued)[i] = queued[i + 1]
        BY <1>2
    <2>5. \A i \in 1..count - 1 : entries[Pos(i)] = queued[i + 1]
        <3> TAKE i \in 1..count - 1
        <3>1. i + 1 \in 1..count /\ (i + 1) - 1 = i
            BY <1>1
        <3> QED  BY <2>1, <3>1
    <2>6. Matches'
        BY <1>1, <2>3, <2>4, <2>5 DEF Matches
    <2> QED  BY <2>2, <2>6, <1>1, <1>2
<1> QED  BY <1>1, <1>3, <1>4, <1>5 DEF InOrder

(* Every step keeps the invariant.                                         *)
LEMMA NextOK == IndInv /\ [Next]_vars => IndInv'
<1> SUFFICES ASSUME IndInv, [Next]_vars PROVE IndInv'
    OBVIOUS
<1>1. ASSUME NEW obj \in Objects, Enqueue(obj) PROVE IndInv'
    <2>1. CASE EnqueueFull(obj)
        BY <1>1, <2>1, EnqueueFullOK
    <2>2. CASE EnqueueSpace(obj)
        BY <1>1, <2>2, EnqueueSpaceOK
    <2> QED  BY <1>1, <2>1, <2>2 DEF Enqueue
<1>2. CASE Dequeue
    BY <1>2, DequeueOK
<1>3. CASE DequeueEmpty
    BY <1>3 DEF DequeueEmpty, ring, IndInv, TypeOK, RingConsistent, InOrder,
                Matches, Pos
<1>4. CASE Destroy
    <2>1. TypeOK'
        BY <1>4, SizeAssumption DEF Destroy, TypeOK
    <2>2. RingConsistent' /\ InOrder'
        BY <1>4 DEF Destroy, RingConsistent, InOrder, Matches
    <2> QED  BY <2>1, <2>2 DEF IndInv
<1>5. CASE UNCHANGED vars
    BY <1>5 DEF vars, ring, IndInv, TypeOK, RingConsistent, InOrder, Matches,
                Pos
<1> QED  BY <1>1, <1>2, <1>3, <1>4, <1>5 DEF Next

LEMMA Invariance == Spec => []IndInv
BY InitOK, NextOK, PTL DEF Spec

(* front, back, count and capa always describe one ring, full or empty,    *)
(* wrapped or grown, and count is the number of objects queued.            *)
THEOREM RingTheorem == Spec => []RingConsistent
<1>1. IndInv => RingConsistent
    BY DEF IndInv
<1> QED  BY <1>1, Invariance, PTL

(* IBQueue_dequeue returns the oldest object, and IBQueue_destroy frees    *)
(* exactly the queued ones, unless expand had to move entries.             *)
THEOREM OrderTheorem == Spec => []OldestFirstUnlessMoved
<1>1. IndInv => OldestFirstUnlessMoved
    <2> SUFFICES ASSUME IndInv, ~moved PROVE Destroyed = queued /\ result = oldest
        BY DEF OldestFirstUnlessMoved, OldestFirst
    <2>1. queued \in Seq(Objects) /\ Len(queued) = count
        BY DEF IndInv, TypeOK, RingConsistent
    <2>2. DOMAIN queued = 1..count /\ queued = [i \in 1..count |-> queued[i]]
        BY <2>1
    <2>3. \A i \in 1..count : entries[Pos(i - 1)] = queued[i]
        BY DEF IndInv, InOrder, Matches
    <2>4. Destroyed = queued
        BY <2>2, <2>3 DEF Destroyed
    <2> QED  BY <2>4 DEF IndInv, InOrder
<1> QED  BY <1>1, Invariance, PTL

-----------------------------------------------------------------------------
(* What FlattenSeq does.  Its recursion over the sequences, up to the n-th, *)
(* has a solution for every n.                                             *)
Flat(f, seqs, n) ==
    f = [i \in 1..n |-> IF i = 1 THEN seqs[i] ELSE f[i - 1] \o seqs[i]]

LEMMA FlatExtends ==
    ASSUME NEW seqs, NEW n \in Nat, NEW f, Flat(f, seqs, n)
    PROVE  \E g : Flat(g, seqs, n + 1)
<1> DEFINE v == IF n + 1 = 1 THEN seqs[n + 1] ELSE f[n] \o seqs[n + 1]
           g == [i \in 1..(n + 1) |-> IF i = n + 1 THEN v ELSE f[i]]
           h == [i \in 1..(n + 1) |-> IF i = 1 THEN seqs[i] ELSE g[i - 1] \o seqs[i]]
<1>1. \A i \in 1..n : f[i] = IF i = 1 THEN seqs[i] ELSE f[i - 1] \o seqs[i]
  BY DEF Flat
<1>2. \A i \in 1..n : g[i] = f[i]
  OBVIOUS
<1>3. g[n + 1] = v /\ (n + 1) - 1 = n
  OBVIOUS
<1> HIDE DEF g
<1>4. \A i \in 1..(n + 1) : g[i] = IF i = 1 THEN seqs[i] ELSE g[i - 1] \o seqs[i]
  <2>1. CASE n = 0
    BY <1>3, <2>1
  <2>2. CASE n # 0
    <3>1. g[n + 1] = g[n] \o seqs[n + 1]
      <4>1. n \in 1..n /\ n + 1 # 1
        BY <2>2
      <4>2. g[n] = f[n]
        BY <1>2, <4>1
      <4>3. g[n + 1] = f[n] \o seqs[n + 1]
        BY <1>3, <4>1
      <4> QED BY <4>2, <4>3
    <3>2. ASSUME NEW i \in 1..n
          PROVE  g[i] = IF i = 1 THEN seqs[i] ELSE g[i - 1] \o seqs[i]
      <4>1. CASE i = 1
        BY <1>1, <1>2, <4>1
      <4>2. CASE i # 1
        <5>1. i - 1 \in 1..n
          BY <4>2
        <5> QED BY <1>1, <1>2, <4>2, <5>1
      <4> QED BY <4>1, <4>2
    <3>3. n + 1 # 1 /\ (n + 1) - 1 = n /\ \A i \in 1..(n + 1) : i \in 1..n \/ i = n + 1
      BY <2>2
    <3> QED BY <3>1, <3>2, <3>3
  <2> QED BY <2>1, <2>2
<1>5. g = [i \in 1..(n + 1) |-> g[i]]
  BY DEF g
<1>6. g = h
  BY <1>4, <1>5
<1> QED BY <1>6 DEF Flat

LEMMA FlatExists ==
    ASSUME NEW seqs, NEW n \in Nat
    PROVE  \E f : Flat(f, seqs, n)
<1> DEFINE Bad == {k \in Nat : ~\E f : Flat(f, seqs, k)}
<1>1. \E f : Flat(f, seqs, 0)
  <2> DEFINE e == [i \in 1..0 |-> 0]
  <2>1. Flat(e, seqs, 0)
    BY DEF Flat
  <2> QED BY <2>1
<1>2. SUFFICES ASSUME Bad # {} PROVE FALSE
  OBVIOUS
<1>3. PICK k \in Bad : \A j \in Bad : k <= j
  BY <1>2, LeastNat
<1>4. k \in Nat \ {0}
  BY <1>1
<1>5. k - 1 \in Nat /\ ~(k - 1 \in Bad) /\ (k - 1) + 1 = k
  BY <1>3, <1>4
<1> QED BY <1>3, <1>5, FlatExtends

LEMMA FlattenIsFlat ==
    ASSUME NEW S, NEW seqs \in Seq(Seq(S)), Len(seqs) # 0
    PROVE  \E f : Flat(f, seqs, Len(seqs)) /\ FlattenSeq(seqs) = f[Len(seqs)]
<1> DEFINE N == Len(seqs)
           Def(f) == [i \in 1..N |-> IF i = 1 THEN seqs[i] ELSE f[i - 1] \o seqs[i]]
           F == CHOOSE f : f = Def(f)
<1>1. N \in Nat /\ N # 0
  OBVIOUS
<1>2. FlattenSeq(seqs) = F[N]
  BY DEF FlattenSeq
<1> HIDE DEF N
<1>3. \E f : f = Def(f)
  BY <1>1, FlatExists DEF Flat
<1>4. F = Def(F)
  BY <1>3
<1>5. Flat(F, seqs, N)
  BY <1>4 DEF Flat
<1> QED BY <1>2, <1>5 DEF N

(* x is in a sequence, and in one of seqs[1] to seqs[n].                   *)
In(x, s) == \E j \in DOMAIN s : s[j] = x
Holding(seqs, n, x) == \E i \in 1..n : In(x, seqs[i])

LEMMA ConcatFacts ==
    ASSUME NEW S, NEW s \in Seq(S), NEW t \in Seq(S)
    PROVE  /\ s \o t \in Seq(S) /\ Len(s \o t) = Len(s) + Len(t)
           /\ \A x : In(x, s \o t) <=> In(x, s) \/ In(x, t)
<1> DEFINE u == s \o t
<1>1. u \in Seq(S) /\ Len(u) = Len(s) + Len(t)
  BY ConcatProperties
<1>2. /\ \A j \in 1..Len(s) : u[j] = s[j]
      /\ \A j \in 1..Len(u) : j > Len(s) => u[j] = t[j - Len(s)]
  BY ConcatProperties
<1>3. \A j \in 1..Len(t) : Len(s) + j \in 1..Len(u) /\ u[Len(s) + j] = t[j]
  BY <1>1, <1>2
<1>4. /\ DOMAIN u = 1..Len(u) /\ DOMAIN s = 1..Len(s) /\ DOMAIN t = 1..Len(t)
      /\ Len(s) \in Nat /\ Len(t) \in Nat
  BY <1>1
<1>5. \A j \in 1..Len(u) : j \in 1..Len(s) \/ j - Len(s) \in 1..Len(t)
  BY <1>1, <1>4
<1>6. \A j \in 1..Len(s) : j \in 1..Len(u)
  BY <1>1, <1>4
<1> HIDE DEF u
<1>7. ASSUME NEW x, NEW j \in DOMAIN u, u[j] = x
      PROVE  In(x, s) \/ In(x, t)
  <2>1. CASE j \in 1..Len(s)
    BY <1>2, <1>4, <1>7, <2>1 DEF In
  <2>2. CASE j \notin 1..Len(s)
    <3>1. j > Len(s) /\ j \in 1..Len(u)
      BY <1>4, <2>2
    <3> QED BY <1>2, <1>4, <1>5, <1>7, <2>2, <3>1 DEF In
  <2> QED BY <2>1, <2>2
<1>8. ASSUME NEW x, In(x, s) \/ In(x, t)
      PROVE  In(x, u)
  BY <1>2, <1>3, <1>4, <1>6, <1>8 DEF In
<1>9. \A x : In(x, u) <=> In(x, s) \/ In(x, t)
  BY <1>7, <1>8 DEF In
<1> QED BY <1>1, <1>9 DEF u

LEMMA FlatHolds ==
    ASSUME NEW S, NEW seqs \in Seq(Seq(S)), NEW f, Flat(f, seqs, Len(seqs)),
           NEW n \in 1..Len(seqs)
    PROVE  /\ f[n] \in Seq(S)
           /\ \A x : In(x, f[n]) <=> Holding(seqs, n, x)
<1> DEFINE Right(k) ==
              /\ f[k] \in Seq(S)
              /\ \A x : In(x, f[k]) <=> Holding(seqs, k, x)
           Bad == {k \in 1..Len(seqs) : ~Right(k)}
<1>1. \A i \in 1..Len(seqs) : f[i] = IF i = 1 THEN seqs[i] ELSE f[i - 1] \o seqs[i]
  BY DEF Flat
<1>2. \A i \in 1..Len(seqs) : seqs[i] \in Seq(S)
  OBVIOUS
<1>3. SUFFICES ASSUME Bad # {} PROVE FALSE
  OBVIOUS
<1>4. PICK k \in Bad : \A j \in Bad : k <= j
  <2>1. Bad \in SUBSET Nat
    OBVIOUS
  <2> QED BY <1>3, <2>1, LeastNat
<1>5. CASE k = 1
  <2>1. f[1] = seqs[1] /\ f[1] \in Seq(S)
    BY <1>1, <1>2, <1>5
  <2>2. \A x : In(x, f[1]) <=> Holding(seqs, 1, x)
    BY <2>1 DEF Holding
  <2> QED BY <1>4, <1>5, <2>1, <2>2
<1>6. CASE k # 1
  <2>1. k \in 1..Len(seqs) /\ k - 1 \in 1..Len(seqs) /\ ~(k - 1 \in Bad)
    BY <1>4, <1>6
  <2>2. Right(k - 1)
    BY <2>1
  <2>3. f[k] = f[k - 1] \o seqs[k] /\ seqs[k] \in Seq(S)
    BY <1>1, <1>2, <1>6, <2>1
  <2>4. \A i : i \in 1..k <=> i \in 1..(k - 1) \/ i = k
    BY <2>1
  <2>5. \A x : Holding(seqs, k, x)
              <=> Holding(seqs, k - 1, x) \/ In(x, seqs[k])
    BY <2>4, Zenon DEF Holding
  <2>6. /\ f[k] \in Seq(S)
        /\ \A x : In(x, f[k]) <=> In(x, f[k - 1]) \/ In(x, seqs[k])
    <3>1. f[k - 1] \in Seq(S)
      BY <2>2
    <3> HIDE DEF Bad, Right
    <3> QED BY <2>3, <3>1, ConcatFacts
  <2>7. Right(k)
    BY <2>2, <2>3, <2>5, <2>6, Zenon
  <2> QED BY <1>4, <2>7
<1> QED BY <1>5, <1>6

(* Exchanging one of the sequences changes the length by the difference.   *)
Exchanged(S, seqs, others, h) ==
    /\ seqs \in Seq(Seq(S)) /\ others \in Seq(Seq(S))
    /\ Len(others) = Len(seqs) /\ h \in 1..Len(seqs)
    /\ \A i \in 1..Len(seqs) : i # h => others[i] = seqs[i]

LEMMA FlatChange ==
    ASSUME NEW S, NEW seqs, NEW others, NEW h, Exchanged(S, seqs, others, h)
    PROVE  Len(FlattenSeq(others)) = Len(FlattenSeq(seqs)) + (Len(others[h]) - Len(seqs[h]))
<1>a. Len(seqs) # 0 /\ Len(others) # 0
  BY DEF Exchanged
<1>b. PICK f : Flat(f, seqs, Len(seqs)) /\ FlattenSeq(seqs) = f[Len(seqs)]
  BY <1>a, FlattenIsFlat DEF Exchanged
<1>c. PICK g : Flat(g, others, Len(seqs)) /\ FlattenSeq(others) = g[Len(seqs)]
  BY <1>a, FlattenIsFlat DEF Exchanged
<1> DEFINE N == Len(seqs)
           D == Len(others[h]) - Len(seqs[h])
           Right(k) == Len(g[k]) = Len(f[k]) + (IF k < h THEN 0 ELSE D)
           Bad == {k \in 1..N : ~Right(k)}
<1> USE DEF Exchanged
<1>1. \A i \in 1..N :
        /\ f[i] = IF i = 1 THEN seqs[i] ELSE f[i - 1] \o seqs[i]
        /\ g[i] = IF i = 1 THEN others[i] ELSE g[i - 1] \o others[i]
  BY <1>b, <1>c DEF Flat
<1>2. \A i \in 1..N : seqs[i] \in Seq(S) /\ others[i] \in Seq(S)
  OBVIOUS
<1>3. \A i \in 1..N : Len(seqs[i]) \in Nat /\ Len(others[i]) \in Nat
  BY <1>2
<1>4. \A i \in 1..N : f[i] \in Seq(S) /\ g[i] \in Seq(S)
  BY <1>b, <1>c, FlatHolds
<1>5. \A i \in 1..N : Len(f[i]) \in Nat /\ Len(g[i]) \in Nat
  BY <1>4
<1>6. N \in Nat /\ h \in 1..N /\ D \in Int
  <2>1. N \in Nat /\ h \in 1..N
    OBVIOUS
  <2>2. Len(seqs[h]) \in Nat /\ Len(others[h]) \in Nat
    BY <1>3, <2>1
  <2> QED BY <2>1, <2>2
<1>7. \A i \in 1..N : Len(others[i]) = Len(seqs[i]) + (IF i = h THEN D ELSE 0)
  <2> SUFFICES ASSUME NEW i \in 1..N
               PROVE  Len(others[i]) = Len(seqs[i]) + (IF i = h THEN D ELSE 0)
    OBVIOUS
  <2>1. Len(seqs[i]) \in Nat /\ Len(others[i]) \in Nat
    BY <1>3
  <2>2. CASE i = h
    <3>1. Len(others[h]) = Len(seqs[h]) + D
      BY <2>1, <2>2
    <3> QED BY <2>2, <3>1
  <2>3. CASE i # h
    <3>1. others[i] = seqs[i]
      BY <2>3
    <3>2. Len(seqs[i]) = Len(seqs[i]) + 0
      BY <2>1
    <3> QED BY <2>3, <3>1, <3>2
  <2> QED BY <2>2, <2>3
<1>8. N \in 1..N /\ ~(N < h)
  BY <1>6
<1> HIDE DEF N, D, Right
<1>9. SUFFICES ASSUME Bad # {} PROVE FALSE
  <2>1. Right(N)
    BY <1>8, <1>9
  <2> QED BY <1>b, <1>c, <1>8, <2>1 DEF Right, D, N
<1>10. PICK k \in Bad : \A j \in Bad : k <= j
  <2>1. Bad \in SUBSET Nat
    BY <1>6
  <2> QED BY <1>9, <2>1, LeastNat
<1>11. CASE k = 1
  <2>1. f[1] = seqs[1] /\ g[1] = others[1] /\ 1 \in 1..N
    BY <1>1, <1>10, <1>11
  <2>2. Len(g[1]) = Len(f[1]) + (IF 1 = h THEN D ELSE 0)
    BY <1>7, <2>1
  <2>3. 1 < h <=> 1 # h
    BY <1>6
  <2>4. Right(1)
    BY <2>2, <2>3 DEF Right
  <2> QED BY <1>10, <1>11, <2>4
<1>12. CASE k # 1
  <2>1. k \in 1..N /\ k - 1 \in 1..N /\ ~(k - 1 \in Bad)
    BY <1>6, <1>10, <1>12
  <2>2. Len(g[k - 1]) = Len(f[k - 1]) + (IF k - 1 < h THEN 0 ELSE D)
    BY <2>1 DEF Right
  <2>3. f[k] = f[k - 1] \o seqs[k] /\ g[k] = g[k - 1] \o others[k]
    BY <1>1, <1>12, <2>1
  <2>4. Len(f[k]) = Len(f[k - 1]) + Len(seqs[k])
    BY <1>2, <1>4, <2>1, <2>3, ConcatFacts
  <2>5. Len(g[k]) = Len(g[k - 1]) + Len(others[k])
    BY <1>2, <1>4, <2>1, <2>3, ConcatFacts
  <2>6. /\ Len(f[k - 1]) \in Int /\ Len(g[k - 1]) \in Int
        /\ Len(seqs[k]) \in Int /\ Len(others[k]) \in Int
    BY <1>3, <1>5, <2>1
  <2>7. Len(others[k]) = Len(seqs[k]) + (IF k = h THEN D ELSE 0)
    BY <1>7, <2>1
  <2>8. k \in Int /\ h \in Int /\ D \in Int
    BY <1>6, <2>1
  <2>9. Len(g[k - 1]) + Len(others[k]) = Len(f[k - 1]) + Len(seqs[k]) + (IF k < h THEN 0 ELSE D)
    <3> DEFINE p == Len(f[k - 1])
               q == Len(g[k - 1])
               s == Len(seqs[k])
               o == Len(others[k])
    <3>1. /\ p \in Int /\ q \in Int /\ s \in Int /\ o \in Int
          /\ o = s + (IF k = h THEN D ELSE 0)
          /\ q = p + (IF k - 1 < h THEN 0 ELSE D)
      BY <2>2, <2>6, <2>7
    <3> HIDE DEF p, q, s, o
    <3>2. q + o = p + s + (IF k < h THEN 0 ELSE D)
      <4>1. CASE k < h
        BY <2>8, <3>1, <4>1
      <4>2. CASE k = h
        BY <2>8, <3>1, <4>2
      <4>3. CASE k > h
        BY <2>8, <3>1, <4>3
      <4> QED BY <2>8, <4>1, <4>2, <4>3
    <3> QED BY <3>2 DEF p, q, s, o
  <2>10. Right(k)
    BY <2>4, <2>5, <2>9 DEF Right
  <2> QED BY <1>10, <2>10
<1> QED BY <1>11, <1>12

-----------------------------------------------------------------------------
(* The entries of a table, for any chains.                                 *)
Chains(b) == [h \in 1..Size |-> b[h - 1]]
All(b) == FlattenSeq(Chains(b))

LEMMA ChainsAre ==
    ASSUME NEW S, NEW b \in [0..Size - 1 -> Seq(S)]
    PROVE  /\ Chains(b) \in Seq(Seq(S)) /\ Len(Chains(b)) = Size
           /\ Size \in Nat /\ Size # 0
           /\ \A i \in 1..Size : Chains(b)[i] = b[i - 1]
<1>1. Size \in Nat /\ Size # 0
  BY HashAssumption
<1>2. \A i \in 1..Size : b[i - 1] \in Seq(S)
  <2>1. \A i \in 1..Size : i - 1 \in 0..Size - 1
    BY <1>1
  <2> QED BY <2>1
<1> QED BY <1>1, <1>2 DEF Chains

LEMMA AllHolds ==
    ASSUME NEW S, NEW b \in [0..Size - 1 -> Seq(S)]
    PROVE  /\ All(b) \in Seq(S)
           /\ \A x : In(x, All(b)) <=> \E h \in 0..Size - 1 : In(x, b[h])
<1>1. /\ Chains(b) \in Seq(Seq(S)) /\ Len(Chains(b)) = Size
      /\ Size \in Nat /\ Size # 0
      /\ \A i \in 1..Size : Chains(b)[i] = b[i - 1]
  BY ChainsAre
<1>2. PICK f : Flat(f, Chains(b), Size) /\ All(b) = f[Size]
  BY <1>1, FlattenIsFlat DEF All
<1>3. /\ f[Size] \in Seq(S)
      /\ \A x : In(x, f[Size]) <=> Holding(Chains(b), Size, x)
  BY <1>1, <1>2, FlatHolds
<1>4. ASSUME NEW x
      PROVE  Holding(Chains(b), Size, x) <=> \E h \in 0..Size - 1 : In(x, b[h])
  <2>1. ASSUME NEW i \in 1..Size, In(x, Chains(b)[i])
        PROVE  i - 1 \in 0..Size - 1 /\ In(x, b[i - 1])
    <3>1. Chains(b)[i] = b[i - 1] /\ i - 1 \in 0..Size - 1
      BY <1>1
    <3> QED BY <2>1, <3>1
  <2>2. ASSUME NEW h \in 0..Size - 1, In(x, b[h])
        PROVE  h + 1 \in 1..Size /\ In(x, Chains(b)[h + 1])
    <3>1. h + 1 \in 1..Size /\ (h + 1) - 1 = h
      BY <1>1
    <3>2. Chains(b)[h + 1] = b[h]
      BY <1>1, <3>1
    <3> QED BY <2>2, <3>1, <3>2
  <2> QED BY <2>1, <2>2 DEF Holding
<1> QED BY <1>2, <1>3, <1>4

LEMMA AllChange ==
    ASSUME NEW S, NEW b \in [0..Size - 1 -> Seq(S)], NEW h \in 0..Size - 1,
           NEW c \in Seq(S)
    PROVE  /\ Len(All(b)) \in Nat
           /\ Len(All([b EXCEPT ![h] = c])) = Len(All(b)) + Len(c) - Len(b[h])
<1> DEFINE d == [b EXCEPT ![h] = c]
<1>1. d \in [0..Size - 1 -> Seq(S)]
  OBVIOUS
<1>2. d[h] = c /\ \A g \in 0..Size - 1 : g # h => d[g] = b[g]
  OBVIOUS
<1> HIDE DEF d
<1>3. /\ Chains(b) \in Seq(Seq(S)) /\ Len(Chains(b)) = Size
      /\ Size \in Nat /\ Size # 0
      /\ \A i \in 1..Size : Chains(b)[i] = b[i - 1]
  BY ChainsAre
<1>4. /\ Chains(d) \in Seq(Seq(S)) /\ Len(Chains(d)) = Size
      /\ \A i \in 1..Size : Chains(d)[i] = d[i - 1]
  BY <1>1, ChainsAre
<1>7. /\ h + 1 \in 1..Size /\ Size \in 1..Size /\ ~(Size < h + 1)
      /\ Chains(b)[h + 1] = b[h] /\ Chains(d)[h + 1] = c
  <2>1. h + 1 \in 1..Size /\ Size \in 1..Size /\ ~(Size < h + 1) /\ (h + 1) - 1 = h
    BY <1>3
  <2> QED BY <1>2, <1>3, <1>4, <2>1
<1>8. \A i \in 1..Size : i # h + 1 => Chains(d)[i] = Chains(b)[i]
  <2> SUFFICES ASSUME NEW i \in 1..Size, i # h + 1 PROVE Chains(d)[i] = Chains(b)[i]
    OBVIOUS
  <2>1. i - 1 \in 0..Size - 1 /\ i - 1 # h
    BY <1>3
  <2> QED BY <1>2, <1>3, <1>4, <2>1
<1>9. Len(All(d)) = Len(All(b)) + (Len(Chains(d)[h + 1]) - Len(Chains(b)[h + 1]))
  <2>1. Exchanged(S, Chains(b), Chains(d), h + 1)
    BY <1>3, <1>4, <1>7, <1>8 DEF Exchanged
  <2> QED BY <2>1, FlatChange DEF All
<1>10. Len(All(b)) \in Nat /\ Len(c) \in Nat /\ Len(b[h]) \in Nat
  <2>1. All(b) \in Seq(S)
    BY AllHolds
  <2> QED BY <2>1
<1>11. Len(All(d)) = Len(All(b)) + (Len(c) - Len(b[h]))
  BY <1>7, <1>9
<1> QED BY <1>10, <1>11 DEF d

LEMMA AllEmpty ==
    ASSUME NEW S, NEW b \in [0..Size - 1 -> Seq(S)],
           \A h \in 0..Size - 1 : b[h] = <<>>
    PROVE  Len(All(b)) = 0 /\ \A x : ~In(x, All(b))
<1>1. All(b) \in Seq(S) /\ \A x : In(x, All(b)) <=> \E h \in 0..Size - 1 : In(x, b[h])
  BY AllHolds
<1>2. \A x : ~In(x, <<>>)
  BY DEF In
<1>3. \A x : ~In(x, All(b))
  BY <1>1, <1>2
<1>4. CASE Len(All(b)) # 0
  <2>1. 1 \in DOMAIN All(b)
    BY <1>1, <1>4
  <2>2. In(All(b)[1], All(b))
    BY <2>1 DEF In
  <2> QED BY <1>3, <2>2
<1> QED BY <1>3, <1>4

(* No key is in a chain twice.                                             *)
KeysOnce(chain) ==
    \A i, j \in DOMAIN chain : chain[i].key = chain[j].key => i = j

LEMMA FindFacts ==
    ASSUME NEW chain \in Seq(Entry), NEW key
    PROVE  /\ Find(chain, key) \in 0..Len(chain)
           /\ Find(chain, key) = 0 <=> \A j \in DOMAIN chain : chain[j].key # key
           /\ Find(chain, key) # 0 => /\ Find(chain, key) \in DOMAIN chain
                                      /\ chain[Find(chain, key)].key = key
<1> DEFINE I == {j \in 1..Len(chain) : chain[j].key = key}
<1>1. Find(chain, key) = IF I # {} THEN Min(I) ELSE 0
  BY DEF Find, SelectInSeq
<1>2. DOMAIN chain = 1..Len(chain) /\ Len(chain) \in Nat
  OBVIOUS
<1>3. CASE I = {}
  BY <1>1, <1>2, <1>3
<1>4. CASE I # {}
  <2>1. I \in SUBSET Nat
    OBVIOUS
  <2>2. \E x \in I : \A y \in I : x <= y
    BY <1>4, <2>1, LeastNat
  <2>3. Min(I) \in I
    BY <2>2 DEF Min
  <2> QED BY <1>1, <1>2, <1>4, <2>3
<1> QED BY <1>3, <1>4

(* IBHashTable_set in a chain.                                             *)
SetIn(chain, new) ==
    LET i == Find(chain, new.key)
    IN  IF i = 0 THEN Append(chain, new) ELSE [chain EXCEPT ![i] = new]

LEMMA SetInChain ==
    ASSUME NEW chain \in Seq(Entry), KeysOnce(chain), NEW new \in Entry
    PROVE  LET c == SetIn(chain, new)
               i == Find(chain, new.key)
           IN  /\ c \in Seq(Entry) /\ KeysOnce(c)
               /\ Len(c) = Len(chain) + (IF i = 0 THEN 1 ELSE 0)
               /\ \A e : In(e, c) <=> e = new \/ (In(e, chain) /\ e.key # new.key)
<1> DEFINE c == SetIn(chain, new)
           i == Find(chain, new.key)
           n == Len(chain)
<1>1. /\ i \in 0..n
      /\ i = 0 <=> \A j \in DOMAIN chain : chain[j].key # new.key
      /\ i # 0 => i \in DOMAIN chain /\ chain[i].key = new.key
  BY FindFacts
<1>2. DOMAIN chain = 1..n /\ n \in Nat
  OBVIOUS
<1>3. CASE i = 0
  <2>1. c = Append(chain, new)
    BY <1>3 DEF SetIn
  <2>2. /\ c \in Seq(Entry) /\ Len(c) = n + 1 /\ DOMAIN c = 1..(n + 1)
        /\ c[n + 1] = new /\ \A j \in 1..n : c[j] = chain[j]
    BY <2>1
  <2> HIDE DEF c, i, n
  <2>3. \A j \in 1..(n + 1) : j \in 1..n \/ j = n + 1
    BY <1>2
  <2>4. n + 1 \in 1..(n + 1) /\ \A j \in 1..n : j \in 1..(n + 1) /\ j # n + 1
    BY <1>2
  <2>5. \A j \in 1..n : chain[j].key # new.key
    BY <1>1, <1>2, <1>3
  <2>6. KeysOnce(c)
    BY <1>2, <2>2, <2>3, <2>5 DEF KeysOnce
  <2>7. \A e : In(e, c) <=> e = new \/ In(e, chain)
    BY <1>2, <2>2, <2>3, <2>4 DEF In
  <2>8. \A e : In(e, chain) => e.key # new.key
    BY <1>2, <2>5 DEF In
  <2> QED BY <1>3, <2>2, <2>6, <2>7, <2>8 DEF c, i, n
<1>4. CASE i # 0
  <2>1. c = [chain EXCEPT ![i] = new]
    BY <1>4 DEF SetIn
  <2>2. i \in 1..n /\ chain[i].key = new.key
    BY <1>1, <1>2, <1>4
  <2>3. /\ c \in Seq(Entry) /\ Len(c) = n /\ DOMAIN c = 1..n
        /\ c[i] = new /\ \A j \in 1..n : j # i => c[j] = chain[j]
    BY <2>1, <2>2
  <2> HIDE DEF c, i, n
  <2>4. \A j \in 1..n : j # i => chain[j].key # new.key
    BY <1>2, <2>2 DEF KeysOnce
  <2>5. KeysOnce(c)
    BY <1>2, <2>2, <2>3, <2>4 DEF KeysOnce
  <2>6. ASSUME NEW e
        PROVE  In(e, c) <=> e = new \/ (In(e, chain) /\ e.key # new.key)
    <3>1. ASSUME In(e, c) PROVE e = new \/ (In(e, chain) /\ e.key # new.key)
      BY <1>2, <2>3, <2>4, <3>1 DEF In
    <3>2. ASSUME e = new PROVE In(e, c)
      BY <2>2, <2>3, <3>2 DEF In
    <3>3. ASSUME In(e, chain), e.key # new.key PROVE In(e, c)
      BY <1>2, <2>2, <2>3, <3>3 DEF In
    <3> QED BY <3>1, <3>2, <3>3
  <2>7. n = n + 0
    BY <1>2
  <2> QED BY <1>4, <2>3, <2>5, <2>6, <2>7 DEF c, i, n
<1> QED BY <1>3, <1>4

(* A sequence without its i-th entry.                                      *)
LEMMA RemovedFacts ==
    ASSUME NEW S, NEW list \in Seq(S), NEW i \in 1..Len(list)
    PROVE  /\ RemoveAt(list, i) \in Seq(S) /\ Len(RemoveAt(list, i)) = Len(list) - 1
           /\ \A j \in 1..(Len(list) - 1) :
                 RemoveAt(list, i)[j] = IF j < i THEN list[j] ELSE list[j + 1]
<1> DEFINE n == Len(list)
           a == SubSeq(list, 1, i - 1)
           z == SubSeq(list, i + 1, n)
<1>1. n \in Nat /\ i \in 1..n
  OBVIOUS
<1>2. RemoveAt(list, i) = a \o z
  BY DEF RemoveAt
<1>3. a \in Seq(S) /\ Len(a) = i - 1 /\ \A j \in 1..(i - 1) : a[j] = list[j]
  BY <1>1
<1>4. z \in Seq(S) /\ Len(z) = n - i /\ \A j \in 1..(n - i) : z[j] = list[i + j]
  BY <1>1
<1> HIDE DEF a, z, n
<1>5. /\ a \o z \in Seq(S) /\ Len(a \o z) = Len(a) + Len(z)
      /\ \A j \in 1..Len(a \o z) : (a \o z)[j] = IF j <= Len(a) THEN a[j] ELSE z[j - Len(a)]
  <2>1. a \in Seq(S) /\ z \in Seq(S)
    BY <1>3, <1>4
  <2> QED BY <2>1
<1>6. Len(a) = i - 1 /\ Len(z) = n - i /\ (i - 1) + (n - i) = n - 1
  BY <1>1, <1>3, <1>4
<1>7. \A j \in 1..(n - 1) : j <= i - 1 <=> j < i
  BY <1>1
<1>8. \A j \in 1..(n - 1) :
         IF j < i THEN j \in 1..(i - 1)
         ELSE j - (i - 1) \in 1..(n - i) /\ i + (j - (i - 1)) = j + 1
  BY <1>1
<1>9. \A j \in 1..(n - 1) : (a \o z)[j] = IF j < i THEN list[j] ELSE list[j + 1]
  BY <1>3, <1>4, <1>5, <1>6, <1>7, <1>8
<1> QED BY <1>2, <1>5, <1>6, <1>9 DEF n

(* IBHashTable_delete in a chain.                                          *)
LEMMA UnlinkedChain ==
    ASSUME NEW chain \in Seq(Entry), KeysOnce(chain), NEW i \in DOMAIN chain
    PROVE  LET c == Unlinked(chain, i)
           IN  /\ c \in Seq(Entry) /\ KeysOnce(c)
               /\ Len(c) = Len(chain) - 1
               /\ \A e : In(e, c) <=> In(e, chain) /\ e.key # chain[i].key
<1> DEFINE c == Unlinked(chain, i)
           n == Len(chain)
<1>1. DOMAIN chain = 1..n /\ n \in Nat /\ i \in 1..n
  OBVIOUS
<1>2. /\ c \in Seq(Entry) /\ Len(c) = n - 1 /\ DOMAIN c = 1..(n - 1)
      /\ \A j \in 1..(n - 1) : c[j] = IF j < i THEN chain[j] ELSE chain[j + 1]
  <2>1. /\ c \in Seq(Entry) /\ Len(c) = n - 1
        /\ \A j \in 1..(n - 1) : c[j] = IF j < i THEN chain[j] ELSE chain[j + 1]
    BY <1>1, RemovedFacts DEF Unlinked
  <2> QED BY <2>1
<1> HIDE DEF c, n
<1>3. \A j \in 1..(n - 1) : /\ j \in 1..n /\ j + 1 \in 1..n
                            /\ j < i => j # i
                            /\ ~(j < i) => j + 1 # i
  BY <1>1
<1>4. \A j \in 1..n : /\ j < i => j \in 1..(n - 1)
                      /\ j > i => j - 1 \in 1..(n - 1) /\ ~(j - 1 < i) /\ (j - 1) + 1 = j
                      /\ j < i \/ j = i \/ j > i
  BY <1>1
<1>5. KeysOnce(c)
  <2> SUFFICES ASSUME NEW j \in 1..(n - 1), NEW k \in 1..(n - 1), c[j].key = c[k].key
               PROVE  j = k
    BY <1>2 DEF KeysOnce
  <2> DEFINE at(x) == IF x < i THEN x ELSE x + 1
  <2>1. c[j] = chain[at(j)] /\ c[k] = chain[at(k)]
    BY <1>2
  <2>2. at(j) \in 1..n /\ at(k) \in 1..n
    BY <1>3
  <2>3. at(j) = at(k)
    BY <1>1, <2>1, <2>2 DEF KeysOnce
  <2> QED BY <1>1, <2>3
<1>6. ASSUME NEW e
      PROVE  In(e, c) <=> In(e, chain) /\ e.key # chain[i].key
  <2>1. ASSUME NEW j \in 1..(n - 1), c[j] = e
        PROVE  In(e, chain) /\ e.key # chain[i].key
    <3>1. CASE j < i
      BY <1>1, <1>2, <1>3, <2>1, <3>1 DEF In, KeysOnce
    <3>2. CASE ~(j < i)
      BY <1>1, <1>2, <1>3, <2>1, <3>2 DEF In, KeysOnce
    <3> QED BY <3>1, <3>2
  <2>2. ASSUME NEW j \in 1..n, chain[j] = e, e.key # chain[i].key
        PROVE  In(e, c)
    <3>1. CASE j < i
      BY <1>2, <1>4, <2>2, <3>1 DEF In
    <3>2. CASE j = i
      BY <2>2, <3>2
    <3>3. CASE j > i
      <4>1. c[j - 1] = chain[(j - 1) + 1]
        BY <1>2, <1>4, <3>3
      <4> QED BY <1>2, <1>4, <2>2, <3>3, <4>1 DEF In
    <3> QED BY <1>4, <3>1, <3>2, <3>3
  <2> QED BY <1>1, <1>2, <2>1, <2>2 DEF In
<1> QED BY <1>2, <1>5, <1>6 DEF c, n

-----------------------------------------------------------------------------
(* The table.  The inductive invariant says of the entries, wherever they  *)
(* are, that an owned object is in one entry at most, and of the iterator  *)
(* that what it gave is what it passed.                                    *)
Stored(e) == \E h \in 0..Size - 1 : In(e, bucket[h])

Chained ==
    /\ bucket \in [0..Size - 1 -> Seq(Entry)]
    /\ \A h \in 0..Size - 1 : /\ KeysOnce(bucket[h])
                              /\ \A e : In(e, bucket[h]) => Hash[e.key] = h
    /\ total = Len(AllEntries)

Owners ==
    /\ deleted \in [Owned -> 0..1]
    /\ \A e : Stored(e) /\ e.obj \in Owned => deleted[e.obj] = 0
    /\ \A e, d : Stored(e) /\ Stored(d) /\ e.obj \in Owned /\ e.obj = d.obj => e = d

Walking ==
    /\ iter \in [entries : Seq(Entry), pos : Nat] /\ iter.pos <= Len(iter.entries)
    /\ walked \in Seq(Keys)
    /\ Len(walked) = IF iter.pos < Len(iter.entries) THEN iter.pos + 1 ELSE 0
    /\ \A k \in 1..Len(walked) : walked[k] = iter.entries[k].key

TableInv == Chained /\ Owners /\ Walking

LEMMA StoredFacts ==
    ASSUME Chained
    PROVE  /\ AllEntries \in Seq(Entry)
           /\ \A e : e \in ToSet(AllEntries) <=> Stored(e)
           /\ \A e : Stored(e) => /\ e \in Entry
                                  /\ Hash[e.key] \in 0..Size - 1
                                  /\ In(e, bucket[Hash[e.key]])
<1>1. /\ All(bucket) \in Seq(Entry)
      /\ \A e : In(e, All(bucket)) <=> Stored(e)
  BY AllHolds DEF Chained, Stored
<1>2. AllEntries = All(bucket)
  BY DEF AllEntries, All, Chains
<1>3. \A e : e \in ToSet(AllEntries) <=> In(e, AllEntries)
  BY DEF ToSet, In
<1>4. ASSUME NEW e, Stored(e)
      PROVE  e \in Entry /\ Hash[e.key] \in 0..Size - 1 /\ In(e, bucket[Hash[e.key]])
  <2>1. PICK h \in 0..Size - 1 : In(e, bucket[h])
    BY <1>4 DEF Stored
  <2>2. Hash[e.key] = h /\ bucket[h] \in Seq(Entry)
    BY <2>1 DEF Chained
  <2>3. e \in Entry
    BY <2>1, <2>2 DEF In
  <2> QED BY <2>1, <2>2, <2>3
<1> QED BY <1>1, <1>2, <1>3, <1>4

LEMMA TableInvOK == TableInv => TableOK
<1> SUFFICES ASSUME TableInv PROVE TableOK
  OBVIOUS
<1>1. \A e \in ToSet(AllEntries) : e.obj \in Owned => deleted[e.obj] = 0
  BY StoredFacts DEF TableInv, Owners
<1>2. ASSUME NEW h \in 0..Size - 1, NEW i \in DOMAIN bucket[h], NEW j \in DOMAIN bucket[h]
      PROVE  /\ Hash[bucket[h][i].key] = h
             /\ bucket[h][i].key = bucket[h][j].key => i = j
  BY DEF TableInv, Chained, KeysOnce, In
<1>3. iter.pos \in 0..Len(iter.entries)
  BY DEF TableInv, Walking
<1> QED BY <1>1, <1>2, <1>3 DEF TableOK, TableInv, Chained, Owners

LEMMA TableInitOK == TableInit => TableInv
<1> SUFFICES ASSUME TableInit PROVE TableInv
  OBVIOUS
<1>1. bucket \in [0..Size - 1 -> Seq(Entry)] /\ \A h \in 0..Size - 1 : bucket[h] = <<>>
  <2>1. <<>> \in Seq(Entry)
    OBVIOUS
  <2> QED BY <2>1 DEF TableInit
<1>2. \A e : ~In(e, <<>>)
  BY DEF In
<1>3. \A e : ~Stored(e)
  BY <1>1, <1>2 DEF Stored
<1>4. Chained
  <2>1. Len(All(bucket)) = 0 /\ total = 0
    BY <1>1, AllEmpty DEF TableInit
  <2>2. \A h \in 0..Size - 1 : KeysOnce(bucket[h]) /\ \A e : ~In(e, bucket[h])
    BY <1>1, <1>2 DEF KeysOnce
  <2> QED BY <1>1, <2>1, <2>2 DEF Chained, AllEntries, All, Chains
<1>5. Owners
  BY <1>3 DEF Owners, TableInit
<1>6. Walking
  <2>1. <<>> \in Seq(Entry) /\ <<>> \in Seq(Keys)
    OBVIOUS
  <2> QED BY <2>1 DEF Walking, TableInit
<1> QED BY <1>4, <1>5, <1>6 DEF TableInv

(* The entries with a key in ks go, and those in new come.                 *)
Lost(ks, o) == \E e \in Entry : Stored(e) /\ e.key \in ks /\ e.obj = o

Changed(new, ks) ==
    /\ Chained'
    /\ \A e : Stored(e)' <=> e \in new \/ (Stored(e) /\ e.key \notin ks)
    /\ deleted' = [o \in Owned |-> IF Lost(ks, o) THEN deleted[o] + 1 ELSE deleted[o]]
    /\ UNCHANGED <<iter, walked>>

(* What comes is at most one entry, with an object of its own.             *)
Fresh(new, ks) ==
    /\ new \in SUBSET Entry
    /\ \A e, d \in new : e = d
    /\ \A e \in new : /\ e.key \in ks
                      /\ e.obj \in Owned => /\ deleted[e.obj] = 0
                                            /\ \A d : Stored(d) => d.obj # e.obj

LEMMA ChangeKeeps ==
    ASSUME TableInv, NEW new, NEW ks, Changed(new, ks), Fresh(new, ks)
    PROVE  TableInv'
<1>1. \A e : Stored(e) => e \in Entry
  BY StoredFacts DEF TableInv
<1>2. \A o \in Owned : Lost(ks, o) => deleted[o] = 0
  BY DEF Lost, TableInv, Owners
<1>3. deleted' \in [Owned -> 0..1]
  <2>1. \A o \in Owned : deleted[o] \in 0..1
    BY DEF TableInv, Owners
  <2>2. ASSUME NEW o \in Owned
        PROVE  (IF Lost(ks, o) THEN deleted[o] + 1 ELSE deleted[o]) \in 0..1
    <3>1. CASE Lost(ks, o)
      BY <1>2, <3>1
    <3>2. CASE ~Lost(ks, o)
      BY <2>1, <3>2
    <3> QED BY <3>1, <3>2
  <2> QED BY <2>2 DEF Changed
<1>4. ASSUME NEW e, Stored(e)', e.obj \in Owned
      PROVE  deleted'[e.obj] = 0
  <2>1. deleted'[e.obj] = IF Lost(ks, e.obj) THEN deleted[e.obj] + 1 ELSE deleted[e.obj]
    BY <1>4 DEF Changed
  <2>2. CASE e \in new
    <3>1. deleted[e.obj] = 0 /\ ~Lost(ks, e.obj)
      <4>1. deleted[e.obj] = 0 /\ \A d : Stored(d) => d.obj # e.obj
        BY <1>4, <2>2 DEF Fresh
      <4>2. ~Lost(ks, e.obj)
        BY <4>1, Zenon DEF Lost
      <4> QED BY <4>1, <4>2
    <3> QED BY <2>1, <3>1
  <2>3. CASE Stored(e) /\ e.key \notin ks
    <3>1. deleted[e.obj] = 0 /\ ~Lost(ks, e.obj)
      BY <1>4, <2>3 DEF TableInv, Owners, Lost
    <3> QED BY <2>1, <3>1
  <2> QED BY <1>4, <2>2, <2>3 DEF Changed
<1>5. ASSUME NEW e, NEW d, Stored(e)', Stored(d)', e.obj \in Owned, e.obj = d.obj
      PROVE  e = d
  <2>1. (e \in new \/ Stored(e)) /\ (d \in new \/ Stored(d))
    BY <1>5 DEF Changed
  <2>2. CASE e \in new /\ d \in new
    BY <2>2 DEF Fresh
  <2>3. CASE e \in new /\ Stored(d)
    <3>1. d.obj # e.obj
      BY <1>5, <2>3, Zenon DEF Fresh
    <3> QED BY <1>5, <3>1
  <2>4. CASE Stored(e) /\ d \in new
    <3>1. d.obj \in Owned
      BY <1>5
    <3>2. e.obj # d.obj
      BY <2>4, <3>1, Zenon DEF Fresh
    <3> QED BY <1>5, <3>2
  <2>5. CASE Stored(e) /\ Stored(d)
    BY <1>5, <2>5, Zenon DEF TableInv, Owners
  <2> QED BY <2>1, <2>2, <2>3, <2>4, <2>5
<1>6. Walking'
  BY DEF Walking, TableInv, Changed
<1>7. Owners'
  BY <1>3, <1>4, <1>5 DEF Owners
<1> QED BY <1>6, <1>7 DEF TableInv, Changed

(* What happens to the table when one chain does.                          *)
LEMMA ChainExchange ==
    ASSUME Chained, NEW key \in Keys, NEW c \in Seq(Entry), NEW new,
           bucket' = [bucket EXCEPT ![Hash[key]] = c], KeysOnce(c),
           \A e \in new : e.key = key,
           \A e : In(e, c) <=> e \in new \/ (In(e, bucket[Hash[key]]) /\ e.key # key)
    PROVE  /\ bucket' \in [0..Size - 1 -> Seq(Entry)]
           /\ \A h \in 0..Size - 1 : /\ KeysOnce(bucket'[h])
                                     /\ \A e : In(e, bucket'[h]) => Hash[e.key] = h
           /\ Len(AllEntries)' = Len(AllEntries) + Len(c) - Len(bucket[Hash[key]])
           /\ \A e : Stored(e)' <=> e \in new \/ (Stored(e) /\ e.key \notin {key})
<1> DEFINE g == Hash[key]
<1>1. g \in 0..Size - 1
  BY HashAssumption
<1>2. bucket \in [0..Size - 1 -> Seq(Entry)]
  BY DEF Chained
<1>3. /\ bucket' \in [0..Size - 1 -> Seq(Entry)]
      /\ bucket'[g] = c
      /\ \A h \in 0..Size - 1 : h # g => bucket'[h] = bucket[h]
  BY <1>1, <1>2
<1>4. Len(AllEntries)' = Len(AllEntries) + Len(c) - Len(bucket[g])
  <2>1. Len(All([bucket EXCEPT ![g] = c])) = Len(All(bucket)) + Len(c) - Len(bucket[g])
    BY <1>1, <1>2, AllChange
  <2>2. AllEntries = All(bucket) /\ AllEntries' = All([bucket EXCEPT ![g] = c])
    BY DEF AllEntries, All, Chains
  <2> QED BY <2>1, <2>2
<1> HIDE DEF g
<1>5. \A e : In(e, c) <=> e \in new \/ (In(e, bucket[g]) /\ e.key # key)
  BY DEF g
<1>6. \A h \in 0..Size - 1 : KeysOnce(bucket[h]) /\ \A e : In(e, bucket[h]) => Hash[e.key] = h
  BY DEF Chained
<1>7. ASSUME NEW h \in 0..Size - 1
      PROVE  KeysOnce(bucket'[h]) /\ \A e : In(e, bucket'[h]) => Hash[e.key] = h
  <2>1. CASE h = g
    <3>1. KeysOnce(bucket'[h])
      BY <1>3, <2>1
    <3>2. \A e : In(e, c) => Hash[e.key] = g
      <4>1. \A e \in new : Hash[e.key] = g
        BY DEF g
      <4>2. \A e : In(e, bucket[g]) => Hash[e.key] = g
        BY <1>1, <1>6
      <4> QED BY <1>5, <4>1, <4>2
    <3> QED BY <1>3, <2>1, <3>1, <3>2
  <2>2. CASE h # g
    BY <1>3, <1>6, <2>2
  <2> QED BY <2>1, <2>2
<1>8. ASSUME NEW e
      PROVE  Stored(e)' <=> e \in new \/ (Stored(e) /\ e.key \notin {key})
  <2>1. Stored(e)' <=> \E h \in 0..Size - 1 : In(e, bucket'[h])
    BY DEF Stored, In
  <2>2. ASSUME NEW h \in 0..Size - 1, In(e, bucket'[h])
        PROVE  e \in new \/ (Stored(e) /\ e.key # key)
    <3>1. CASE h = g
      BY <1>3, <1>5, <2>2, <3>1 DEF Stored
    <3>2. CASE h # g
      <4>1. In(e, bucket[h])
        BY <1>3, <2>2, <3>2
      <4>2. e.key # key
        BY <1>6, <3>2, <4>1 DEF g
      <4> QED BY <4>1, <4>2 DEF Stored
    <3> QED BY <3>1, <3>2
  <2>3. ASSUME e \in new PROVE \E h \in 0..Size - 1 : In(e, bucket'[h])
    BY <1>1, <1>3, <1>5, <2>3
  <2>4. ASSUME NEW h \in 0..Size - 1, In(e, bucket[h]), e.key # key
        PROVE  \E k \in 0..Size - 1 : In(e, bucket'[k])
    <3>1. CASE h = g
      BY <1>1, <1>3, <1>5, <2>4, <3>1
    <3>2. CASE h # g
      BY <1>3, <2>4, <3>2
    <3> QED BY <3>1, <3>2
  <2> QED BY <2>1, <2>2, <2>3, <2>4 DEF Stored
<1> QED BY <1>3, <1>4, <1>7, <1>8 DEF g

LEMMA SetEffect ==
    ASSUME TableInv, NEW key \in Keys, NEW obj \in Owned \cup Borrowed,
           IBHashTable_set(key, obj)
    PROVE  /\ Changed({[key |-> key, obj |-> obj]}, {key})
           /\ Fresh({[key |-> key, obj |-> obj]}, {key})
<1> DEFINE new == [key |-> key, obj |-> obj]
           g == Hash[key]
           chain == bucket[g]
           i == Find(chain, key)
           c == SetIn(chain, new)
<1>1. new \in Entry /\ new.key = key /\ new.obj = obj
  BY DEF Entry
<1>2. g \in 0..Size - 1 /\ chain \in Seq(Entry) /\ KeysOnce(chain)
  BY HashAssumption DEF TableInv, Chained
<1>3. /\ obj \in Owned => /\ deleted[obj] = 0
                          /\ obj \notin {e.obj : e \in ToSet(AllEntries)}
      /\ bucket' = [bucket EXCEPT ![g] = c]
      /\ total' = IF i = 0 THEN total + 1 ELSE total
      /\ CallDeleters(Replaced(chain, i))
      /\ UNCHANGED <<iter, walked>>
  BY DEF IBHashTable_set, SetIn
<1>4. /\ i \in 0..Len(chain)
      /\ i = 0 <=> \A j \in DOMAIN chain : chain[j].key # key
      /\ i # 0 => i \in DOMAIN chain /\ chain[i].key = key
  BY <1>2, FindFacts
<1>5. /\ c \in Seq(Entry) /\ KeysOnce(c)
      /\ Len(c) = Len(chain) + (IF i = 0 THEN 1 ELSE 0)
      /\ \A e : In(e, c) <=> e = new \/ (In(e, chain) /\ e.key # key)
  <2> HIDE DEF new, chain
  <2>1. /\ c \in Seq(Entry) /\ KeysOnce(c)
        /\ Len(c) = Len(chain) + (IF Find(chain, new.key) = 0 THEN 1 ELSE 0)
        /\ \A e : In(e, c) <=> e = new \/ (In(e, chain) /\ e.key # new.key)
    BY <1>1, <1>2, SetInChain
  <2> QED BY <1>1, <2>1
<1> HIDE DEF new, c
<1>6. /\ bucket' \in [0..Size - 1 -> Seq(Entry)]
      /\ \A h \in 0..Size - 1 : /\ KeysOnce(bucket'[h])
                                /\ \A e : In(e, bucket'[h]) => Hash[e.key] = h
      /\ Len(AllEntries)' = Len(AllEntries) + Len(c) - Len(chain)
      /\ \A e : Stored(e)' <=> e \in {new} \/ (Stored(e) /\ e.key \notin {key})
  <2>1. Chained /\ c \in Seq(Entry) /\ KeysOnce(c) /\ bucket' = [bucket EXCEPT ![Hash[key]] = c]
    BY <1>3, <1>5 DEF TableInv
  <2>2. \A e \in {new} : e.key = key
    BY <1>1
  <2>3. \A e : In(e, c) <=> e \in {new} \/ (In(e, bucket[Hash[key]]) /\ e.key # key)
    BY <1>5
  <2> QED BY <2>1, <2>2, <2>3, ChainExchange
<1>7. Chained'
  <2>1. total = Len(AllEntries) /\ AllEntries \in Seq(Entry)
    BY StoredFacts DEF TableInv, Chained
  <2>2. Len(AllEntries) \in Nat /\ Len(chain) \in Nat
    BY <1>2, <2>1
  <2>3. total' = Len(AllEntries)'
    <3>1. CASE i = 0
      BY <1>3, <1>5, <1>6, <2>1, <2>2, <3>1
    <3>2. CASE i # 0
      BY <1>3, <1>5, <1>6, <2>1, <2>2, <3>2
    <3> QED BY <3>1, <3>2
  <2> QED BY <1>6, <2>3 DEF Chained
<1>8. \A o \in Owned : o \in Replaced(chain, i) <=> Lost({key}, o)
  <2>1. ASSUME NEW e \in Entry, Stored(e), e.key = key
        PROVE  i # 0 /\ chain[i] = e
    <3>1. In(e, chain)
      BY <2>1, StoredFacts DEF TableInv
    <3>2. PICK j \in DOMAIN chain : chain[j] = e
      BY <3>1 DEF In
    <3>3. i # 0
      BY <1>4, <2>1, <3>2
    <3> QED BY <1>2, <1>4, <2>1, <3>2, <3>3 DEF KeysOnce
  <2>2. CASE i = 0
    BY <2>1, <2>2 DEF Replaced, Lost
  <2>3. CASE i # 0
    <3>1. i \in DOMAIN chain /\ chain[i].key = key /\ chain[i] \in Entry
      BY <1>2, <1>4, <2>3
    <3>2. Stored(chain[i])
      BY <1>2, <3>1 DEF Stored, In
    <3> QED BY <2>1, <2>3, <3>1, <3>2 DEF Replaced, Lost
  <2> QED BY <2>2, <2>3
<1>9. deleted' = [o \in Owned |-> IF Lost({key}, o) THEN deleted[o] + 1 ELSE deleted[o]]
  BY <1>3, <1>8 DEF CallDeleters
<1>10. Fresh({new}, {key})
  <2>1. obj \in Owned => deleted[obj] = 0 /\ \A d : Stored(d) => d.obj # obj
    BY <1>3, StoredFacts DEF TableInv
  <2> QED BY <1>1, <2>1 DEF Fresh
<1> QED BY <1>3, <1>6, <1>7, <1>9, <1>10 DEF Changed, new

LEMMA DeleteEffect ==
    ASSUME TableInv, NEW key \in Keys, IBHashTable_delete(key)
    PROVE  Changed({}, {key})
<1> DEFINE g == Hash[key]
           chain == bucket[g]
           i == Find(chain, key)
           c == Unlinked(chain, i)
<1>1. g \in 0..Size - 1 /\ chain \in Seq(Entry) /\ KeysOnce(chain)
  BY HashAssumption DEF TableInv, Chained
<1>2. /\ i # 0
      /\ bucket' = [bucket EXCEPT ![g] = c]
      /\ total' = total - 1
      /\ CallDeleters({chain[i].obj})
      /\ UNCHANGED <<iter, walked>>
  BY DEF IBHashTable_delete
<1>3. i \in DOMAIN chain /\ chain[i].key = key /\ chain[i] \in Entry
  <2>1. i \in DOMAIN chain /\ chain[i].key = key
    BY <1>1, <1>2, FindFacts
  <2> QED BY <1>1, <2>1
<1>4. /\ c \in Seq(Entry) /\ KeysOnce(c) /\ Len(c) = Len(chain) - 1
      /\ \A e : In(e, c) <=> In(e, chain) /\ e.key # key
  <2> HIDE DEF chain, i
  <2>1. /\ c \in Seq(Entry) /\ KeysOnce(c) /\ Len(c) = Len(chain) - 1
        /\ \A e : In(e, c) <=> In(e, chain) /\ e.key # chain[i].key
    BY <1>1, <1>3, UnlinkedChain
  <2> QED BY <1>3, <2>1
<1> HIDE DEF c
<1>5. /\ bucket' \in [0..Size - 1 -> Seq(Entry)]
      /\ \A h \in 0..Size - 1 : /\ KeysOnce(bucket'[h])
                                /\ \A e : In(e, bucket'[h]) => Hash[e.key] = h
      /\ Len(AllEntries)' = Len(AllEntries) + Len(c) - Len(chain)
      /\ \A e : Stored(e)' <=> e \in {} \/ (Stored(e) /\ e.key \notin {key})
  <2>1. Chained /\ c \in Seq(Entry) /\ KeysOnce(c) /\ bucket' = [bucket EXCEPT ![Hash[key]] = c]
    BY <1>2, <1>4 DEF TableInv
  <2> DEFINE none == {}
  <2>2. \A e \in none : e.key = key
    OBVIOUS
  <2>3. \A e : In(e, c) <=> e \in none \/ (In(e, bucket[Hash[key]]) /\ e.key # key)
    BY <1>4
  <2>4. \A e : e \notin none
    OBVIOUS
  <2> HIDE DEF none
  <2>5. /\ bucket' \in [0..Size - 1 -> Seq(Entry)]
        /\ \A h \in 0..Size - 1 : /\ KeysOnce(bucket'[h])
                                  /\ \A e : In(e, bucket'[h]) => Hash[e.key] = h
        /\ Len(AllEntries)' = Len(AllEntries) + Len(c) - Len(chain)
        /\ \A e : Stored(e)' <=> e \in none \/ (Stored(e) /\ e.key \notin {key})
    BY <2>1, <2>2, <2>3, ChainExchange
  <2> QED BY <2>4, <2>5
<1>6. Chained'
  <2>1. total = Len(AllEntries) /\ AllEntries \in Seq(Entry)
    BY StoredFacts DEF TableInv, Chained
  <2>2. Len(AllEntries) \in Nat /\ Len(chain) \in Nat
    BY <1>1, <2>1
  <2>3. total' = Len(AllEntries)'
    BY <1>2, <1>4, <1>5, <2>1, <2>2
  <2> QED BY <1>5, <2>3 DEF Chained
<1>7. \A o \in Owned : o \in {chain[i].obj} <=> Lost({key}, o)
  <2>1. Stored(chain[i])
    BY <1>1, <1>3 DEF Stored, In
  <2>2. ASSUME NEW e \in Entry, Stored(e), e.key = key
        PROVE  e = chain[i]
    <3>1. In(e, chain)
      BY <2>2, StoredFacts DEF TableInv
    <3>2. PICK j \in DOMAIN chain : chain[j] = e
      BY <3>1 DEF In
    <3> QED BY <1>1, <1>3, <2>2, <3>2 DEF KeysOnce
  <2> QED BY <1>3, <2>1, <2>2 DEF Lost
<1>8. deleted' = [o \in Owned |-> IF Lost({key}, o) THEN deleted[o] + 1 ELSE deleted[o]]
  BY <1>2, <1>7 DEF CallDeleters
<1> QED BY <1>2, <1>5, <1>6, <1>8 DEF Changed

LEMMA DestroyEffect ==
    ASSUME TableInv, IBHashTable_destroy
    PROVE  Changed({}, Keys)
<1>1. /\ bucket' \in [0..Size - 1 -> Seq(Entry)]
      /\ \A h \in 0..Size - 1 : bucket'[h] = <<>>
  <2>1. <<>> \in Seq(Entry)
    OBVIOUS
  <2> QED BY <2>1 DEF IBHashTable_destroy
<1>2. \A e : ~In(e, <<>>)
  BY DEF In
<1>3. \A e : ~Stored(e)'
  <2>1. \A e : Stored(e)' <=> \E h \in 0..Size - 1 : In(e, bucket'[h])
    BY DEF Stored, In
  <2> QED BY <1>1, <1>2, <2>1
<1>4. Chained'
  <2>1. Len(All(bucket')) = 0 /\ total' = 0
    BY <1>1, AllEmpty DEF IBHashTable_destroy
  <2>2. AllEntries' = All(bucket')
    BY DEF AllEntries, All, Chains
  <2>3. \A h \in 0..Size - 1 : KeysOnce(bucket'[h]) /\ \A e : ~In(e, bucket'[h])
    BY <1>1, <1>2 DEF KeysOnce
  <2> QED BY <1>1, <2>1, <2>2, <2>3 DEF Chained
<1>5. \A e : Stored(e) => e \in Entry /\ e.key \in Keys
  BY StoredFacts DEF TableInv, Entry
<1>6. \A o \in Owned : o \in {e.obj : e \in ToSet(AllEntries)} <=> Lost(Keys, o)
  <2>1. \A e : e \in ToSet(AllEntries) <=> Stored(e)
    BY StoredFacts DEF TableInv
  <2> QED BY <1>5, <2>1 DEF Lost
<1>7. deleted' = [o \in Owned |-> IF Lost(Keys, o) THEN deleted[o] + 1 ELSE deleted[o]]
  BY <1>6 DEF IBHashTable_destroy, CallDeleters
<1> QED BY <1>3, <1>4, <1>5, <1>7 DEF Changed, IBHashTable_destroy

(* The iterator's steps change nothing in the table, and the others        *)
(* nothing in the iterator.                                                *)
LEMMA IteratorKeeps ==
    ASSUME TableInv, UNCHANGED <<bucket, total, deleted>>, Walking'
    PROVE  TableInv'
<1>1. \A e : Stored(e)' <=> Stored(e)
  BY DEF Stored, In
<1>2. Chained'
  BY DEF TableInv, Chained, AllEntries, KeysOnce, In
<1>3. Owners'
  BY <1>1 DEF TableInv, Owners
<1> QED BY <1>2, <1>3 DEF TableInv

LEMMA MoveNextWalks ==
    ASSUME Walking, IBHashTableIterator_moveNext
    PROVE  Walking'
<1> DEFINE n == Len(iter.entries)
           p == iter.pos
           q == NextPos
<1>1. /\ iter.entries \in Seq(Entry) /\ p \in Nat /\ n \in Nat /\ p <= n
      /\ iter \in [entries : Seq(Entry), pos : Nat]
  BY DEF Walking
<1>2. q = (IF p >= n THEN 0 ELSE p + 1) /\ q \in Nat /\ q <= n
  BY <1>1 DEF NextPos
<1>3. /\ iter' \in [entries : Seq(Entry), pos : Nat]
      /\ iter'.entries = iter.entries /\ iter'.pos = q
  BY <1>1, <1>2 DEF IBHashTableIterator_moveNext
<1>4. walked' = IF q < n THEN Append(walked, iter.entries[q + 1].key) ELSE <<>>
  BY DEF IBHashTableIterator_moveNext
<1>5. /\ walked \in Seq(Keys) /\ Len(walked) = IF p < n THEN p + 1 ELSE 0
      /\ \A k \in 1..Len(walked) : walked[k] = iter.entries[k].key
  BY DEF Walking
<1> HIDE DEF n, p, q
<1>6. CASE q < n
  <2>1. Len(walked) = q
    BY <1>1, <1>2, <1>5, <1>6
  <2>2. iter.entries[q + 1].key \in Keys
    <3>1. q + 1 \in 1..n
      BY <1>1, <1>2, <1>6
    <3>2. iter.entries[q + 1] \in Entry
      BY <1>1, <3>1 DEF n
    <3> QED BY <3>2 DEF Entry
  <2>3. walked' = Append(walked, iter.entries[q + 1].key)
    BY <1>4, <1>6
  <2>4. /\ walked' \in Seq(Keys) /\ Len(walked') = q + 1
        /\ walked'[q + 1] = iter.entries[q + 1].key
        /\ \A k \in 1..q : walked'[k] = walked[k]
    <3>1. /\ walked' \in Seq(Keys) /\ Len(walked') = Len(walked) + 1
          /\ walked'[Len(walked) + 1] = iter.entries[q + 1].key
          /\ \A k \in 1..Len(walked) : walked'[k] = walked[k]
      BY <1>5, <2>2, <2>3, AppendFacts
    <3> QED BY <2>1, <3>1
  <2>5. \A k \in 1..(q + 1) : k \in 1..q \/ k = q + 1
    BY <1>2
  <2>6. \A k \in 1..Len(walked') : walked'[k] = iter'.entries[k].key
    BY <1>3, <1>5, <2>1, <2>4, <2>5
  <2>7. iter'.pos < Len(iter'.entries) /\ iter'.pos <= Len(iter'.entries)
    BY <1>1, <1>2, <1>3, <1>6 DEF n
  <2>8. Len(walked') = iter'.pos + 1
    BY <1>3, <2>4
  <2> QED BY <1>3, <2>4, <2>6, <2>7, <2>8 DEF Walking
<1>7. CASE ~(q < n)
  <2>1. walked' = <<>>
    BY <1>4, <1>7
  <2>2. <<>> \in Seq(Keys) /\ Len(<<>>) = 0
    OBVIOUS
  <2>3. ~(iter'.pos < Len(iter'.entries)) /\ iter'.pos <= Len(iter'.entries)
    BY <1>1, <1>2, <1>3, <1>7 DEF n
  <2>4. walked' \in Seq(Keys) /\ Len(walked') = 0 /\ 1..Len(walked') = {}
    BY <2>1, <2>2
  <2> QED BY <1>3, <2>3, <2>4 DEF Walking
<1> QED BY <1>6, <1>7

LEMMA IteratorWalks ==
    ASSUME Chained, IBHashTable_iterator
    PROVE  Walking'
<1>1. AllEntries \in Seq(Entry)
  BY StoredFacts
<1>2. iter' = [entries |-> AllEntries, pos |-> Len(AllEntries)] /\ walked' = <<>>
  BY DEF IBHashTable_iterator, AtEnd
<1>3. Len(AllEntries) \in Nat
  BY <1>1
<1>4. iter' \in [entries : Seq(Entry), pos : Nat]
  BY <1>1, <1>2, <1>3
<1>5. iter'.pos = Len(iter'.entries) /\ ~(iter'.pos < Len(iter'.entries)) /\ iter'.pos <= Len(iter'.entries)
  BY <1>2, <1>3
<1>6. <<>> \in Seq(Keys) /\ Len(<<>>) = 0
  OBVIOUS
<1>7. walked' \in Seq(Keys) /\ Len(walked') = 0 /\ 1..Len(walked') = {}
  BY <1>2, <1>6
<1> QED BY <1>4, <1>5, <1>7 DEF Walking

LEMMA TableNextOK == TableInv /\ [TableNext]_tableVars => TableInv'
<1> SUFFICES ASSUME TableInv, [TableNext]_tableVars PROVE TableInv'
  OBVIOUS
<1>1. ASSUME NEW k \in Keys, NEW o \in Owned \cup Borrowed, IBHashTable_set(k, o)
      PROVE  TableInv'
  BY <1>1, SetEffect, ChangeKeeps
<1>2. ASSUME NEW k \in Keys, IBHashTable_delete(k) PROVE TableInv'
  <2>1. Fresh({}, {k})
    BY DEF Fresh
  <2> QED BY <1>2, <2>1, DeleteEffect, ChangeKeeps
<1>3. CASE IBHashTable_destroy
  <2>1. Fresh({}, Keys)
    BY DEF Fresh
  <2> QED BY <1>3, <2>1, DestroyEffect, ChangeKeeps
<1>4. CASE IBHashTable_iterator
  <2>1. Walking'
    BY <1>4, IteratorWalks DEF TableInv
  <2> QED BY <1>4, <2>1, IteratorKeeps DEF IBHashTable_iterator
<1>5. CASE IBHashTableIterator_moveNext
  <2>1. Walking'
    BY <1>5, MoveNextWalks DEF TableInv
  <2> QED BY <1>5, <2>1, IteratorKeeps DEF IBHashTableIterator_moveNext
<1>6. CASE UNCHANGED tableVars
  <2>1. Walking'
    BY <1>6 DEF TableInv, Walking, tableVars
  <2> QED BY <1>6, <2>1, IteratorKeeps DEF tableVars
<1> QED BY <1>1, <1>2, <1>3, <1>4, <1>5, <1>6 DEF TableNext

LEMMA TableInvariance == TableSpec => []TableInv
BY TableInitOK, TableNextOK, PTL DEF TableSpec

(* hashtable.c: no key is in a chain twice or where it would not be found, *)
(* count counts the entries, and an owned object is in one entry or with   *)
(* its deleter, which is called for it once.                               *)
THEOREM TableTheorem == TableSpec => []TableOK
BY TableInvariance, TableInvOK, PTL

(* IBHashTableIterator_moveNext at the end of a walk has given the key of  *)
(* every entry the iterator was made with, once.                           *)
LEMMA WalkEndOK ==
    Walking /\ WalkEnds => /\ Len(walked) = Len(iter.entries)
                           /\ ToSet(walked) = {e.key : e \in ToSet(iter.entries)}
<1> SUFFICES ASSUME Walking, WalkEnds
             PROVE  /\ Len(walked) = Len(iter.entries)
                    /\ ToSet(walked) = {e.key : e \in ToSet(iter.entries)}
  OBVIOUS
<1>1. /\ iter.entries \in Seq(Entry) /\ iter.pos \in Nat /\ Len(iter.entries) \in Nat
      /\ iter.pos <= Len(iter.entries)
  BY DEF Walking
<1>2. Len(walked) = Len(iter.entries)
  BY <1>1 DEF Walking, WalkEnds, NextPos
<1>3. /\ DOMAIN walked = 1..Len(iter.entries) /\ DOMAIN iter.entries = 1..Len(iter.entries)
      /\ \A k \in 1..Len(iter.entries) : walked[k] = iter.entries[k].key
  <2>1. walked \in Seq(Keys) /\ \A k \in 1..Len(walked) : walked[k] = iter.entries[k].key
    BY DEF Walking
  <2>2. DOMAIN walked = 1..Len(walked)
    BY <2>1
  <2> QED BY <1>1, <1>2, <2>1, <2>2
<1>4. ToSet(walked) = {e.key : e \in ToSet(iter.entries)}
  BY <1>3 DEF ToSet
<1> QED BY <1>2, <1>4

(* hashtable.c: a walk to the end gives the key of every entry there was   *)
(* when the iterator was made, each once, whatever was set or deleted      *)
(* since.                                                                  *)
THEOREM WalkTheorem == TableSpec => WalkComplete
<1>1. TableInv => Walking
  BY DEF TableInv
<1>2. Walking => (WalkEnds => /\ Len(walked) = Len(iter.entries)
                              /\ ToSet(walked) = {e.key : e \in ToSet(iter.entries)})
  BY WalkEndOK
<1> QED BY <1>1, <1>2, TableInvariance, PTL DEF WalkComplete

-----------------------------------------------------------------------------
(* The refinement of KeyMap.                                               *)
Mapped == [k \in Found |-> IBHashTable_get(k)]
Released == {o \in Owned : deleted[o] > 0}

(* IBHashTable_get finds the entries that are stored, and nothing else.    *)
FindsStored ==
    /\ \A e : Stored(e) => e.key \in Found /\ IBHashTable_get(e.key) = e.obj
    /\ \A k \in Found : \E e \in Entry :
          Stored(e) /\ e.key = k /\ e.obj = IBHashTable_get(k)

LEMMA GetFinds == TableInv => FindsStored
<1> SUFFICES ASSUME TableInv PROVE FindsStored
  OBVIOUS
<1>1. \A k \in Keys : /\ Hash[k] \in 0..Size - 1
                      /\ bucket[Hash[k]] \in Seq(Entry) /\ KeysOnce(bucket[Hash[k]])
  BY HashAssumption DEF TableInv, Chained
<1>2. ASSUME NEW e, Stored(e)
      PROVE  e.key \in Found /\ IBHashTable_get(e.key) = e.obj
  <2> DEFINE chain == bucket[Hash[e.key]]
             i == Find(chain, e.key)
  <2>1. e \in Entry /\ In(e, chain)
    BY <1>2, StoredFacts DEF TableInv
  <2>2. e.key \in Keys
    BY <2>1 DEF Entry
  <2>3. chain \in Seq(Entry) /\ KeysOnce(chain)
    BY <1>1, <2>2
  <2>4. PICK j \in DOMAIN chain : chain[j] = e
    BY <2>1 DEF In
  <2>5. /\ i = 0 <=> \A k \in DOMAIN chain : chain[k].key # e.key
        /\ i # 0 => i \in DOMAIN chain /\ chain[i].key = e.key
    BY <2>3, FindFacts
  <2>6. i # 0
    BY <2>4, <2>5
  <2>7. i = j
    BY <2>3, <2>4, <2>5, <2>6 DEF KeysOnce
  <2> QED BY <2>2, <2>4, <2>6, <2>7 DEF Found, IBHashTable_get
<1>3. ASSUME NEW k \in Found
      PROVE  \E e \in Entry : Stored(e) /\ e.key = k /\ e.obj = IBHashTable_get(k)
  <2> DEFINE chain == bucket[Hash[k]]
             i == Find(chain, k)
  <2>1. k \in Keys /\ i # 0
    BY DEF Found
  <2>2. Hash[k] \in 0..Size - 1 /\ chain \in Seq(Entry)
    BY <1>1, <2>1
  <2>3. i \in DOMAIN chain /\ chain[i].key = k
    BY <2>1, <2>2, FindFacts
  <2>4. chain[i] \in Entry
    BY <2>2, <2>3
  <2>5. In(chain[i], chain)
    BY <2>3 DEF In
  <2>6. Stored(chain[i])
    BY <2>2, <2>5 DEF Stored
  <2>7. chain[i].obj = IBHashTable_get(k)
    BY DEF IBHashTable_get
  <2> QED BY <2>3, <2>4, <2>6, <2>7
<1> QED BY <1>2, <1>3 DEF FindsStored

LEMMA OwnedOfLost ==
    ASSUME TableInv, NEW ks, NEW o
    PROVE  o \in Map!OwnedOf(ks) <=> o \in Owned /\ Lost(ks, o)
<1>1. FindsStored
  BY GetFinds
<1>2. DOMAIN Mapped = Found /\ \A k \in Found : Mapped[k] = IBHashTable_get(k)
  BY DEF Mapped
<1>3. Map!OwnedOf(ks) = {Mapped[k] : k \in ks \cap DOMAIN Mapped} \cap Owned
  BY DEF Map!OwnedOf, Mapped
<1>4. \A e : Stored(e) => e \in Entry
  BY StoredFacts DEF TableInv
<1>5. ASSUME NEW k \in ks \cap Found, Mapped[k] = o PROVE Lost(ks, o)
  <2>1. PICK e \in Entry : Stored(e) /\ e.key = k /\ e.obj = IBHashTable_get(k)
    BY <1>1 DEF FindsStored
  <2> QED BY <1>2, <1>5, <2>1 DEF Lost
<1>6. ASSUME NEW e \in Entry, Stored(e), e.key \in ks, e.obj = o
      PROVE  \E k \in ks \cap Found : Mapped[k] = o
  <2>1. e.key \in Found /\ IBHashTable_get(e.key) = o
    BY <1>1, <1>6 DEF FindsStored
  <2> QED BY <1>2, <1>6, <2>1
<1> QED BY <1>2, <1>3, <1>5, <1>6 DEF Lost

(* What a change is in the map.                                            *)
LEMMA MapChange ==
    ASSUME TableInv, TableInv', NEW new, NEW ks, Changed(new, ks), Fresh(new, ks)
    PROVE  /\ Found' = {e.key : e \in new} \cup (Found \ ks)
           /\ \A k \in Found \ ks : Mapped'[k] = Mapped[k]
           /\ \A e \in new : Mapped'[e.key] = e.obj
           /\ Released' = Released \cup Map!OwnedOf(ks)
<1>1. FindsStored /\ FindsStored'
  <2>1. TableInv' => FindsStored'
    BY GetFinds, PTL
  <2> QED BY <2>1, GetFinds
<1>2. \A e : Stored(e)' <=> e \in new \/ (Stored(e) /\ e.key \notin ks)
  BY DEF Changed
<1>3. \A k \in Found' : Mapped'[k] = IBHashTable_get(k)'
  BY DEF Mapped
<1>4. \A e : Stored(e)' => e.key \in Found' /\ Mapped'[e.key] = e.obj
  <2>1. \A e : Stored(e)' => e.key \in Found' /\ IBHashTable_get(e.key)' = e.obj
    BY <1>1 DEF FindsStored
  <2> QED BY <1>3, <2>1
<1>5. \A k \in Found' : \E e \in Entry : Stored(e)' /\ e.key = k
  BY <1>1 DEF FindsStored
<1>6. \A e : Stored(e) => e.key \in Found
  BY <1>1 DEF FindsStored
<1>7. \A k \in Found : \E e \in Entry : Stored(e) /\ e.key = k /\ e.obj = Mapped[k]
  BY <1>1 DEF FindsStored, Mapped
<1>8. \A e \in new : e.key \in ks
  BY DEF Fresh
<1>9. Found' = {e.key : e \in new} \cup (Found \ ks)
  <2>1. ASSUME NEW k \in Found' PROVE k \in {e.key : e \in new} \cup (Found \ ks)
    <3>1. PICK e \in Entry : Stored(e)' /\ e.key = k
      BY <1>5
    <3> QED BY <1>2, <1>6, <3>1
  <2>2. ASSUME NEW e \in new PROVE e.key \in Found'
    BY <1>2, <1>4
  <2>3. ASSUME NEW k \in Found \ ks PROVE k \in Found'
    <3>1. PICK e \in Entry : Stored(e) /\ e.key = k
      BY <1>7
    <3> QED BY <1>2, <1>4, <3>1
  <2> QED BY <2>1, <2>2, <2>3
<1>10. ASSUME NEW k \in Found \ ks PROVE Mapped'[k] = Mapped[k]
  <2>1. PICK e \in Entry : Stored(e) /\ e.key = k /\ e.obj = Mapped[k]
    BY <1>7
  <2>2. Stored(e)'
    BY <1>2, <2>1
  <2> QED BY <1>4, <2>1, <2>2
<1>11. \A e \in new : Mapped'[e.key] = e.obj
  BY <1>2, <1>4
<1>12. Released' = Released \cup Map!OwnedOf(ks)
  <2>1. \A o \in Owned : deleted[o] \in 0..1
    BY DEF TableInv, Owners
  <2>2. \A o \in Owned : deleted'[o] = IF Lost(ks, o) THEN deleted[o] + 1 ELSE deleted[o]
    BY DEF Changed
  <2>3. \A o \in Owned : deleted'[o] > 0 <=> Lost(ks, o) \/ deleted[o] > 0
    <3> SUFFICES ASSUME NEW o \in Owned
                 PROVE  deleted'[o] > 0 <=> Lost(ks, o) \/ deleted[o] > 0
      OBVIOUS
    <3>1. CASE Lost(ks, o)
      BY <2>1, <2>2, <3>1
    <3>2. CASE ~Lost(ks, o)
      BY <2>2, <3>2
    <3> QED BY <3>1, <3>2
  <2>4. \A o : o \in Map!OwnedOf(ks) <=> o \in Owned /\ Lost(ks, o)
    BY OwnedOfLost
  <2> QED BY <2>3, <2>4 DEF Released
<1> QED BY <1>9, <1>10, <1>11, <1>12

LEMMA SetPuts ==
    ASSUME TableInv, TableInv', NEW key \in Keys, NEW obj \in Owned \cup Borrowed,
           IBHashTable_set(key, obj)
    PROVE  Map!Put(key, obj)
<1> DEFINE new == [key |-> key, obj |-> obj]
<1>1. new.key = key /\ new.obj = obj
  OBVIOUS
<1>2. Changed({new}, {key}) /\ Fresh({new}, {key})
  BY SetEffect
<1> HIDE DEF new
<1>3. /\ Found' = {e.key : e \in {new}} \cup (Found \ {key})
      /\ \A k \in Found \ {key} : Mapped'[k] = Mapped[k]
      /\ \A e \in {new} : Mapped'[e.key] = e.obj
      /\ Released' = Released \cup Map!OwnedOf({key})
  BY <1>2, MapChange
<1>4. Found' = Found \cup {key} /\ Mapped'[key] = obj
  BY <1>1, <1>3
<1>5. Mapped' = [x \in DOMAIN Mapped \cup {key} |-> IF x = key THEN obj ELSE Mapped[x]]
  <2>1. DOMAIN Mapped = Found
    BY DEF Mapped
  <2>2. Mapped' = [x \in Found' |-> Mapped'[x]]
    BY DEF Mapped
  <2>3. \A x \in Found \cup {key} : Mapped'[x] = IF x = key THEN obj ELSE Mapped[x]
    BY <1>3, <1>4
  <2> QED BY <1>4, <2>1, <2>2, <2>3
<1>6. obj \in Owned => deleted[obj] = 0 /\ \A d : Stored(d) => d.obj # obj
  BY <1>1, <1>2 DEF Fresh
<1>7. obj \notin Released
  BY <1>6 DEF Released
<1>8. obj \notin Map!OwnedOf(Keys)
  BY <1>6, OwnedOfLost DEF Lost
<1> QED BY <1>3, <1>5, <1>7, <1>8 DEF Map!Put, Mapped, Released

LEMMA DeleteRemoves ==
    ASSUME TableInv, TableInv', NEW key \in Keys, IBHashTable_delete(key)
    PROVE  Map!Remove(key)
<1>1. Changed({}, {key}) /\ Fresh({}, {key})
  BY DeleteEffect DEF Fresh
<1>2. /\ Found' = {e.key : e \in {}} \cup (Found \ {key})
      /\ \A k \in Found \ {key} : Mapped'[k] = Mapped[k]
      /\ Released' = Released \cup Map!OwnedOf({key})
  BY <1>1, MapChange
<1>3. DOMAIN Mapped = Found /\ Mapped' = [x \in Found' |-> Mapped'[x]]
  BY DEF Mapped
<1>4. Mapped' = [x \in DOMAIN Mapped \ {key} |-> Mapped[x]]
  BY <1>2, <1>3
<1> QED BY <1>2, <1>4 DEF Map!Remove, Map!Restrict, Mapped, Released

LEMMA DestroyRemovesAll ==
    ASSUME TableInv, TableInv', IBHashTable_destroy
    PROVE  Map!RemoveAll
<1>1. Changed({}, Keys) /\ Fresh({}, Keys)
  BY DestroyEffect DEF Fresh
<1>2. /\ Found' = {e.key : e \in {}} \cup (Found \ Keys)
      /\ Released' = Released \cup Map!OwnedOf(Keys)
  BY <1>1, MapChange
<1>3. Found' = {}
  BY <1>2 DEF Found
<1>4. Mapped' = <<>>
  BY <1>3 DEF Mapped
<1> QED BY <1>2, <1>4 DEF Map!RemoveAll, Mapped, Released

LEMMA IterationIsHidden ==
    ASSUME UNCHANGED <<bucket, deleted>>
    PROVE  UNCHANGED <<Mapped, Released>>
BY DEF Mapped, Released, Found, IBHashTable_get

LEMMA MapInit == TableInit => Map!Init
<1> SUFFICES ASSUME TableInit PROVE Map!Init
  OBVIOUS
<1>1. Found = {}
  <2>1. \A k \in Keys : bucket[Hash[k]] = <<>> /\ <<>> \in Seq(Entry)
    BY HashAssumption DEF TableInit
  <2>2. \A k \in Keys : Find(<<>>, k) = 0
    <3> DEFINE empty == <<>>
    <3>1. empty \in Seq(Entry) /\ Len(empty) = 0
      OBVIOUS
    <3> HIDE DEF empty
    <3>2. \A k \in Keys : Find(empty, k) \in 0..Len(empty)
      BY <3>1, FindFacts
    <3>3. \A k \in Keys : Find(empty, k) = 0
      BY <3>1, <3>2
    <3> QED BY <3>3 DEF empty
  <2> QED BY <2>1, <2>2 DEF Found
<1>2. Mapped = <<>>
  BY <1>1 DEF Mapped
<1>3. Released = {}
  BY DEF Released, TableInit
<1> QED BY <1>2, <1>3 DEF Map!Init, Mapped, Released

LEMMA MapStep ==
    TableInv /\ TableInv' /\ [TableNext]_tableVars => [Map!Next]_<<Mapped, Released>>
<1> SUFFICES ASSUME TableInv, TableInv', [TableNext]_tableVars
             PROVE  [Map!Next]_<<Mapped, Released>>
  OBVIOUS
<1>1. ASSUME NEW k \in Keys, NEW o \in Owned \cup Borrowed, IBHashTable_set(k, o)
      PROVE  Map!Next
  BY <1>1, SetPuts DEF Map!Next
<1>2. ASSUME NEW k \in Keys, IBHashTable_delete(k) PROVE Map!Next
  BY <1>2, DeleteRemoves DEF Map!Next
<1>3. CASE IBHashTable_destroy
  BY <1>3, DestroyRemovesAll DEF Map!Next
<1>4. CASE IBHashTable_iterator \/ IBHashTableIterator_moveNext \/ UNCHANGED tableVars
  BY <1>4, IterationIsHidden DEF IBHashTable_iterator, IBHashTableIterator_moveNext, tableVars
<1> QED BY <1>1, <1>2, <1>3, <1>4 DEF TableNext

(* hashtable.c is a map from keys to objects that releases the objects it  *)
(* owns when it loses them, whatever the hash makes collide.               *)
THEOREM MapTheorem == TableSpec => ImplementsMap
<1>1. TableInv /\ TableInv' /\ [TableNext]_tableVars
         => [Map!Next]_<<[k \in Found |-> IBHashTable_get(k)], {o \in Owned : deleted[o] > 0}>>
  BY MapStep DEF Mapped, Released
<1> QED BY <1>1, MapInit, TableInvariance, PTL DEF TableSpec, ImplementsMap, Map!Spec

-----------------------------------------------------------------------------
(* Functions defined by recursion on 0..N whose k-th step is g[k].         *)
Runs(f, S, x0, g, n) ==
    /\ f \in [0..n -> S] /\ f[0] = x0
    /\ \A k \in 1..n : f[k] = g[k][f[k - 1]]

LEMMA RecursionExists ==
    ASSUME NEW S, NEW x0 \in S, NEW N \in Nat, NEW g \in [1..N -> [S -> S]]
    PROVE  \E f : Runs(f, S, x0, g, N)
<1> DEFINE Bad == {n \in 0..N : ~\E f : Runs(f, S, x0, g, n)}
<1>1. SUFFICES ASSUME Bad # {} PROVE FALSE
  <2>1. N \in 0..N
    OBVIOUS
  <2> QED BY <1>1, <2>1
<1>2. PICK n \in Bad : \A m \in Bad : n <= m
  <2>1. Bad \in SUBSET Nat
    OBVIOUS
  <2> QED BY <1>1, <2>1, LeastNat
<1>3. CASE n = 0
  <2> DEFINE f == [k \in 0..0 |-> x0]
  <2>1. Runs(f, S, x0, g, 0)
    BY DEF Runs
  <2> QED BY <1>2, <1>3, <2>1
<1>4. CASE n # 0
  <2>1. n \in 1..N /\ n - 1 \in 0..N /\ n - 1 \in Nat /\ ~(n - 1 \in Bad)
    BY <1>2, <1>4
  <2>2. PICK f : Runs(f, S, x0, g, n - 1)
    BY <2>1
  <2> DEFINE v == g[n][f[n - 1]]
             h == [k \in 0..n |-> IF k = n THEN v ELSE f[k]]
  <2>3. v \in S
    <3>1. n - 1 \in 0..(n - 1) /\ g[n] \in [S -> S]
      BY <2>1
    <3>2. f[n - 1] \in S
      BY <2>2, <3>1 DEF Runs
    <3> QED BY <3>1, <3>2
  <2>4. \A k \in 0..n : k = n \/ k \in 0..(n - 1)
    BY <2>1
  <2>5. \A k \in 0..n : h[k] = IF k = n THEN v ELSE f[k]
    OBVIOUS
  <2>6. h \in [0..n -> S]
    <3>1. \A k \in 0..(n - 1) : f[k] \in S
      BY <2>2 DEF Runs
    <3>2. \A k \in 0..n : (IF k = n THEN v ELSE f[k]) \in S
      BY <2>3, <2>4, <3>1
    <3> QED BY <3>2
  <2> HIDE DEF h
  <2>7. h[0] = x0
    <3>1. 0 \in 0..n /\ 0 # n
      BY <2>1
    <3> QED BY <2>2, <2>5, <3>1 DEF Runs
  <2>8. ASSUME NEW k \in 1..n PROVE h[k] = g[k][h[k - 1]]
    <3>1. k \in 0..n /\ k - 1 \in 0..n /\ k - 1 # n
      BY <2>1
    <3>2. h[k - 1] = f[k - 1]
      BY <2>5, <3>1
    <3>3. CASE k = n
      BY <2>5, <3>1, <3>2, <3>3
    <3>4. CASE k # n
      <4>1. k \in 1..(n - 1)
        BY <2>1, <3>4
      <4>2. f[k] = g[k][f[k - 1]]
        BY <2>2, <4>1 DEF Runs
      <4> QED BY <2>5, <3>1, <3>2, <3>4, <4>2
    <3> QED BY <3>3, <3>4
  <2>9. Runs(h, S, x0, g, n)
    BY <2>6, <2>7, <2>8 DEF Runs
  <2> QED BY <1>2, <2>9
<1> QED BY <1>3, <1>4

(* Kept keeps the order: entry k of the result is entry at[k] of the list. *)
KeptUnfolds(list, keep, n) ==
    KeptUpTo(list, keep)[n] =
        IF n = 0 THEN <<>>
        ELSE IF list[n] \in keep THEN Append(KeptUpTo(list, keep)[n - 1], list[n])
        ELSE KeptUpTo(list, keep)[n - 1]

LEMMA KeptRecursion ==
    ASSUME NEW S, NEW list \in Seq(S), NEW keep
    PROVE  \A n \in 0..Len(list) : KeptUnfolds(list, keep, n)
<1> DEFINE N == Len(list)
           g == [n \in 1..N |-> [v \in Seq(S) |-> IF list[n] \in keep THEN Append(v, list[n]) ELSE v]]
           Def(f) == [n \in 0..N |->
                        IF n = 0 THEN <<>>
                        ELSE IF list[n] \in keep THEN Append(f[n - 1], list[n])
                        ELSE f[n - 1]]
           K == KeptUpTo(list, keep)
<1>1. N \in Nat /\ <<>> \in Seq(S)
  OBVIOUS
<1>2. \A n \in 1..N : list[n] \in S
  OBVIOUS
<1>3. g \in [1..N -> [Seq(S) -> Seq(S)]]
  <2> SUFFICES ASSUME NEW n \in 1..N, NEW v \in Seq(S)
               PROVE  (IF list[n] \in keep THEN Append(v, list[n]) ELSE v) \in Seq(S)
    OBVIOUS
  <2>1. Append(v, list[n]) \in Seq(S)
    BY <1>2
  <2> QED BY <2>1
<1>4. \A n \in 1..N, v \in Seq(S) : g[n][v] = IF list[n] \in keep THEN Append(v, list[n]) ELSE v
  OBVIOUS
<1> HIDE DEF N, g
<1>5. PICK f : Runs(f, Seq(S), <<>>, g, N)
  <2> DEFINE e == <<>>
  <2>1. e \in Seq(S)
    BY <1>1
  <2> HIDE DEF e
  <2>2. \E f : Runs(f, Seq(S), e, g, N)
    BY <1>1, <1>3, <2>1, RecursionExists
  <2> QED BY <2>2 DEF e
<1>6. f = Def(f)
  <2>1. f = [n \in 0..N |-> f[n]]
    BY <1>5 DEF Runs
  <2>2. ASSUME NEW n \in 0..N
        PROVE  f[n] = IF n = 0 THEN <<>>
                      ELSE IF list[n] \in keep THEN Append(f[n - 1], list[n])
                      ELSE f[n - 1]
    <3>1. CASE n = 0
      BY <1>5, <3>1 DEF Runs
    <3>2. CASE n # 0
      <4>1. n \in 1..N /\ n - 1 \in 0..N
        BY <1>1, <3>2
      <4>2. f[n] = g[n][f[n - 1]] /\ f[n - 1] \in Seq(S)
        BY <1>5, <4>1 DEF Runs
      <4> QED BY <1>4, <3>2, <4>1, <4>2
    <3> QED BY <3>1, <3>2
  <2> QED BY <2>1, <2>2
<1>7. K = CHOOSE f_1 : f_1 = Def(f_1)
  BY DEF KeptUpTo, N
<1>8. K = Def(K)
  BY <1>6, <1>7
<1> QED BY <1>8 DEF KeptUnfolds, N

Follows(out, at, list, n) ==
    /\ at \in [1..Len(out) -> 1..n]
    /\ \A k \in 1..Len(out) : out[k] = list[at[k]]
    /\ \A j, k \in 1..Len(out) : j < k => at[j] < at[k]

KeptRight(S, list, keep, n) ==
    LET out == KeptUpTo(list, keep)[n]
    IN  /\ out \in Seq(S)
        /\ \A k \in 1..Len(out) : out[k] \in keep
        /\ \E at : Follows(out, at, list, n)

LEMMA KeptFacts ==
    ASSUME NEW S, NEW list \in Seq(S), NEW keep, NEW n \in 0..Len(list)
    PROVE  KeptRight(S, list, keep, n)
<1> DEFINE K == KeptUpTo(list, keep)
           Bad == {m \in 0..Len(list) : ~KeptRight(S, list, keep, m)}
<1>1. \A m \in 0..Len(list) : KeptUnfolds(list, keep, m)
  BY KeptRecursion
<1>2. SUFFICES ASSUME Bad # {} PROVE FALSE
  OBVIOUS
<1>3. PICK m \in Bad : \A j \in Bad : m <= j
  <2>1. Bad \in SUBSET Nat
    OBVIOUS
  <2> QED BY <1>2, <2>1, LeastNat
<1>4. CASE m = 0
  <2>1. K[0] = <<>>
    BY <1>1, <1>3, <1>4 DEF KeptUnfolds
  <2>2. <<>> \in Seq(S) /\ Len(<<>>) = 0 /\ 1..0 = {}
    OBVIOUS
  <2>3. Follows(<<>>, [k \in {} |-> 0], list, 0)
    BY <2>2 DEF Follows
  <2>4. KeptRight(S, list, keep, 0)
    BY <2>1, <2>2, <2>3 DEF KeptRight
  <2> QED BY <1>3, <1>4, <2>4
<1>5. CASE m # 0
  <2>1. m \in 1..Len(list) /\ m - 1 \in 0..Len(list) /\ ~(m - 1 \in Bad) /\ m \in Nat
    BY <1>3, <1>5
  <2>2. KeptRight(S, list, keep, m - 1)
    BY <2>1
  <2> DEFINE old == K[m - 1]
  <2>3. old \in Seq(S) /\ \A k \in 1..Len(old) : old[k] \in keep
    BY <2>2 DEF KeptRight
  <2>4. PICK at : Follows(old, at, list, m - 1)
    BY <2>2 DEF KeptRight
  <2>5. Len(old) \in Nat /\ list[m] \in S
    BY <2>1, <2>3
  <2>6. K[m] = IF list[m] \in keep THEN Append(old, list[m]) ELSE old
    BY <1>1, <1>5, <2>1 DEF KeptUnfolds
  <2> HIDE DEF old
  <2>7. CASE list[m] \in keep
    <3> DEFINE out == Append(old, list[m])
               l == Len(old)
               to == [k \in 1..(l + 1) |-> IF k = l + 1 THEN m ELSE at[k]]
    <3>1. /\ out \in Seq(S) /\ Len(out) = l + 1 /\ out[l + 1] = list[m]
          /\ \A k \in 1..l : out[k] = old[k]
      BY <2>3, <2>5, AppendFacts
    <3>2. l \in Nat
      BY <2>5
    <3>3. /\ at \in [1..l -> 1..(m - 1)]
          /\ \A k \in 1..l : old[k] = list[at[k]]
          /\ \A j, k \in 1..l : j < k => at[j] < at[k]
      BY <2>4 DEF Follows
    <3> HIDE DEF out, l
    <3>4. \A k \in 1..(l + 1) : k = l + 1 \/ k \in 1..l
      BY <3>2
    <3>5. l + 1 \in 1..(l + 1) /\ \A k \in 1..l : k \in 1..(l + 1) /\ k # l + 1 /\ k < l + 1
      BY <3>2
    <3>6. /\ to[l + 1] = m /\ \A k \in 1..l : to[k] = at[k]
          /\ \A k \in 1..l : at[k] \in 1..m /\ at[k] < m
      BY <2>1, <3>3, <3>5
    <3>7. to \in [1..(l + 1) -> 1..m]
      BY <2>1, <3>4, <3>6
    <3> HIDE DEF to
    <3>8. \A k \in 1..(l + 1) : out[k] = list[to[k]] /\ out[k] \in keep
      BY <2>3, <2>7, <3>1, <3>3, <3>4, <3>6 DEF l
    <3>9. \A j, k \in 1..(l + 1) : j < k => j \in 1..l /\ to[j] < to[k]
      <4> SUFFICES ASSUME NEW j \in 1..(l + 1), NEW k \in 1..(l + 1), j < k
                   PROVE  j \in 1..l /\ to[j] < to[k]
        OBVIOUS
      <4>1. j \in 1..l
        BY <3>2
      <4>2. CASE k = l + 1
        BY <3>6, <4>1, <4>2
      <4>3. CASE k \in 1..l
        BY <3>3, <3>6, <4>1, <4>3
      <4> QED BY <3>4, <4>1, <4>2, <4>3
    <3>10. Follows(out, to, list, m)
      BY <3>1, <3>7, <3>8, <3>9 DEF Follows
    <3>11. K[m] = out
      BY <2>6, <2>7 DEF out
    <3>12. KeptRight(S, list, keep, m)
      BY <3>1, <3>8, <3>10, <3>11 DEF KeptRight
    <3> QED BY <1>3, <3>12
  <2>8. CASE list[m] \notin keep
    <3>1. Follows(old, at, list, m)
      <4>1. at \in [1..Len(old) -> 1..(m - 1)]
        BY <2>4 DEF Follows
      <4>2. \A x \in 1..(m - 1) : x \in 1..m
        BY <2>1
      <4>3. at \in [1..Len(old) -> 1..m]
        BY <4>1, <4>2
      <4> QED BY <2>4, <4>3 DEF Follows
    <3>2. K[m] = old
      BY <2>6, <2>8
    <3>3. KeptRight(S, list, keep, m)
      BY <2>3, <3>1, <3>2 DEF KeptRight
    <3> QED BY <1>3, <3>3
  <2> QED BY <2>7, <2>8
<1> QED BY <1>4, <1>5

-----------------------------------------------------------------------------
(* The loop of IBList_removeAll.                                           *)
Obj == Mine \cup Others

LoopStates ==
    {s \in [i : Nat, n : Nat, a : Seq(Obj), calls : Seq(Obj)] : s.n <= Len(s.a)}

Start == [i |-> 0, n |-> length, a |-> array, calls |-> <<>>]

LEMMA RemovalFacts ==
    ASSUME NEW a \in Seq(Obj), NEW n \in Nat, NEW i \in Nat, n <= Len(a)
    PROVE  /\ removeAt(a, n, i) \in Seq(Obj) /\ Len(removeAt(a, n, i)) = Len(a)
           /\ \A k \in 1..Len(a) :
                 removeAt(a, n, i)[k] = IF k > i /\ k < n THEN a[k + 1] ELSE a[k]
<1> DEFINE N == Len(a)
<1>1. N \in Nat /\ DOMAIN a = 1..N /\ n <= N
  OBVIOUS
<1>2. \A k \in 1..N : a[k] \in Obj
  OBVIOUS
<1> HIDE DEF N
<1>3. \A k \in 1..N : (IF k > i /\ k < n THEN a[k + 1] ELSE a[k]) \in Obj
  <2> SUFFICES ASSUME NEW k \in 1..N, k < n PROVE a[k + 1] \in Obj
    BY <1>2
  <2>1. k + 1 \in 1..N
    BY <1>1
  <2> QED BY <1>2, <2>1
<1>4. removeAt(a, n, i) = [k \in 1..N |-> IF k > i /\ k < n THEN a[k + 1] ELSE a[k]]
  BY <1>1 DEF removeAt
<1> QED BY <1>1, <1>3, <1>4 DEF N

LEMMA ExaminedFacts ==
    ASSUME NEW s \in LoopStates, NEW matches
    PROVE  Examined(s, matches) \in LoopStates
<1> USE DEF LoopStates
<1>1. CASE s.i >= s.n
  BY <1>1 DEF Examined
<1>2. CASE ~(s.i >= s.n)
  <2>1. /\ s.i \in Nat /\ s.n \in Nat /\ s.n <= Len(s.a) /\ s.i + 1 \in 1..Len(s.a)
        /\ s.a \in Seq(Obj) /\ s.calls \in Seq(Obj) /\ s.n - 1 \in Nat
    BY <1>2
  <2>2. s.a[s.i + 1] \in Obj
    BY <2>1
  <2>3. CASE s.a[s.i + 1] \in matches
    <3>1. /\ removeAt(s.a, s.n, s.i) \in Seq(Obj)
          /\ Len(removeAt(s.a, s.n, s.i)) = Len(s.a)
      BY <2>1, RemovalFacts
    <3>2. Append(s.calls, s.a[s.i + 1]) \in Seq(Obj)
      BY <2>1, <2>2
    <3>3. s.n - 1 <= Len(s.a)
      BY <2>1
    <3> QED BY <1>2, <2>1, <2>3, <3>1, <3>2, <3>3 DEF Examined, AfterRemoval
  <2>4. CASE s.a[s.i + 1] \notin matches
    <3>1. Examined(s, matches) = [s EXCEPT !.i = s.i + 1]
      BY <1>2, <2>4 DEF Examined
    <3> QED BY <2>1, <3>1
  <2> QED BY <2>3, <2>4
<1> QED BY <1>1, <1>2

LEMMA LoopRecursion ==
    ASSUME length \in Nat, array \in Seq(Obj), length <= Len(array), NEW matches
    PROVE  /\ Loop(matches)[0] = Start
           /\ \A k \in 1..length : Loop(matches)[k] = Examined(Loop(matches)[k - 1], matches)
<1> DEFINE N == length
           g == [k \in 1..N |-> [s \in LoopStates |-> Examined(s, matches)]]
           Def(f) == [k \in 0..N |-> IF k = 0 THEN Start ELSE Examined(f[k - 1], matches)]
           L == Loop(matches)
<1>1. Start \in LoopStates
  <2>1. <<>> \in Seq(Obj)
    OBVIOUS
  <2> QED BY <2>1 DEF Start, LoopStates
<1>2. g \in [1..N -> [LoopStates -> LoopStates]]
  BY ExaminedFacts
<1>3. \A k \in 1..N, s \in LoopStates : g[k][s] = Examined(s, matches)
  OBVIOUS
<1>4. N \in Nat
  OBVIOUS
<1> HIDE DEF N, g
<1>5. PICK f : Runs(f, LoopStates, Start, g, N)
  BY <1>1, <1>2, <1>4, RecursionExists
<1>6. f = Def(f)
  <2>1. f = [k \in 0..N |-> f[k]]
    BY <1>5 DEF Runs
  <2>2. ASSUME NEW k \in 0..N
        PROVE  f[k] = IF k = 0 THEN Start ELSE Examined(f[k - 1], matches)
    <3>1. CASE k = 0
      BY <1>5, <3>1 DEF Runs
    <3>2. CASE k # 0
      <4>1. k \in 1..N /\ k - 1 \in 0..N
        BY <1>4, <3>2
      <4>2. f[k] = g[k][f[k - 1]] /\ f[k - 1] \in LoopStates
        BY <1>5, <4>1 DEF Runs
      <4> QED BY <1>3, <3>2, <4>1, <4>2
    <3> QED BY <3>1, <3>2
  <2> QED BY <2>1, <2>2
<1>7. L = CHOOSE h : h = Def(h)
  BY DEF Loop, Start, N
<1>8. L = Def(L)
  BY <1>6, <1>7
<1>9. 0 \in 0..N /\ \A k \in 1..N : k \in 0..N /\ k # 0
  BY <1>4
<1>10. L[0] = Start /\ \A k \in 1..N : L[k] = Examined(L[k - 1], matches)
  BY <1>8, <1>9
<1> QED BY <1>10 DEF N

(* After k entries the array starts with those of them that are kept, then *)
(* come the entries that were not looked at yet.                           *)
LoopRight(matches, k) ==
    LET s == Loop(matches)[k]
        kept == KeptUpTo(expected, Obj \ matches)[k]
    IN  /\ s \in LoopStates /\ Len(s.a) = Len(array)
        /\ s.i = Len(kept) /\ s.n = s.i + (length - k)
        /\ \A j \in 1..s.i : s.a[j] = kept[j]
        /\ \A j \in 1..(length - k) : s.a[s.i + j] = expected[k + j]
        /\ s.calls = KeptUpTo(expected, Mine \cap matches)[k]

ArrayRight ==
    /\ length \in Nat /\ array \in Seq(Obj) /\ length <= Len(array)
    /\ expected \in Seq(Obj) /\ Len(expected) = length
    /\ \A k \in 1..length : array[k] = expected[k]

LEMMA LoopStep ==
    ASSUME ArrayRight, NEW matches, NEW k \in 0..length, k # length,
           LoopRight(matches, k)
    PROVE  LoopRight(matches, k + 1)
<1> DEFINE s == Loop(matches)[k]
           t == Loop(matches)[k + 1]
           P == KeptUpTo(expected, Obj \ matches)
           Q == KeptUpTo(expected, Mine \cap matches)
           x == expected[k + 1]
<1>1. /\ length \in Nat /\ k \in Nat /\ k + 1 \in 1..length /\ k + 1 \in 0..length
      /\ (k + 1) - 1 = k /\ k + 1 # 0 /\ length - k >= 1
      /\ 1 \in 1..(length - k) /\ length - k \in Nat
  BY DEF ArrayRight
<1>2. t = Examined(s, matches)
  BY <1>1, LoopRecursion DEF ArrayRight
<1>3. /\ s \in LoopStates /\ Len(s.a) = Len(array)
      /\ s.i = Len(P[k]) /\ s.n = s.i + (length - k)
      /\ \A j \in 1..s.i : s.a[j] = P[k][j]
      /\ \A j \in 1..(length - k) : s.a[s.i + j] = expected[k + j]
      /\ s.calls = Q[k]
  BY DEF LoopRight
<1>4. x \in Obj
  BY <1>1 DEF ArrayRight
<1>5. /\ P[k + 1] = IF x \in Obj \ matches THEN Append(P[k], x) ELSE P[k]
      /\ Q[k + 1] = IF x \in Mine \cap matches THEN Append(Q[k], x) ELSE Q[k]
  <2>1. /\ KeptUnfolds(expected, Obj \ matches, k + 1)
        /\ KeptUnfolds(expected, Mine \cap matches, k + 1)
    BY <1>1, KeptRecursion DEF ArrayRight
  <2> QED BY <1>1, <2>1 DEF KeptUnfolds
<1>6. P[k] \in Seq(Obj)
  BY KeptFacts DEF KeptRight, ArrayRight
<1> HIDE DEF s, t, P, Q, x
<1>7. /\ s.i \in Nat /\ s.n \in Nat /\ s.a \in Seq(Obj) /\ s.n <= Len(s.a)
      /\ s.calls \in Seq(Obj)
  BY <1>3 DEF LoopStates
<1>8. s.a[s.i + 1] = x /\ ~(s.i >= s.n)
  BY <1>1, <1>3, <1>7 DEF x
<1>9. t \in LoopStates
  BY <1>2, <1>3, ExaminedFacts
<1>10. CASE x \in matches
  <2>1. t = [i |-> s.i, n |-> s.n - 1, a |-> removeAt(s.a, s.n, s.i),
             calls |-> IF x \in Mine THEN Append(s.calls, x) ELSE s.calls]
    BY <1>2, <1>8, <1>10 DEF Examined, AfterRemoval
  <2>2. P[k + 1] = P[k]
    BY <1>5, <1>10
  <2>3. t.calls = Q[k + 1]
    BY <1>3, <1>5, <1>10, <2>1
  <2>4. /\ Len(t.a) = Len(s.a)
        /\ \A j \in 1..Len(s.a) : t.a[j] = IF j > s.i /\ j < s.n THEN s.a[j + 1] ELSE s.a[j]
    <3> DEFINE b == removeAt(s.a, s.n, s.i)
    <3>1. t.a = b
      BY <2>1
    <3>2. /\ Len(b) = Len(s.a)
          /\ \A j \in 1..Len(s.a) : b[j] = IF j > s.i /\ j < s.n THEN s.a[j + 1] ELSE s.a[j]
      BY <1>7, RemovalFacts
    <3> HIDE DEF b
    <3> QED BY <3>1, <3>2
  <2>5. t.i = s.i /\ t.n = s.n - 1
    BY <2>1
  <2>6. t.i = Len(P[k + 1]) /\ t.n = t.i + (length - (k + 1))
    BY <1>1, <1>3, <1>7, <2>2, <2>5
  <2>7. ASSUME NEW j \in 1..t.i PROVE t.a[j] = P[k + 1][j]
    <3>1. j \in 1..s.i /\ j \in 1..Len(s.a) /\ ~(j > s.i)
      BY <1>7, <1>8, <2>5
    <3> QED BY <1>3, <2>2, <2>4, <3>1
  <2>8. ASSUME NEW j \in 1..(length - (k + 1)) PROVE t.a[t.i + j] = expected[(k + 1) + j]
    <3> DEFINE i == s.i
               l == length - k
    <3>1. j \in Nat /\ j >= 1 /\ j + 1 <= l /\ i \in Nat /\ l \in Nat /\ s.n = i + l
      BY <1>1, <1>3, <1>7
    <3>2. Len(s.a) \in Nat /\ i + l <= Len(s.a)
      BY <1>7, <3>1
    <3> HIDE DEF i, l
    <3>3. /\ i + j \in 1..Len(s.a) /\ i + j > i /\ i + j < s.n
          /\ j + 1 \in 1..l /\ (i + j) + 1 = i + (j + 1)
      BY <3>1, <3>2
    <3>4. t.a[i + j] = s.a[(i + j) + 1]
      BY <2>4, <3>3 DEF i
    <3>5. s.a[i + (j + 1)] = expected[k + (j + 1)]
      BY <1>3, <3>3 DEF i, l
    <3>6. k + (j + 1) = (k + 1) + j
      BY <1>1, <3>1
    <3> QED BY <2>5, <3>3, <3>4, <3>5, <3>6 DEF i
  <2>9. Len(t.a) = Len(array)
    BY <1>3, <2>4
  <2> QED BY <1>9, <2>3, <2>6, <2>7, <2>8, <2>9 DEF LoopRight, t, P, Q
<1>11. CASE x \notin matches
  <2>1. t = [s EXCEPT !.i = s.i + 1]
    BY <1>2, <1>8, <1>11 DEF Examined
  <2>2. t.i = s.i + 1 /\ t.n = s.n /\ t.a = s.a /\ t.calls = s.calls
    BY <1>3, <2>1 DEF LoopStates
  <2>3. P[k + 1] = Append(P[k], x) /\ Q[k + 1] = Q[k]
    BY <1>4, <1>5, <1>11
  <2>4. /\ Len(P[k + 1]) = s.i + 1 /\ P[k + 1][s.i + 1] = x
        /\ \A j \in 1..s.i : P[k + 1][j] = P[k][j]
    <3>1. /\ Len(Append(P[k], x)) = Len(P[k]) + 1 /\ Append(P[k], x)[Len(P[k]) + 1] = x
          /\ \A j \in 1..Len(P[k]) : Append(P[k], x)[j] = P[k][j]
      BY <1>4, <1>6, AppendFacts
    <3> QED BY <1>3, <2>3, <3>1
  <2>5. t.i = Len(P[k + 1]) /\ t.n = t.i + (length - (k + 1))
    BY <1>1, <1>3, <1>7, <2>2, <2>4
  <2>6. ASSUME NEW j \in 1..t.i PROVE t.a[j] = P[k + 1][j]
    <3>1. j = s.i + 1 \/ j \in 1..s.i
      BY <1>7, <2>2
    <3> QED BY <1>3, <1>8, <2>2, <2>4, <3>1
  <2>7. ASSUME NEW j \in 1..(length - (k + 1)) PROVE t.a[t.i + j] = expected[(k + 1) + j]
    <3>1. /\ j + 1 \in 1..(length - k) /\ t.i + j = s.i + (j + 1)
          /\ k + (j + 1) = (k + 1) + j
      BY <1>1, <1>7, <2>2
    <3>2. s.a[s.i + (j + 1)] = expected[k + (j + 1)]
      BY <1>3, <3>1
    <3> QED BY <2>2, <3>1, <3>2
  <2>8. Len(t.a) = Len(array) /\ t.calls = Q[k + 1]
    BY <1>3, <2>2, <2>3
  <2> QED BY <1>9, <2>5, <2>6, <2>7, <2>8 DEF LoopRight, t, P, Q
<1> QED BY <1>10, <1>11

LEMMA LoopEnds ==
    ASSUME ArrayRight, NEW matches
    PROVE  LoopRight(matches, length)
<1> DEFINE Bad == {k \in 0..length : ~LoopRight(matches, k)}
<1>1. length \in Nat /\ length \in 0..length
  BY DEF ArrayRight
<1>2. LoopRight(matches, 0)
  <2>1. Loop(matches)[0] = Start
    BY LoopRecursion DEF ArrayRight
  <2>2. /\ KeptUpTo(expected, Obj \ matches)[0] = <<>>
        /\ KeptUpTo(expected, Mine \cap matches)[0] = <<>>
    <3>1. 0 \in 0..Len(expected)
      BY DEF ArrayRight
    <3>2. KeptUnfolds(expected, Obj \ matches, 0) /\ KeptUnfolds(expected, Mine \cap matches, 0)
      BY <3>1, KeptRecursion DEF ArrayRight
    <3> QED BY <3>2 DEF KeptUnfolds
  <2>3. <<>> \in Seq(Obj) /\ Len(<<>>) = 0 /\ 1..0 = {}
    OBVIOUS
  <2>4. Start \in LoopStates
    BY <2>3 DEF Start, LoopStates, ArrayRight
  <2>5. \A j \in 1..length : Start.a[Start.i + j] = expected[0 + j]
    BY DEF Start, ArrayRight
  <2>6. Start.i = 0 /\ Start.n = 0 + (length - 0) /\ Start.a = array /\ Start.calls = <<>> /\ length - 0 = length
    BY <1>1 DEF Start
  <2> HIDE DEF Start
  <2> QED BY <2>1, <2>2, <2>3, <2>4, <2>5, <2>6 DEF LoopRight
<1>3. SUFFICES ASSUME Bad # {} PROVE FALSE
  BY <1>1
<1>4. PICK k \in Bad : \A j \in Bad : k <= j
  <2>1. Bad \in SUBSET Nat
    OBVIOUS
  <2> QED BY <1>3, <2>1, LeastNat
<1>5. /\ k # 0 /\ k - 1 \in 0..length /\ k - 1 # length /\ (k - 1) + 1 = k
      /\ ~(k - 1 \in Bad)
  BY <1>1, <1>2, <1>4
<1>6. LoopRight(matches, k - 1)
  BY <1>5
<1>7. LoopRight(matches, (k - 1) + 1)
  BY <1>5, <1>6, LoopStep
<1> QED BY <1>4, <1>5, <1>7

-----------------------------------------------------------------------------
(* The list.  An object with a deleter is in it once, and no longer when   *)
(* its deleter was called.                                                 *)
OnceMine(list) ==
    \A i, j \in 1..Len(list) : list[i] \in Mine /\ list[i] = list[j] => i = j

DroppedRight ==
    /\ dropped \in Seq(Mine)
    /\ \A i, j \in 1..Len(dropped) : dropped[i] = dropped[j] => i = j
    /\ \A x : In(x, dropped) => ~In(x, expected)

ListInv ==
    /\ ArrayRight /\ OnceMine(expected) /\ DroppedRight
    /\ listCapa \in Nat \ {0} /\ Len(array) <= listCapa

LEMMA ListInvOK == ListInv => ListCorrect
<1> SUFFICES ASSUME ListInv PROVE ListCorrect
  OBVIOUS
<1>1. /\ length \in Nat /\ array \in Seq(Obj) /\ length <= Len(array)
      /\ expected \in Seq(Obj) /\ Len(expected) = length
      /\ \A k \in 1..length : array[k] = expected[k]
  BY DEF ListInv, ArrayRight
<1>2. SubSeq(array, 1, length) = expected
  <2> DEFINE s == SubSeq(array, 1, length)
  <2>1. s \in Seq(Obj) /\ Len(s) = length /\ \A k \in 1..length : s[k] = array[k]
    BY <1>1
  <2> HIDE DEF s
  <2>2. s = expected
    BY <1>1, <2>1, SeqEqual
  <2> QED BY <2>2 DEF s
<1>3. dropped \in Seq(Mine) /\ DOMAIN dropped = 1..Len(dropped)
  BY DEF ListInv, DroppedRight
<1>4. \A i \in DOMAIN dropped : ~Contains(expected, dropped[i])
  <2> SUFFICES ASSUME NEW i \in DOMAIN dropped PROVE ~Contains(expected, dropped[i])
    OBVIOUS
  <2>1. In(dropped[i], dropped)
    BY DEF In
  <2>2. ~In(dropped[i], expected)
    BY <2>1 DEF ListInv, DroppedRight
  <2>3. DOMAIN expected = 1..Len(expected)
    BY <1>1
  <2> QED BY <2>2, <2>3 DEF In, Contains
<1> QED BY <1>1, <1>2, <1>3, <1>4 DEF ListCorrect, ListInv, DroppedRight

LEMMA ListInitOK == ListInit => ListInv
<1> SUFFICES ASSUME ListInit PROVE ListInv
  OBVIOUS
<1>1. /\ <<>> \in Seq(Obj) /\ <<>> \in Seq(Mine) /\ Len(<<>>) = 0 /\ 1..0 = {}
  OBVIOUS
<1>2. \A x : ~In(x, <<>>)
  BY DEF In
<1>3. array = <<>> /\ length = 0 /\ listCapa = ListCapa /\ expected = <<>> /\ dropped = <<>>
  BY DEF ListInit
<1>4. ArrayRight
  BY <1>1, <1>3 DEF ArrayRight
<1>5. OnceMine(expected)
  BY <1>1, <1>3 DEF OnceMine
<1>6. DroppedRight
  BY <1>1, <1>2, <1>3 DEF DroppedRight
<1>7. listCapa \in Nat \ {0} /\ Len(array) <= listCapa
  BY <1>1, <1>3, ListAssumption
<1> QED BY <1>4, <1>5, <1>6, <1>7 DEF ListInv

LEMMA FollowsKeeps ==
    ASSUME NEW list \in Seq(Obj), OnceMine(list), NEW out \in Seq(Obj), NEW at,
           Follows(out, at, list, Len(list))
    PROVE  OnceMine(out) /\ \A x : In(x, out) => In(x, list)
<1>1. DOMAIN list = 1..Len(list) /\ DOMAIN out = 1..Len(out) /\ Len(list) \in Nat /\ Len(out) \in Nat
  OBVIOUS
<1>2. /\ \A k \in 1..Len(out) : at[k] \in 1..Len(list) /\ out[k] = list[at[k]]
      /\ \A j, k \in 1..Len(out) : j < k => at[j] < at[k]
  BY DEF Follows
<1>3. \A x : In(x, out) => In(x, list)
  BY <1>1, <1>2 DEF In
<1>4. ASSUME NEW i \in 1..Len(out), NEW j \in 1..Len(out), out[i] \in Mine, out[i] = out[j]
      PROVE  i = j
  <2>1. at[i] = at[j]
    BY <1>2, <1>4 DEF OnceMine
  <2>2. at[i] \in 1..Len(list) /\ at[j] \in 1..Len(list)
    BY <1>2
  <2>3. ~(at[i] < at[j]) /\ ~(at[j] < at[i])
    BY <1>1, <2>1, <2>2
  <2>4. ~(i < j) /\ ~(j < i)
    BY <1>2, <2>3
  <2> QED BY <1>1, <2>4
<1> QED BY <1>3, <1>4 DEF OnceMine

LEMMA MoreDropped ==
    ASSUME ListInv, NEW out \in Seq(Mine), OnceMine(out),
           \A x : In(x, out) => In(x, expected),
           \A x : In(x, expected') => In(x, expected) /\ ~In(x, out),
           dropped' = dropped \o out
    PROVE  DroppedRight'
<1> DEFINE d == Len(dropped)
           o == Len(out)
           all == dropped \o out
<1>1. /\ dropped \in Seq(Mine) /\ d \in Nat /\ o \in Nat
      /\ \A i, j \in 1..d : dropped[i] = dropped[j] => i = j
      /\ \A x : In(x, dropped) => ~In(x, expected)
  BY DEF ListInv, DroppedRight
<1>2. /\ all \in Seq(Mine) /\ Len(all) = d + o
      /\ \A x : In(x, all) <=> In(x, dropped) \/ In(x, out)
  BY <1>1, ConcatFacts
<1>3. \A i \in 1..(d + o) : all[i] = IF i <= d THEN dropped[i] ELSE out[i - d]
  BY <1>1
<1>4. DOMAIN out = 1..o /\ DOMAIN dropped = 1..d /\ \A i \in 1..o : out[i] \in Mine
  BY <1>1
<1> HIDE DEF all, d, o
<1>5. \A x : ~(In(x, dropped) /\ In(x, out))
  BY <1>1
<1>6. ASSUME NEW i \in 1..(d + o), NEW j \in 1..(d + o), all[i] = all[j]
      PROVE  i = j
  <2>1. /\ i <= d => i \in 1..d /\ all[i] = dropped[i] /\ In(all[i], dropped)
        /\ j <= d => j \in 1..d /\ all[j] = dropped[j] /\ In(all[j], dropped)
    <3>1. (i <= d => i \in 1..d) /\ (j <= d => j \in 1..d)
      BY <1>1
    <3> QED BY <1>3, <1>4, <3>1 DEF In
  <2>2. /\ ~(i <= d) => i - d \in 1..o /\ all[i] = out[i - d] /\ In(all[i], out)
        /\ ~(j <= d) => j - d \in 1..o /\ all[j] = out[j - d] /\ In(all[j], out)
    <3>1. (~(i <= d) => i - d \in 1..o) /\ (~(j <= d) => j - d \in 1..o)
      BY <1>1
    <3> QED BY <1>3, <1>4, <3>1 DEF In
  <2>3. CASE i <= d /\ j <= d
    BY <1>1, <1>6, <2>1, <2>3
  <2>4. CASE ~(i <= d) /\ ~(j <= d)
    <3>1. i - d = j - d
      BY <1>4, <1>6, <2>2, <2>4 DEF OnceMine, o
    <3> QED BY <1>1, <3>1
  <2>5. CASE (i <= d) # (j <= d)
    BY <1>5, <1>6, <2>1, <2>2, <2>5
  <2> QED BY <2>3, <2>4, <2>5
<1>7. \A x : In(x, all) => ~In(x, expected')
  BY <1>1, <1>2
<1>8. dropped' = all
  BY DEF all
<1>9. \A x : In(x, expected)' <=> In(x, expected')
  BY DEF In
<1>10. \A x : In(x, dropped)' <=> In(x, all)
  BY <1>8 DEF In
<1>11. \A i, j \in 1..Len(dropped') : dropped'[i] = dropped'[j] => i = j
  BY <1>2, <1>6, <1>8
<1>12. dropped' \in Seq(Mine)
  BY <1>2, <1>8
<1> QED BY <1>7, <1>9, <1>10, <1>11, <1>12 DEF DroppedRight

LEMMA AppendOK ==
    ASSUME ListInv, NEW obj \in Obj, IBList_append(obj)
    PROVE  ListInv'
<1> DEFINE new == Append(expected, obj)
           n == length
<1>1. /\ n \in Nat /\ array \in Seq(Obj) /\ n <= Len(array) /\ Len(array) \in Nat
      /\ expected \in Seq(Obj) /\ Len(expected) = n
      /\ \A k \in 1..n : array[k] = expected[k]
      /\ listCapa \in Nat \ {0} /\ Len(array) <= listCapa
  BY DEF ListInv, ArrayRight
<1>2. /\ obj \in Mine => ~Contains(expected, obj) /\ ~Contains(dropped, obj)
      /\ listCapa' = IF n = listCapa THEN 2 * listCapa ELSE listCapa
      /\ array' = Written(array, n, obj)
      /\ length' = n + 1
      /\ expected' = new
      /\ dropped' = dropped
  BY DEF IBList_append, Grown
<1>3. /\ new \in Seq(Obj) /\ Len(new) = n + 1 /\ new[n + 1] = obj
      /\ \A k \in 1..n : new[k] = expected[k]
  BY <1>1, AppendFacts
<1>4. /\ array' \in Seq(Obj) /\ array'[n + 1] = obj
      /\ \A k \in 1..n : array'[k] = array[k]
      /\ Len(array') = IF n < Len(array) THEN Len(array) ELSE n + 1
  <2>1. CASE n < Len(array)
    <3>1. array' = [array EXCEPT ![n + 1] = obj]
      BY <1>2, <2>1 DEF Written
    <3>2. n + 1 \in 1..Len(array) /\ \A k \in 1..n : k \in 1..Len(array) /\ k # n + 1
      BY <1>1, <2>1
    <3> QED BY <1>1, <2>1, <3>1, <3>2
  <2>2. CASE ~(n < Len(array))
    <3>1. array' = Append(array, obj) /\ Len(array) = n
      BY <1>1, <1>2, <2>2 DEF Written
    <3>2. /\ Append(array, obj) \in Seq(Obj) /\ Len(Append(array, obj)) = n + 1
          /\ Append(array, obj)[n + 1] = obj
          /\ \A k \in 1..n : Append(array, obj)[k] = array[k]
      BY <1>1, <3>1, AppendFacts
    <3> QED BY <2>2, <3>1, <3>2
  <2> QED BY <2>1, <2>2
<1> HIDE DEF new, n
<1>5. \A k \in 1..(n + 1) : k = n + 1 \/ k \in 1..n
  BY <1>1
<1>6. ArrayRight'
  <2>1. \A k \in 1..(n + 1) : array'[k] = new[k]
    BY <1>1, <1>3, <1>4, <1>5
  <2>2. n + 1 \in Nat /\ n + 1 <= Len(array')
    BY <1>1, <1>4
  <2> QED BY <1>2, <1>3, <1>4, <2>1, <2>2 DEF ArrayRight
<1>7. listCapa' \in Nat \ {0} /\ Len(array') <= listCapa'
  <2>1. Len(array') \in Nat
    BY <1>4
  <2>2. CASE n = listCapa
    BY <1>1, <1>2, <1>4, <2>1, <2>2
  <2>3. CASE n # listCapa
    BY <1>1, <1>2, <1>4, <2>1, <2>3
  <2> QED BY <2>2, <2>3
<1>8. obj \in Mine => \A k \in 1..n : expected[k] # obj
  BY <1>1, <1>2 DEF Contains
<1>9. OnceMine(expected')
  <2> SUFFICES ASSUME NEW i \in 1..(n + 1), NEW j \in 1..(n + 1), new[i] \in Mine, new[i] = new[j]
               PROVE  i = j
    BY <1>2, <1>3 DEF OnceMine
  <2>1. CASE i \in 1..n /\ j \in 1..n
    BY <1>1, <1>3, <2>1 DEF ListInv, OnceMine
  <2>2. CASE i = n + 1 /\ j \in 1..n
    BY <1>3, <1>8, <2>2
  <2>3. CASE i \in 1..n /\ j = n + 1
    BY <1>3, <1>8, <2>3
  <2> QED BY <1>5, <2>1, <2>2, <2>3
<1>10. DroppedRight'
  <2>1. dropped \in Seq(Mine) /\ DOMAIN dropped = 1..Len(dropped) /\ \A k \in 1..Len(dropped) : dropped[k] \in Mine
    BY DEF ListInv, DroppedRight
  <2>2. DOMAIN new = 1..(n + 1) /\ DOMAIN expected = 1..n
    BY <1>1, <1>3
  <2>3. \A x : In(x, new) => x = obj \/ In(x, expected)
    BY <1>3, <1>5, <2>2 DEF In
  <2>4. \A x : In(x, dropped) => x \in Mine /\ ~In(x, expected)
    BY <2>1 DEF In, ListInv, DroppedRight
  <2>5. In(obj, dropped) => ~(obj \in Mine)
    BY <1>2, <2>1 DEF In, Contains
  <2>6. \A x : In(x, dropped) => ~In(x, new)
    BY <2>3, <2>4, <2>5
  <2> QED BY <1>2, <2>6 DEF ListInv, DroppedRight, In
<1> QED BY <1>2, <1>6, <1>7, <1>9, <1>10 DEF ListInv

(* The entry IBList_remove finds is the first in the array and in the list. *)
LEMMA RemoveOK ==
    ASSUME ListInv, NEW obj \in Obj, IBList_remove(obj)
    PROVE  ListInv'
<1> DEFINE n == length
           I == {k \in 1..n : array[k] = obj}
           i == Min(I)
           out == RemoveAt(expected, i)
<1>1. /\ n \in Nat /\ array \in Seq(Obj) /\ n <= Len(array) /\ Len(array) \in Nat
      /\ expected \in Seq(Obj) /\ Len(expected) = n
      /\ \A k \in 1..n : array[k] = expected[k]
      /\ listCapa \in Nat \ {0} /\ Len(array) <= listCapa
  BY DEF ListInv, ArrayRight
<1>2. SelectInSubSeq(array, 1, length, LAMBDA x : x = obj) = IF I # {} THEN Min(I) ELSE 0
  BY DEF SelectInSubSeq
<1>3. /\ I # {}
      /\ array' = removeAt(array, n, i - 1)
      /\ length' = n - 1
      /\ expected' = RemoveFirst(expected, obj)
      /\ listCapa' = listCapa /\ dropped' = dropped
  BY <1>2 DEF IBList_remove
<1>4. i \in I
  <2>1. I \in SUBSET Nat
    OBVIOUS
  <2>2. \E x \in I : \A y \in I : x <= y
    BY <1>3, <2>1, LeastNat
  <2> QED BY <2>2 DEF Min
<1>5. expected' = out
  <2>1. {k \in 1..Len(expected) : expected[k] = obj} = I
    BY <1>1
  <2>2. SelectInSeq(expected, LAMBDA v : v = obj) = i
    BY <1>3, <2>1 DEF SelectInSeq
  <2>3. \E k \in 1..Len(expected) : expected[k] = obj
    BY <1>3, <2>1
  <2> QED BY <1>3, <2>2, <2>3 DEF RemoveFirst
<1>6. i \in 1..n
  BY <1>4
<1> HIDE DEF i, I, n
<1>7. /\ out \in Seq(Obj) /\ Len(out) = n - 1
      /\ \A j \in 1..(n - 1) : out[j] = IF j < i THEN expected[j] ELSE expected[j + 1]
  BY <1>1, <1>6, RemovedFacts
<1>8. /\ array' \in Seq(Obj) /\ Len(array') = Len(array)
      /\ \A k \in 1..Len(array) :
            array'[k] = IF k > i - 1 /\ k < n THEN array[k + 1] ELSE array[k]
  <2> DEFINE b == removeAt(array, n, i - 1)
  <2>1. i - 1 \in Nat
    BY <1>1, <1>6
  <2>2. /\ b \in Seq(Obj) /\ Len(b) = Len(array)
        /\ \A k \in 1..Len(array) : b[k] = IF k > i - 1 /\ k < n THEN array[k + 1] ELSE array[k]
    BY <1>1, <2>1, RemovalFacts
  <2> HIDE DEF b
  <2> QED BY <1>3, <2>2 DEF b
<1> HIDE DEF out
<1>9. \A k \in 1..(n - 1) : /\ k \in 1..Len(array) /\ k \in 1..n /\ k + 1 \in 1..n
                            /\ k < n /\ k \in Nat
                            /\ k > i - 1 <=> ~(k < i)
  BY <1>1, <1>6
<1>10. \A k \in 1..(n - 1) : array'[k] = out[k]
  <2> SUFFICES ASSUME NEW k \in 1..(n - 1) PROVE array'[k] = out[k]
    OBVIOUS
  <2>1. CASE k < i
    BY <1>1, <1>7, <1>8, <1>9, <2>1
  <2>2. CASE ~(k < i)
    BY <1>1, <1>7, <1>8, <1>9, <2>2
  <2> QED BY <2>1, <2>2
<1>11. ArrayRight'
  <2>1. n - 1 \in Nat /\ n - 1 <= Len(array')
    BY <1>1, <1>6, <1>8
  <2> QED BY <1>3, <1>5, <1>7, <1>8, <1>10, <2>1 DEF ArrayRight
<1>12. OnceMine(out) /\ \A x : In(x, out) => In(x, expected)
  <2> DEFINE at == [k \in 1..(n - 1) |-> IF k < i THEN k ELSE k + 1]
  <2>1. at \in [1..(n - 1) -> 1..n]
    BY <1>9
  <2>2. \A k \in 1..(n - 1) : out[k] = expected[at[k]]
    BY <1>7
  <2>3. \A j, k \in 1..(n - 1) : j < k => at[j] < at[k]
    BY <1>1, <1>6
  <2> HIDE DEF at
  <2>4. Follows(out, at, expected, Len(expected))
    BY <1>1, <1>7, <2>1, <2>2, <2>3 DEF Follows
  <2>5. OnceMine(expected)
    BY DEF ListInv
  <2> QED BY <1>1, <1>7, <2>4, <2>5, FollowsKeeps
<1>13. DroppedRight'
  BY <1>3, <1>5, <1>12 DEF ListInv, DroppedRight, In
<1>14. listCapa' \in Nat \ {0} /\ Len(array') <= listCapa'
  BY <1>1, <1>3, <1>8
<1>15. OnceMine(expected')
  BY <1>5, <1>12
<1>16. OnceMine(expected)'
  BY <1>15 DEF OnceMine
<1> QED BY <1>11, <1>13, <1>14, <1>16 DEF ListInv

(* What Kept gives of a list in which each object with a deleter is once.  *)
LEMMA KeptOnce ==
    ASSUME NEW list \in Seq(Obj), OnceMine(list), NEW keep
    PROVE  /\ Kept(list, keep) \in Seq(Obj) /\ OnceMine(Kept(list, keep))
           /\ keep \subseteq Mine => Kept(list, keep) \in Seq(Mine)
           /\ \A x : In(x, Kept(list, keep)) => In(x, list) /\ x \in keep
<1> DEFINE out == Kept(list, keep)
<1>1. KeptRight(Obj, list, keep, Len(list))
  <2>1. Len(list) \in 0..Len(list)
    OBVIOUS
  <2> QED BY <2>1, KeptFacts
<1>2. /\ out \in Seq(Obj) /\ \A k \in 1..Len(out) : out[k] \in keep
      /\ \E at : Follows(out, at, list, Len(list))
  BY <1>1 DEF KeptRight, Kept
<1> HIDE DEF out
<1>3. PICK at : Follows(out, at, list, Len(list))
  BY <1>2
<1>4. OnceMine(out) /\ \A x : In(x, out) => In(x, list)
  BY <1>2, <1>3, FollowsKeeps
<1>5. \A x : In(x, out) => x \in keep
  BY <1>2 DEF In
<1>6. ASSUME keep \subseteq Mine PROVE out \in Seq(Mine)
  <2>1. \A k \in 1..Len(out) : out[k] \in Mine
    BY <1>2, <1>6
  <2>2. out \in [1..Len(out) -> Mine] /\ Len(out) \in Nat
    <3>1. out = [k \in 1..Len(out) |-> out[k]] /\ Len(out) \in Nat
      BY <1>2
    <3> QED BY <2>1, <3>1
  <2> QED BY <2>2
<1> QED BY <1>2, <1>4, <1>5, <1>6 DEF out

LEMMA RemoveAllOK ==
    ASSUME ListInv, NEW matches, IBList_removeAll(matches)
    PROVE  ListInv'
<1> DEFINE done == Loop(matches)[length]
           kept == Kept(expected, Obj \ matches)
           calls == Kept(expected, Mine \cap matches)
<1>1. ArrayRight /\ OnceMine(expected) /\ expected \in Seq(Obj) /\ Len(expected) = length
  BY DEF ListInv, ArrayRight
<1>2. /\ done \in LoopStates /\ Len(done.a) = Len(array)
      /\ done.i = Len(kept) /\ done.n = done.i + (length - length)
      /\ \A j \in 1..done.i : done.a[j] = kept[j]
      /\ done.calls = calls
  <2>1. LoopRight(matches, length)
    BY <1>1, LoopEnds
  <2> QED BY <1>1, <2>1 DEF LoopRight, Kept
<1>3. /\ array' = done.a /\ length' = done.n /\ dropped' = dropped \o done.calls
      /\ expected' = kept /\ listCapa' = listCapa
  BY DEF IBList_removeAll, Obj
<1>4. /\ kept \in Seq(Obj) /\ OnceMine(kept)
      /\ \A x : In(x, kept) => In(x, expected) /\ x \in Obj \ matches
  BY <1>1, KeptOnce
<1>5. /\ calls \in Seq(Obj) /\ OnceMine(calls)
      /\ \A x : In(x, calls) => In(x, expected) /\ x \in Mine \cap matches
  BY <1>1, KeptOnce
<1>6. calls \in Seq(Mine)
  BY <1>1, KeptOnce
<1> HIDE DEF done, kept, calls
<1>7. /\ done.a \in Seq(Obj) /\ done.n \in Nat /\ done.i \in Nat /\ done.n <= Len(done.a)
      /\ length \in Nat
  BY <1>1, <1>2 DEF LoopStates, ArrayRight
<1>8. done.n = Len(kept) /\ done.n = done.i
  BY <1>2, <1>7
<1>9. ArrayRight'
  BY <1>2, <1>3, <1>4, <1>7, <1>8 DEF ArrayRight
<1>10. OnceMine(expected)'
  <2>1. OnceMine(expected')
    BY <1>3, <1>4
  <2> QED BY <2>1 DEF OnceMine
<1>11. DroppedRight'
  <2>1. \A x : In(x, expected') => In(x, expected) /\ ~In(x, calls)
    BY <1>3, <1>4, <1>5
  <2>2. dropped' = dropped \o calls
    BY <1>2, <1>3
  <2> QED BY <1>5, <1>6, <2>1, <2>2, MoreDropped
<1>12. listCapa' \in Nat \ {0} /\ Len(array') <= listCapa'
  BY <1>2, <1>3 DEF ListInv
<1> QED BY <1>9, <1>10, <1>11, <1>12 DEF ListInv

LEMMA DestroyOK ==
    ASSUME ListInv, IBList_destroy
    PROVE  ListInv'
<1> DEFINE calls == Kept(expected, Mine)
<1>1. OnceMine(expected) /\ expected \in Seq(Obj)
  BY DEF ListInv, ArrayRight
<1>2. SubSeq(array, 1, length) = expected
  BY ListInvOK DEF ListCorrect
<1>3. /\ dropped' = dropped \o calls /\ array' = <<>> /\ length' = 0
      /\ listCapa' = ListCapa /\ expected' = <<>>
  BY <1>2 DEF IBList_destroy
<1>4. /\ calls \in Seq(Obj) /\ OnceMine(calls)
      /\ \A x : In(x, calls) => In(x, expected) /\ x \in Mine
  BY <1>1, KeptOnce
<1>5. calls \in Seq(Mine)
  BY <1>1, KeptOnce
<1> HIDE DEF calls
<1>6. /\ <<>> \in Seq(Obj) /\ Len(<<>>) = 0 /\ 1..0 = {}
  OBVIOUS
<1>7. ArrayRight'
  BY <1>3, <1>6 DEF ArrayRight
<1>8. OnceMine(expected)'
  BY <1>3, <1>6 DEF OnceMine
<1>9. DroppedRight'
  <2>1. \A x : ~In(x, expected')
    BY <1>3 DEF In
  <2> QED BY <1>3, <1>4, <1>5, <2>1, MoreDropped
<1>10. listCapa' \in Nat \ {0} /\ Len(array') <= listCapa'
  BY <1>3, <1>6, ListAssumption
<1> QED BY <1>7, <1>8, <1>9, <1>10 DEF ListInv

LEMMA ListNextOK == ListInv /\ [ListNext]_listVars => ListInv'
<1> SUFFICES ASSUME ListInv, [ListNext]_listVars PROVE ListInv'
  OBVIOUS
<1>1. ASSUME NEW x \in Mine \cup Others, IBList_append(x) PROVE ListInv'
  BY <1>1, AppendOK DEF Obj
<1>2. ASSUME NEW x \in Mine \cup Others, IBList_remove(x) PROVE ListInv'
  BY <1>2, RemoveOK DEF Obj
<1>3. ASSUME NEW matches \in SUBSET (Mine \cup Others), IBList_removeAll(matches)
      PROVE  ListInv'
  BY <1>3, RemoveAllOK
<1>4. CASE IBList_destroy
  BY <1>4, DestroyOK
<1>5. CASE UNCHANGED listVars
  BY <1>5 DEF listVars, ListInv, ArrayRight, OnceMine, DroppedRight, In
<1> QED BY <1>1, <1>2, <1>3, <1>4, <1>5 DEF ListNext

LEMMA ListInvariance == ListSpec => []ListInv
BY ListInitOK, ListNextOK, PTL DEF ListSpec

(* list.c: the array is never used beyond its end, IBList_removeAll leaves *)
(* the objects that do not match in their order though it moves them while *)
(* it goes on, and no deleter is called twice or for an object still there. *)
THEOREM ListTheorem == ListSpec => []ListCorrect
BY ListInvariance, ListInvOK, PTL

-----------------------------------------------------------------------------
(* The receive buffer.  A line of s ends at i.                             *)
EndsAt(s, i) == s[i] = "cr" /\ s[i + 1] = "lf"

(* A part of a sequence, in the form the proofs use.                       *)
LEMMA PartFacts ==
    ASSUME NEW S, NEW s \in Seq(S), NEW m \in 1..Len(s) + 1, NEW n \in (m - 1)..Len(s)
    PROVE  /\ SubSeq(s, m, n) \in Seq(S) /\ Len(SubSeq(s, m, n)) = n - m + 1
           /\ \A i \in 1..n - m + 1 : SubSeq(s, m, n)[i] = s[m + i - 1]
<1>1. m \in Int /\ n \in Int /\ Len(s) \in Nat
  OBVIOUS
<1>2. \A i \in m..n : s[i] \in S
  <2> SUFFICES ASSUME NEW i \in m..n PROVE s[i] \in S
    OBVIOUS
  <2>1. i \in 1..Len(s)
    BY <1>1
  <2> QED BY <2>1
<1>3. /\ SubSeq(s, m, n) \in Seq(S)
      /\ Len(SubSeq(s, m, n)) = IF m <= n THEN n - m + 1 ELSE 0
      /\ \A i \in 1..n - m + 1 : SubSeq(s, m, n)[i] = s[m + i - 1]
  BY <1>1, <1>2, SubSeqProperties
<1>4. ~(m <= n) => n - m + 1 = 0
  BY <1>1
<1> QED BY <1>3, <1>4

(* The end of the first line from p on that is complete.                   *)
LEMMA EndFacts ==
    ASSUME NEW s \in Seq(Bytes), NEW p \in 1..Len(s) + 1
    PROVE  LET e == EndOfLine(s, p)
           IN  \/ e = 0 /\ \A i \in p..Len(s) - 1 : ~EndsAt(s, i)
               \/ /\ e \in p..Len(s) - 1 /\ EndsAt(s, e)
                  /\ \A i \in p..e - 1 : ~EndsAt(s, i)
<1> DEFINE ends == {i \in p..Len(s) - 1 : s[i] = "cr" /\ s[i + 1] = "lf"}
           e == EndOfLine(s, p)
<1>1. e = IF ends = {} THEN 0 ELSE Min(ends)
  BY DEF EndOfLine
<1>2. CASE ends = {}
  <2>1. \A i \in p..Len(s) - 1 : ~EndsAt(s, i)
    BY <1>2 DEF EndsAt
  <2> QED BY <1>1, <1>2, <2>1
<1>3. CASE ends # {}
  <2>1. ends \in SUBSET Nat
    OBVIOUS
  <2> HIDE DEF ends, e
  <2>2. \E x \in ends : \A y \in ends : x <= y
    BY <1>3, <2>1, LeastNat
  <2>3. e \in ends /\ \A y \in ends : e <= y
    BY <1>1, <1>3, <2>2 DEF Min
  <2>4. e \in p..Len(s) - 1 /\ EndsAt(s, e)
    BY <2>3 DEF ends, EndsAt
  <2>5. ASSUME NEW i \in p..e - 1, EndsAt(s, i) PROVE FALSE
    <3>1. i \in p..Len(s) - 1 /\ ~(e <= i)
      BY <2>4
    <3>2. i \in ends
      BY <2>5, <3>1 DEF ends, EndsAt
    <3> QED BY <2>3, <3>1, <3>2
  <2> QED BY <2>4, <2>5 DEF e
<1> QED BY <1>2, <1>3

-----------------------------------------------------------------------------
(* The loop of connDataReceived.                                           *)
Parsed == {Parse(line) : line \in Seq(Bytes)}

HandleStates(buf) == [msgs : Seq(Parsed), pos : 1..Len(buf) + 1]

LEMMA HandledFacts ==
    ASSUME NEW buf \in Seq(Bytes), NEW h \in HandleStates(buf)
    PROVE  LET e == EndOfLine(buf, h.pos)
               n == Handled(buf, h)
           IN  /\ n \in HandleStates(buf)
               /\ e = 0 => n.msgs = h.msgs /\ n.pos = h.pos
               /\ e # 0 => n.pos = e + 2
               /\ e = h.pos => n.msgs = h.msgs
               /\ e # 0 /\ e # h.pos =>
                    /\ SubSeq(buf, h.pos, e - 1) \in Seq(Bytes)
                    /\ n.msgs = Append(h.msgs, Parse(SubSeq(buf, h.pos, e - 1)))
<1> DEFINE p == h.pos
           e == EndOfLine(buf, p)
           line == SubSeq(buf, p, e - 1)
           n == Handled(buf, h)
<1>1. p \in 1..Len(buf) + 1 /\ h.msgs \in Seq(Parsed) /\ Len(buf) \in Nat /\ h = [msgs |-> h.msgs, pos |-> p]
  BY DEF HandleStates
<1>2. e = 0 \/ e \in p..Len(buf) - 1
  BY <1>1, EndFacts
<1>3. n = [msgs |-> h.msgs \o (IF e > p THEN <<Parse(line)>> ELSE <<>>),
           pos |-> IF e = 0 THEN p ELSE e + 2]
  BY DEF Handled, IrcMessage_create
<1>4. (IF e = 0 THEN p ELSE e + 2) \in 1..Len(buf) + 1
  BY <1>1, <1>2
<1>5. e # 0 /\ e # p <=> e > p
  BY <1>1, <1>2
<1>6. h.msgs \o <<>> = h.msgs
  BY <1>1, ConcatEmptySeq
<1>7. CASE e > p
  <2>1. e - 1 \in (p - 1)..Len(buf)
    BY <1>1, <1>2, <1>7
  <2>2. line \in Seq(Bytes)
    BY <1>1, <2>1, PartFacts
  <2> HIDE DEF line
  <2>3. Parse(line) \in Parsed
    BY <2>2 DEF Parsed
  <2> DEFINE m == Parse(line)
  <2> HIDE DEF m
  <2>4. Append(h.msgs, m) = h.msgs \o <<m>> /\ Append(h.msgs, m) \in Seq(Parsed)
    BY <1>1, <2>3, AppendIsConcat, AppendProperties DEF m
  <2>5. n = [msgs |-> Append(h.msgs, m), pos |-> e + 2]
    BY <1>3, <1>5, <1>7, <2>4 DEF m
  <2> HIDE DEF n, e
  <2>6. n \in HandleStates(buf)
    BY <1>4, <1>5, <1>7, <2>4, <2>5 DEF HandleStates
  <2> QED BY <1>5, <1>7, <2>2, <2>5, <2>6 DEF m, line, n, e
<1>8. CASE ~(e > p)
  <2>1. n = [msgs |-> h.msgs, pos |-> IF e = 0 THEN p ELSE e + 2]
    BY <1>3, <1>6, <1>8
  <2> HIDE DEF n, e
  <2>2. n \in HandleStates(buf)
    BY <1>1, <1>4, <2>1 DEF HandleStates
  <2> QED BY <1>5, <1>8, <2>1, <2>2 DEF n, e
<1> QED BY <1>7, <1>8

LEMMA HandleRecursion ==
    ASSUME NEW buf \in Seq(Bytes)
    PROVE  /\ HandleUpTo(buf)[0] = [msgs |-> <<>>, pos |-> 1]
           /\ \A k \in 0..Len(buf) : HandleUpTo(buf)[k] \in HandleStates(buf)
           /\ \A k \in 1..Len(buf) : HandleUpTo(buf)[k] = Handled(buf, HandleUpTo(buf)[k - 1])
<1> DEFINE N == Len(buf)
           S == HandleStates(buf)
           x0 == [msgs |-> <<>>, pos |-> 1]
           g == [k \in 1..N |-> [h \in S |-> Handled(buf, h)]]
           Def(f) == [k \in 0..N |-> IF k = 0 THEN x0 ELSE Handled(buf, f[k - 1])]
           H == HandleUpTo(buf)
<1>1. x0 \in S
  <2>1. <<>> \in Seq(Parsed)
    OBVIOUS
  <2> QED BY <2>1 DEF HandleStates
<1>2. g \in [1..N -> [S -> S]]
  BY HandledFacts
<1>3. \A k \in 1..N, h \in S : g[k][h] = Handled(buf, h)
  OBVIOUS
<1>4. N \in Nat
  OBVIOUS
<1>5. H = CHOOSE f : f = Def(f)
  BY DEF HandleUpTo
<1> HIDE DEF N, g, S, x0, H
<1>6. PICK f : Runs(f, S, x0, g, N)
  BY <1>1, <1>2, <1>4, RecursionExists
<1>7. f = Def(f)
  <2>1. f = [k \in 0..N |-> f[k]]
    BY <1>6 DEF Runs
  <2>2. ASSUME NEW k \in 0..N
        PROVE  f[k] = IF k = 0 THEN x0 ELSE Handled(buf, f[k - 1])
    <3>1. CASE k = 0
      BY <1>6, <3>1 DEF Runs
    <3>2. CASE k # 0
      <4>1. k \in 1..N /\ k - 1 \in 0..N
        BY <1>4, <3>2
      <4>2. f[k] = g[k][f[k - 1]] /\ f[k - 1] \in S
        BY <1>6, <4>1 DEF Runs
      <4> QED BY <1>3, <3>2, <4>1, <4>2
    <3> QED BY <3>1, <3>2
  <2> QED BY <2>1, <2>2
<1>8. H = Def(H)
  BY <1>5, <1>7
<1>9. 0 \in 0..N /\ \A k \in 1..N : k \in 0..N /\ k # 0
  BY <1>4
<1>10. H[0] = x0 /\ \A k \in 1..N : H[k] = Handled(buf, H[k - 1])
  BY <1>8, <1>9
<1>11. \A k \in 0..N : H[k] \in S
  <2> DEFINE Bad == {k \in 0..N : H[k] \notin S}
  <2>1. SUFFICES ASSUME Bad # {} PROVE FALSE
    OBVIOUS
  <2>2. PICK k \in Bad : \A m \in Bad : k <= m
    <3>1. Bad \in SUBSET Nat
      OBVIOUS
    <3> QED BY <2>1, <3>1, LeastNat
  <2>3. k # 0
    BY <1>1, <1>10, <2>2
  <2>4. k \in 1..N /\ k - 1 \in 0..N /\ ~(k <= k - 1)
    BY <1>4, <2>2, <2>3
  <2>5. H[k - 1] \in S
    BY <2>2, <2>4
  <2>6. H[k] \in S
    BY <1>10, <2>4, <2>5, HandledFacts DEF S
  <2> QED BY <2>2, <2>6
<1> QED BY <1>10, <1>11 DEF H, S, N, x0

(* The loop has gone through all complete lines.                           *)
LEMMA HandleEnds ==
    ASSUME NEW buf \in Seq(Bytes)
    PROVE  /\ HandleAll(buf) \in HandleStates(buf)
           /\ EndOfLine(buf, HandleAll(buf).pos) = 0
<1> DEFINE H == HandleUpTo(buf)
           N == Len(buf)
           Bad == {k \in 0..N : ~(H[k].pos >= k + 1 \/ EndOfLine(buf, H[k].pos) = 0)}
<1>1. N \in Nat /\ N \in 0..N /\ 0 \in 0..N
  OBVIOUS
<1>2. /\ H[0].pos = 1
      /\ \A k \in 0..N : H[k] \in HandleStates(buf)
      /\ \A k \in 1..N : H[k] = Handled(buf, H[k - 1])
  BY HandleRecursion
<1>3. Bad = {}
  <2> SUFFICES ASSUME Bad # {} PROVE FALSE
    OBVIOUS
  <2>1. PICK k \in Bad : \A m \in Bad : k <= m
    <3>1. Bad \in SUBSET Nat
      OBVIOUS
    <3> QED BY <3>1, LeastNat
  <2>2. k \in 0..N /\ k # 0
    <3>1. H[0].pos >= 0 + 1
      BY <1>2
    <3> QED BY <2>1, <3>1
  <2>3. k \in 1..N /\ k - 1 \in 0..N /\ ~(k <= k - 1) /\ k \in Int
    BY <1>1, <2>2
  <2> DEFINE h == H[k - 1]
             e == EndOfLine(buf, h.pos)
  <2>4. h \in HandleStates(buf) /\ H[k] = Handled(buf, h) /\ h.pos \in 1..N + 1
    BY <1>2, <2>3 DEF HandleStates
  <2>5. h.pos >= (k - 1) + 1 \/ e = 0
    BY <2>1, <2>3
  <2>6. CASE e = 0
    <3>1. H[k].pos = h.pos
      BY <2>4, <2>6, HandledFacts
    <3> QED BY <2>1, <2>6, <3>1
  <2>7. CASE e # 0
    <3>1. H[k].pos = e + 2
      BY <2>4, <2>7, HandledFacts
    <3>2. e \in h.pos..N - 1
      BY <2>4, <2>7, EndFacts
    <3>3. h.pos >= k /\ h.pos \in Int /\ e \in Int /\ e >= h.pos
      BY <2>3, <2>4, <2>5, <2>7, <3>2
    <3>4. H[k].pos >= k + 1
      BY <2>3, <3>1, <3>3
    <3> QED BY <2>1, <3>4
  <2> QED BY <2>6, <2>7
<1>4. H[N].pos >= N + 1 \/ EndOfLine(buf, H[N].pos) = 0
  BY <1>1, <1>3
<1>5. H[N] \in HandleStates(buf) /\ H[N].pos \in 1..N + 1
  BY <1>1, <1>2 DEF HandleStates
<1>6. EndOfLine(buf, H[N].pos) \in H[N].pos..N - 1 \/ EndOfLine(buf, H[N].pos) = 0
  BY <1>5, EndFacts
<1>7. EndOfLine(buf, H[N].pos) = 0
  BY <1>1, <1>4, <1>5, <1>6
<1> QED BY <1>5, <1>7 DEF HandleAll

-----------------------------------------------------------------------------
(* Going through a stream byte by byte.                                    *)
ScanStates(s) == [lines : Seq(Seq(Bytes)), from : 1..Len(s) + 1]

LEMMA ScannedFacts ==
    ASSUME NEW s \in Seq(Bytes), NEW b \in ScanStates(s), NEW i \in 1..Len(s)
    PROVE  /\ Scanned(s, b, i) \in ScanStates(s)
           /\ Scanned(s, b, i) = b \/ Scanned(s, b, i).from = i + 1
           /\ ~(i - 1 \in b.from..i - 1 /\ EndsAt(s, i - 1)) => Scanned(s, b, i) = b
<1> DEFINE f == b.from
           line == SubSeq(s, f, i - 2)
<1>1. f \in 1..Len(s) + 1 /\ b.lines \in Seq(Seq(Bytes)) /\ Len(s) \in Nat /\ i \in Int
  BY DEF ScanStates
<1>2. CASE i > f /\ s[i - 1] = "cr" /\ s[i] = "lf"
  <2>1. i - 2 \in (f - 1)..Len(s) /\ i + 1 \in 1..Len(s) + 1 /\ i - 1 \in f..i - 1 /\ (i - 1) + 1 = i
    BY <1>1, <1>2
  <2>2. line \in Seq(Bytes)
    BY <1>1, <2>1, PartFacts
  <2> HIDE DEF line
  <2>3. Append(b.lines, line) \in Seq(Seq(Bytes))
    BY <1>1, <2>2
  <2>4. Scanned(s, b, i) = [lines |-> IF i - 1 = f THEN b.lines ELSE Append(b.lines, line),
                            from |-> i + 1]
    BY <1>2 DEF Scanned, line
  <2>5. EndsAt(s, i - 1)
    BY <1>2, <2>1 DEF EndsAt
  <2>6. Scanned(s, b, i) \in ScanStates(s) /\ Scanned(s, b, i).from = i + 1
    BY <1>1, <2>1, <2>3, <2>4 DEF ScanStates
  <2> QED BY <2>1, <2>5, <2>6
<1>3. CASE ~(i > f /\ s[i - 1] = "cr" /\ s[i] = "lf")
  BY <1>3 DEF Scanned
<1> QED BY <1>2, <1>3

LEMMA ScanRecursion ==
    ASSUME NEW s \in Seq(Bytes)
    PROVE  /\ Scan(s)[0] = [lines |-> <<>>, from |-> 1]
           /\ \A i \in 0..Len(s) : Scan(s)[i] \in ScanStates(s) /\ Scan(s)[i].from <= i + 1
           /\ \A i \in 1..Len(s) : Scan(s)[i] = Scanned(s, Scan(s)[i - 1], i)
<1> DEFINE N == Len(s)
           S == ScanStates(s)
           x0 == [lines |-> <<>>, from |-> 1]
           g == [i \in 1..N |-> [b \in S |-> Scanned(s, b, i)]]
           Def(f) == [i \in 0..N |-> IF i = 0 THEN x0 ELSE Scanned(s, f[i - 1], i)]
           H == Scan(s)
<1>1. x0 \in S
  <2>1. <<>> \in Seq(Seq(Bytes))
    OBVIOUS
  <2> QED BY <2>1 DEF ScanStates
<1>2. g \in [1..N -> [S -> S]]
  BY ScannedFacts
<1>3. \A i \in 1..N, b \in S : g[i][b] = Scanned(s, b, i)
  OBVIOUS
<1>4. N \in Nat
  OBVIOUS
<1>5. H = CHOOSE f : f = Def(f)
  BY DEF Scan
<1>6. \A i \in 1..N, b \in S : /\ Scanned(s, b, i) \in S
                               /\ Scanned(s, b, i) = b \/ Scanned(s, b, i).from = i + 1
  BY ScannedFacts
<1>7. x0.from = 1
  OBVIOUS
<1>8. \A b \in S : b.from \in Int
  BY DEF ScanStates
<1> HIDE DEF N, g, S, x0, H
<1>9. PICK f : Runs(f, S, x0, g, N)
  BY <1>1, <1>2, <1>4, RecursionExists
<1>10. f = Def(f)
  <2>1. f = [i \in 0..N |-> f[i]]
    BY <1>9 DEF Runs
  <2>2. ASSUME NEW i \in 0..N
        PROVE  f[i] = IF i = 0 THEN x0 ELSE Scanned(s, f[i - 1], i)
    <3>1. CASE i = 0
      BY <1>9, <3>1 DEF Runs
    <3>2. CASE i # 0
      <4>1. i \in 1..N /\ i - 1 \in 0..N
        BY <1>4, <3>2
      <4>2. f[i] = g[i][f[i - 1]] /\ f[i - 1] \in S
        BY <1>9, <4>1 DEF Runs
      <4> QED BY <1>3, <3>2, <4>1, <4>2
    <3> QED BY <3>1, <3>2
  <2> QED BY <2>1, <2>2
<1>11. H = Def(H)
  BY <1>5, <1>10
<1>12. 0 \in 0..N /\ \A i \in 1..N : i \in 0..N /\ i # 0
  BY <1>4
<1>13. H[0] = x0 /\ \A i \in 1..N : H[i] = Scanned(s, H[i - 1], i)
  BY <1>11, <1>12
<1>14. \A i \in 0..N : H[i] \in S /\ H[i].from <= i + 1
  <2> DEFINE Bad == {i \in 0..N : ~(H[i] \in S /\ H[i].from <= i + 1)}
  <2>1. SUFFICES ASSUME Bad # {} PROVE FALSE
    OBVIOUS
  <2>2. PICK i \in Bad : \A m \in Bad : i <= m
    <3>1. Bad \in SUBSET Nat
      OBVIOUS
    <3> QED BY <2>1, <3>1, LeastNat
  <2>3. i # 0
    <3>1. H[0] \in S /\ H[0].from <= 0 + 1
      BY <1>1, <1>7, <1>13
    <3> QED BY <2>2, <3>1
  <2>4. i \in 1..N /\ i - 1 \in 0..N /\ ~(i <= i - 1) /\ i \in Int
    BY <1>4, <2>2, <2>3
  <2>5. H[i - 1] \in S /\ H[i - 1].from <= (i - 1) + 1 /\ H[i - 1].from \in Int
    BY <1>8, <2>2, <2>4
  <2>6. H[i] \in S /\ (H[i] = H[i - 1] \/ H[i].from = i + 1)
    BY <1>6, <1>13, <2>4, <2>5
  <2>7. H[i].from <= i + 1
    BY <2>4, <2>5, <2>6
  <2> QED BY <2>2, <2>6, <2>7
<1> QED BY <1>13, <1>14 DEF H, S, N, x0

(* What comes after the first n bytes has no influence on what is found in *)
(* them.                                                                   *)
LEMMA ScanAgrees ==
    ASSUME NEW s \in Seq(Bytes), NEW t \in Seq(Bytes), NEW n \in 0..Len(s), n <= Len(t),
           \A i \in 1..n : s[i] = t[i]
    PROVE  \A i \in 0..n : Scan(s)[i] = Scan(t)[i]
<1> DEFINE Bad == {i \in 0..n : Scan(s)[i] # Scan(t)[i]}
<1> SUFFICES ASSUME Bad # {} PROVE FALSE
  OBVIOUS
<1>1. PICK i \in Bad : \A m \in Bad : i <= m
  <2>1. Bad \in SUBSET Nat
    OBVIOUS
  <2> QED BY <2>1, LeastNat
<1>2. i # 0
  <2>1. Scan(s)[0] = Scan(t)[0]
    BY ScanRecursion
  <2> QED BY <1>1, <2>1
<1>3. /\ i \in 1..Len(s) /\ i \in 1..Len(t) /\ i - 1 \in 0..n /\ ~(i <= i - 1)
      /\ i - 1 \in 0..Len(s) /\ i \in Int /\ i <= n /\ Len(s) \in Nat /\ Len(t) \in Nat
  BY <1>1, <1>2
<1> DEFINE b == Scan(s)[i - 1]
           f == b.from
<1>4. b = Scan(t)[i - 1]
  BY <1>1, <1>3
<1>5. Scan(s)[i] = Scanned(s, b, i) /\ Scan(t)[i] = Scanned(t, b, i) /\ b \in ScanStates(s)
  BY <1>3, <1>4, ScanRecursion
<1>6. f \in 1..Len(s) + 1
  BY <1>5 DEF ScanStates
<1> HIDE DEF b
<1>7. CASE i > f
  <2>1. i - 1 \in 1..n /\ i \in 1..n /\ i - 2 \in (f - 1)..Len(s) /\ i - 2 \in (f - 1)..Len(t)
        /\ f \in 1..Len(t) + 1 /\ i - 2 <= n
    BY <1>3, <1>6, <1>7
  <2>2. s[i - 1] = t[i - 1] /\ s[i] = t[i]
    BY <2>1
  <2>3. SubSeq(s, f, i - 2) = SubSeq(t, f, i - 2)
    <3> HIDE DEF f
    <3> DEFINE x == SubSeq(s, f, i - 2)
               y == SubSeq(t, f, i - 2)
               k == (i - 2) - f + 1
    <3>1. /\ x \in Seq(Bytes) /\ Len(x) = k
          /\ \A j \in 1..k : x[j] = s[f + j - 1]
      BY <1>6, <2>1, PartFacts
    <3>2. /\ y \in Seq(Bytes) /\ Len(y) = k
          /\ \A j \in 1..k : y[j] = t[f + j - 1]
      BY <2>1, PartFacts
    <3>3. \A j \in 1..k : f + j - 1 \in 1..n
      BY <1>3, <1>6, <2>1
    <3>4. \A j \in 1..k : x[j] = y[j]
      BY <3>1, <3>2, <3>3
    <3> HIDE DEF x, y, k
    <3> QED BY <3>1, <3>2, <3>4, SeqEqual DEF x, y
  <2>4. Scanned(s, b, i) = Scanned(t, b, i)
    BY <2>2, <2>3 DEF Scanned
  <2> QED BY <1>1, <1>5, <2>4
<1>8. CASE ~(i > f)
  <2>1. Scanned(s, b, i) = b /\ Scanned(t, b, i) = b
    BY <1>8 DEF Scanned
  <2> QED BY <1>1, <1>5, <2>1
<1> QED BY <1>7, <1>8

(* Where the last line starts, it was found to start.                      *)
LEMMA ScanBack ==
    ASSUME NEW s \in Seq(Bytes), NEW n \in 0..Len(s)
    PROVE  Scan(s)[Scan(s)[n].from - 1] = Scan(s)[n]
<1> DEFINE R(i) == Scan(s)[Scan(s)[i].from - 1] = Scan(s)[i]
           Bad == {i \in 0..Len(s) : ~R(i)}
<1> SUFFICES ASSUME Bad # {} PROVE FALSE
  OBVIOUS
<1>1. PICK i \in Bad : \A m \in Bad : i <= m
  <2>1. Bad \in SUBSET Nat
    OBVIOUS
  <2> QED BY <2>1, LeastNat
<1>2. i # 0
  <2>1. Scan(s)[0].from - 1 = 0
    BY ScanRecursion
  <2>2. R(0)
    BY <2>1
  <2> QED BY <1>1, <2>2
<1>3. i \in 1..Len(s) /\ i - 1 \in 0..Len(s) /\ ~(i <= i - 1) /\ (i + 1) - 1 = i
  BY <1>1, <1>2
<1>4. Scan(s)[i - 1] \in ScanStates(s) /\ Scan(s)[i] = Scanned(s, Scan(s)[i - 1], i)
  BY <1>3, ScanRecursion
<1>5. Scan(s)[i] = Scan(s)[i - 1] \/ Scan(s)[i].from = i + 1
  BY <1>3, <1>4, ScannedFacts
<1>6. R(i - 1)
  BY <1>1, <1>3
<1>7. R(i)
  BY <1>3, <1>5, <1>6
<1> QED BY <1>1, <1>7

(* Nothing is found where no line ends.                                    *)
LEMMA ScanQuiet ==
    ASSUME NEW s \in Seq(Bytes), NEW b \in 0..Len(s), Scan(s)[b].from = b + 1,
           NEW n \in b..Len(s), \A i \in b + 1..n - 1 : ~EndsAt(s, i)
    PROVE  Scan(s)[n] = Scan(s)[b]
<1> DEFINE Bad == {i \in b..n : Scan(s)[i] # Scan(s)[b]}
<1> SUFFICES ASSUME Bad # {} PROVE FALSE
  <2>1. n \in b..n
    OBVIOUS
  <2> QED BY <2>1
<1>1. PICK i \in Bad : \A m \in Bad : i <= m
  <2>1. Bad \in SUBSET Nat
    OBVIOUS
  <2> QED BY <2>1, LeastNat
<1>2. i # b
  BY <1>1
<1>3. i \in 1..Len(s) /\ i - 1 \in b..n /\ i - 1 \in 0..Len(s) /\ ~(i <= i - 1) /\ i - 1 <= n - 1
  BY <1>1, <1>2
<1>4. Scan(s)[i - 1] = Scan(s)[b]
  BY <1>1, <1>3
<1>5. Scan(s)[i - 1] \in ScanStates(s) /\ Scan(s)[i] = Scanned(s, Scan(s)[i - 1], i)
  BY <1>3, ScanRecursion
<1>6. ~(i - 1 \in b + 1..i - 1 /\ EndsAt(s, i - 1))
  <2>1. i - 1 \in b + 1..i - 1 => i - 1 \in b + 1..n - 1
    BY <1>3
  <2> QED BY <2>1
<1>7. Scan(s)[i] = Scan(s)[i - 1]
  BY <1>3, <1>4, <1>5, <1>6, ScannedFacts
<1> QED BY <1>1, <1>4, <1>7

(* The first line that ends after b.                                       *)
LEMMA ScanLine ==
    ASSUME NEW s \in Seq(Bytes), NEW b \in 0..Len(s), Scan(s)[b].from = b + 1,
           NEW e \in b + 1..Len(s) - 1, EndsAt(s, e), \A i \in b + 1..e - 1 : ~EndsAt(s, i)
    PROVE  Scan(s)[e + 1] =
             [lines |-> IF e = b + 1 THEN Scan(s)[b].lines
                        ELSE Append(Scan(s)[b].lines, SubSeq(s, b + 1, e - 1)),
              from |-> e + 2]
<1>1. /\ e \in b..Len(s) /\ e + 1 \in 1..Len(s) /\ (e + 1) - 1 = e /\ (e + 1) + 1 = e + 2
      /\ (e + 1) - 2 = e - 1 /\ e + 1 > b + 1
  OBVIOUS
<1>2. Scan(s)[e] = Scan(s)[b]
  BY <1>1, ScanQuiet
<1>3. Scan(s)[e + 1] = Scanned(s, Scan(s)[b], e + 1)
  BY <1>1, <1>2, ScanRecursion
<1> QED BY <1>1, <1>3 DEF Scanned, EndsAt

-----------------------------------------------------------------------------
(* What the loop handles is what is found in the stream.                   *)
ParsedLines(lines) == [i \in DOMAIN lines |-> Parse(lines[i])]

LEMMA ParsedFacts ==
    ASSUME NEW lines \in Seq(Seq(Bytes))
    PROVE  /\ ParsedLines(lines) \in Seq(Parsed)
           /\ \A line \in Seq(Bytes) :
                 ParsedLines(Append(lines, line)) = Append(ParsedLines(lines), Parse(line))
<1> DEFINE N == Len(lines)
           x == ParsedLines(lines)
<1>1. N \in Nat /\ DOMAIN lines = 1..N /\ \A i \in 1..N : lines[i] \in Seq(Bytes)
  OBVIOUS
<1>2. x = [i \in 1..N |-> Parse(lines[i])]
  BY <1>1 DEF ParsedLines
<1>3. \A i \in 1..N : Parse(lines[i]) \in Parsed
  BY <1>1 DEF Parsed
<1>4. x \in Seq(Parsed) /\ Len(x) = N /\ \A i \in 1..N : x[i] = Parse(lines[i])
  <2> HIDE DEF N, x
  <2> QED BY <1>1, <1>2, <1>3
<1>5. ASSUME NEW line \in Seq(Bytes)
      PROVE  ParsedLines(Append(lines, line)) = Append(x, Parse(line))
  <2> DEFINE u == Append(lines, line)
             v == ParsedLines(u)
             m == Parse(line)
             w == Append(x, m)
  <2>1. /\ u \in Seq(Seq(Bytes)) /\ Len(u) = N + 1 /\ DOMAIN u = 1..N + 1
        /\ u[N + 1] = line /\ \A i \in 1..N : u[i] = lines[i]
    <3>1. u \in Seq(Seq(Bytes)) /\ Len(u) = N + 1
      BY AppendProperties
    <3>2. u[N + 1] = line /\ \A i \in 1..N : u[i] = lines[i]
      BY AppendProperties
    <3> QED BY <3>1, <3>2
  <2>2. m \in Parsed
    BY DEF Parsed
  <2> HIDE DEF u, m
  <2>3. w \in Seq(Parsed) /\ Len(w) = N + 1 /\ w[N + 1] = m /\ \A i \in 1..N : w[i] = x[i]
    <3> HIDE DEF x, N
    <3> QED BY <1>4, <2>2, AppendProperties
  <2>4. v = [i \in 1..N + 1 |-> Parse(u[i])]
    BY <2>1 DEF ParsedLines
  <2>5. \A i \in 1..N + 1 : i = N + 1 \/ i \in 1..N
    BY <1>1
  <2> HIDE DEF v, w, x, N
  <2>6. \A i \in 1..N + 1 : w[i] = Parse(u[i])
    BY <1>4, <2>1, <2>3, <2>5 DEF m
  <2>7. w = [i \in 1..N + 1 |-> w[i]]
    BY <1>1, <2>3
  <2>8. v = w
    BY <2>4, <2>6, <2>7
  <2> QED BY <2>8 DEF u, v, w, m
<1> QED BY <1>4, <1>5

LEMMA ConcatAppend ==
    ASSUME NEW S, NEW x \in Seq(S), NEW y \in Seq(S), NEW z \in S
    PROVE  x \o Append(y, z) = Append(x \o y, z)
<1>1. <<z>> \in Seq(S)
  OBVIOUS
<1>2. Append(y, z) = y \o <<z>>
  BY AppendIsConcat
<1>3. x \o y \in Seq(S)
  BY ConcatProperties
<1>4. Append(x \o y, z) = (x \o y) \o <<z>>
  BY <1>3, AppendIsConcat
<1> DEFINE u == <<z>>
<1> HIDE DEF u
<1>5. (x \o y) \o u = x \o (y \o u)
  BY <1>1, ConcatAssociative DEF u
<1> QED BY <1>2, <1>4, <1>5 DEF u

(* A buffer that starts with byte f of the stream.                         *)
IsEnd(buf, all, f) == buf = SubSeq(all, f, Len(all))

(* The messages of h are those of the lines found up to its position, in a *)
(* buffer that starts with byte f of the stream.                           *)
Matched(all, f, h) ==
    /\ Scan(all)[f + h.pos - 2].from = f + h.pos - 1
    /\ ParsedLines(Scan(all)[f + h.pos - 2].lines)
         = ParsedLines(Scan(all)[f - 1].lines) \o h.msgs

LEMMA HandledScans ==
    ASSUME NEW all \in Seq(Bytes), NEW f \in 1..Len(all) + 1,
           NEW buf \in Seq(Bytes), IsEnd(buf, all, f),
           NEW h \in HandleStates(buf), Matched(all, f, h)
    PROVE  Matched(all, f, Handled(buf, h))
<1> DEFINE p == h.pos
           e == EndOfLine(buf, p)
           b == f + p - 2
           E == f + e - 1
           n == Handled(buf, h)
           before == ParsedLines(Scan(all)[f - 1].lines)
<1>1. /\ Len(all) \in Nat /\ Len(buf) = Len(all) - f + 1
      /\ \A i \in 1..Len(buf) : buf[i] = all[f + i - 1]
  <2>1. Len(all) \in (f - 1)..Len(all) /\ Len(all) \in Nat
    OBVIOUS
  <2> QED BY <2>1, PartFacts DEF IsEnd
<1>2. p \in 1..Len(buf) + 1 /\ h.msgs \in Seq(Parsed)
  BY DEF HandleStates
<1>3. /\ b \in 0..Len(all) /\ b + 1 = f + p - 1 /\ f - 1 \in 0..Len(all)
      /\ f \in Int /\ p \in Int /\ p >= 1
  BY <1>1, <1>2
<1>4. /\ n \in HandleStates(buf)
      /\ e = 0 => n.msgs = h.msgs /\ n.pos = p
      /\ e # 0 => n.pos = e + 2
      /\ e = p => n.msgs = h.msgs
      /\ e # 0 /\ e # p => /\ SubSeq(buf, p, e - 1) \in Seq(Bytes)
                           /\ n.msgs = Append(h.msgs, Parse(SubSeq(buf, p, e - 1)))
  BY HandledFacts
<1>5. \/ e = 0
      \/ e \in p..Len(buf) - 1 /\ EndsAt(buf, e) /\ \A i \in p..e - 1 : ~EndsAt(buf, i)
  BY <1>2, EndFacts
<1>6. /\ Scan(all)[b].from = b + 1
      /\ ParsedLines(Scan(all)[b].lines) = before \o h.msgs
  BY <1>3 DEF Matched
<1>7. Scan(all)[b].lines \in Seq(Seq(Bytes)) /\ Scan(all)[f - 1].lines \in Seq(Seq(Bytes))
  BY <1>3, ScanRecursion DEF ScanStates
<1>8. before \in Seq(Parsed)
  BY <1>7, ParsedFacts
<1>9. /\ Len(all) \in Nat /\ Len(buf) \in Nat /\ Len(buf) = Len(all) - f + 1
      /\ f \in Nat /\ f >= 1 /\ p \in Nat /\ p >= 1 /\ p <= Len(buf) + 1
  BY <1>1, <1>2, <1>3
<1> HIDE DEF e, n, before, p
<1>10. CASE e = 0
  BY <1>4, <1>10 DEF Matched, n, p
<1>11. CASE e # 0
  <2>1. e \in p..Len(buf) - 1 /\ EndsAt(buf, e) /\ \A i \in p..e - 1 : ~EndsAt(buf, i)
    BY <1>5, <1>11
  <2>2. /\ E \in b + 1..Len(all) - 1 /\ e \in 1..Len(buf) /\ e + 1 \in 1..Len(buf)
        /\ f + e - 1 = E /\ f + (e + 1) - 1 = E + 1 /\ e \in Int
        /\ (E = b + 1) <=> (e = p)
    <3>1. e \in Nat /\ e >= p /\ e <= Len(buf) - 1
      BY <1>9, <2>1
    <3> QED BY <1>9, <3>1
  <2>3. EndsAt(all, E)
    BY <1>1, <2>1, <2>2 DEF EndsAt
  <2>4. ASSUME NEW i \in b + 1..E - 1 PROVE ~EndsAt(all, i)
    <3> DEFINE j == i - f + 1
    <3>1. /\ j \in p..e - 1 /\ j \in 1..Len(buf) /\ j + 1 \in 1..Len(buf)
          /\ f + j - 1 = i /\ f + (j + 1) - 1 = i + 1
      <4>1. e \in Nat /\ e >= p /\ e <= Len(buf) - 1
        BY <1>9, <2>1
      <4> QED BY <1>9, <4>1
    <3> HIDE DEF j
    <3>2. buf[j] = all[i] /\ buf[j + 1] = all[i + 1]
      BY <1>1, <3>1
    <3> QED BY <2>1, <3>1, <3>2 DEF EndsAt
  <2> DEFINE line == SubSeq(all, b + 1, E - 1)
             lines == Scan(all)[b].lines
  <2>5. Scan(all)[E + 1] = [lines |-> IF E = b + 1 THEN lines ELSE Append(lines, line),
                            from |-> E + 2]
    <3>1. b \in 0..Len(all) /\ E \in b + 1..Len(all) - 1
      BY <1>3, <2>2
    <3>2. Scan(all)[b].from = b + 1
      BY <1>6
    <3>3. \A i \in b + 1..E - 1 : ~EndsAt(all, i)
      BY <2>4
    <3> HIDE DEF E, b
    <3> QED BY <2>3, <3>1, <3>2, <3>3, ScanLine
  <2>6. f + n.pos - 2 = E + 1 /\ f + n.pos - 1 = E + 2
    <3>1. n.pos = e + 2
      BY <1>4, <1>11
    <3> QED BY <1>9, <2>2, <3>1
  <2>7. CASE e = p
    <3>1. Scan(all)[E + 1].from = E + 2 /\ Scan(all)[E + 1].lines = lines
      BY <2>2, <2>5, <2>7
    <3>2. n.msgs = h.msgs
      BY <1>4, <2>7
    <3> HIDE DEF E, b
    <3>3. ParsedLines(Scan(all)[E + 1].lines) = before \o n.msgs
      BY <1>6, <3>1, <3>2
    <3> QED BY <2>6, <3>1, <3>3 DEF Matched, n, before
  <2>8. CASE e # p
    <3>1. Scan(all)[E + 1].from = E + 2 /\ Scan(all)[E + 1].lines = Append(lines, line)
      <4>1. E # b + 1
        BY <2>2, <2>8
      <4> HIDE DEF E, b, line, lines
      <4> QED BY <2>5, <4>1
    <3>2. line = SubSeq(buf, p, e - 1) /\ line \in Seq(Bytes)
      <4> DEFINE x == SubSeq(buf, p, e - 1)
                 k == (e - 1) - p + 1
      <4>1. e - 1 \in (p - 1)..Len(buf) /\ E - 1 \in ((b + 1) - 1)..Len(all)
            /\ b + 1 \in 1..Len(all) + 1 /\ (E - 1) - (b + 1) + 1 = k
        <5>1. e \in Nat /\ e >= p /\ e <= Len(buf) - 1
          BY <1>9, <2>1
        <5> QED BY <1>9, <5>1
      <4>2. /\ x \in Seq(Bytes) /\ Len(x) = k
            /\ \A j \in 1..k : x[j] = buf[p + j - 1]
        <5> DEFINE q == e - 1
        <5>1. p \in 1..Len(buf) + 1 /\ q \in (p - 1)..Len(buf)
          BY <1>9, <4>1
        <5> HIDE DEF E, b, q, line, x, k
        <5>2. /\ SubSeq(buf, p, q) \in Seq(Bytes) /\ Len(SubSeq(buf, p, q)) = q - p + 1
              /\ \A j \in 1..q - p + 1 : SubSeq(buf, p, q)[j] = buf[p + j - 1]
          BY <5>1, PartFacts
        <5> QED BY <5>2 DEF q, x, k
      <4>3. /\ line \in Seq(Bytes) /\ Len(line) = k
            /\ \A j \in 1..k : line[j] = all[(b + 1) + j - 1]
        <5> HIDE DEF E, b, k
        <5> QED BY <4>1, PartFacts
      <4>4. \A j \in 1..k : /\ p + j - 1 \in 1..Len(buf)
                            /\ f + (p + j - 1) - 1 = (b + 1) + j - 1
        <5>1. e \in Nat /\ e >= p /\ e <= Len(buf) - 1
          BY <1>9, <2>1
        <5> QED BY <1>9, <5>1
      <4> HIDE DEF E, b, k, x, line
      <4>5. \A j \in 1..k : line[j] = x[j]
        BY <1>1, <4>2, <4>3, <4>4
      <4> QED BY <4>2, <4>3, <4>5, SeqEqual DEF x
    <3> HIDE DEF line, lines, E, b
    <3>3. n.msgs = Append(h.msgs, Parse(line))
      BY <1>4, <1>11, <2>8, <3>2
    <3>4. ParsedLines(Append(lines, line)) = Append(ParsedLines(lines), Parse(line))
      BY <1>7, <3>2, ParsedFacts DEF lines
    <3>5. Parse(line) \in Parsed
      BY <3>2 DEF Parsed
    <3>6. before \o Append(h.msgs, Parse(line)) = Append(before \o h.msgs, Parse(line))
      <4> DEFINE m == Parse(line)
      <4> HIDE DEF m
      <4>1. m \in Parsed
        BY <3>5 DEF m
      <4>2. before \o Append(h.msgs, m) = Append(before \o h.msgs, m)
        <5> DEFINE msgs == h.msgs
        <5>1. before \in Seq(Parsed) /\ msgs \in Seq(Parsed)
          BY <1>2, <1>8
        <5> HIDE DEF msgs
        <5>2. before \o Append(msgs, m) = Append(before \o msgs, m)
          BY <4>1, <5>1, ConcatAppend
        <5> QED BY <5>2 DEF msgs
      <4> QED BY <4>2 DEF m
    <3>7. ParsedLines(Scan(all)[E + 1].lines) = before \o n.msgs
      BY <1>6, <3>1, <3>3, <3>4, <3>6 DEF lines
    <3> QED BY <2>6, <3>1, <3>7 DEF Matched, n, before
  <2> QED BY <2>7, <2>8
<1> QED BY <1>10, <1>11

LEMMA HandleScans ==
    ASSUME NEW all \in Seq(Bytes), NEW f \in 1..Len(all) + 1,
           Scan(all)[f - 1].from = f,
           NEW buf \in Seq(Bytes), IsEnd(buf, all, f)
    PROVE  Matched(all, f, HandleAll(buf))
<1> DEFINE H == HandleUpTo(buf)
           N == Len(buf)
           Bad == {k \in 0..N : ~Matched(all, f, H[k])}
<1>1. N \in Nat /\ N \in 0..N
  OBVIOUS
<1>2. /\ H[0] = [msgs |-> <<>>, pos |-> 1]
      /\ \A k \in 0..N : H[k] \in HandleStates(buf)
      /\ \A k \in 1..N : H[k] = Handled(buf, H[k - 1])
  BY HandleRecursion
<1>3. Matched(all, f, H[0])
  <2>1. f - 1 \in 0..Len(all) /\ f + 1 - 2 = f - 1 /\ f + 1 - 1 = f
    OBVIOUS
  <2> DEFINE lines == Scan(all)[f - 1].lines
  <2>2. lines \in Seq(Seq(Bytes))
    BY <2>1, ScanRecursion DEF ScanStates
  <2> HIDE DEF lines
  <2>3. ParsedLines(lines) \in Seq(Parsed)
    BY <2>2, ParsedFacts
  <2>4. ParsedLines(lines) \o <<>> = ParsedLines(lines)
    BY <2>3, ConcatEmptySeq
  <2>5. H[0].pos = 1 /\ H[0].msgs = <<>>
    BY <1>2
  <2> HIDE DEF H
  <2> QED BY <2>1, <2>4, <2>5 DEF Matched, lines
<1> HIDE DEF H, N
<1>4. Bad = {}
  <2> SUFFICES ASSUME Bad # {} PROVE FALSE
    OBVIOUS
  <2>1. PICK k \in Bad : \A m \in Bad : k <= m
    <3>1. Bad \in SUBSET Nat
      OBVIOUS
    <3> QED BY <3>1, LeastNat
  <2>2. k # 0
    BY <1>3, <2>1
  <2>3. k \in 1..N /\ k - 1 \in 0..N /\ ~(k <= k - 1)
    BY <1>1, <2>1, <2>2
  <2>4. Matched(all, f, H[k - 1])
    BY <2>1, <2>3
  <2>5. Matched(all, f, H[k])
    BY <1>2, <2>3, <2>4, HandledScans
  <2> QED BY <2>1, <2>5
<1> QED BY <1>1, <1>4 DEF HandleAll, H, N

-----------------------------------------------------------------------------
(* The inductive invariant: what was handled are the lines of the stream,  *)
(* and the buffer holds what comes after them.                             *)
Framed ==
    LET last == Scan(stream)[Len(stream)]
    IN  /\ got = ParsedLines(last.lines)
        /\ recvbuf = SubSeq(stream, last.from, Len(stream))

RecvInv ==
    /\ RecvTypeOK /\ Framed
    /\ recvbuf \in Seq(Bytes) /\ wire \in Seq(Bytes) /\ stream \in Seq(Bytes)
    /\ sent \in Seq(Messages)

LEMMA RecvInvOK == RecvInv => RecvTypeOK /\ Framing
BY DEF RecvInv, Framed, Framing, Lines, ParsedLines

(* Nothing is found in a sequence without an end of line.                  *)
LEMMA NoLines ==
    ASSUME NEW s \in Seq(Bytes), EndOfLine(s, 1) = 0
    PROVE  Scan(s)[Len(s)] = [lines |-> <<>>, from |-> 1]
<1>1. Len(s) \in Nat /\ 1 \in 1..Len(s) + 1 /\ 0 \in 0..Len(s) /\ Len(s) \in 0..Len(s)
  OBVIOUS
<1>2. \A i \in 0 + 1..Len(s) - 1 : ~EndsAt(s, i)
  BY <1>1, EndFacts
<1>3. Scan(s)[0] = [lines |-> <<>>, from |-> 1]
  BY ScanRecursion
<1>4. Scan(s)[0].from = 0 + 1
  BY <1>3
<1> QED BY <1>1, <1>2, <1>3, <1>4, ScanQuiet

LEMMA NoParsedLines == ParsedLines(<<>>) = <<>>
BY DEF ParsedLines

LEMMA WholeIsPart ==
    ASSUME NEW S, NEW s \in Seq(S)
    PROVE  SubSeq(s, 1, Len(s)) = s
<1>1. 1 \in 1..Len(s) + 1 /\ Len(s) \in (1 - 1)..Len(s) /\ Len(s) - 1 + 1 = Len(s)
      /\ \A i \in 1..Len(s) : 1 + i - 1 = i
  OBVIOUS
<1>2. /\ SubSeq(s, 1, Len(s)) \in Seq(S) /\ Len(SubSeq(s, 1, Len(s))) = Len(s)
      /\ \A i \in 1..Len(s) : SubSeq(s, 1, Len(s))[i] = s[i]
  BY <1>1, PartFacts
<1> QED BY <1>2, SeqEqual

LEMMA RecvInitOK == RecvInit => RecvInv
<1> SUFFICES ASSUME RecvInit PROVE RecvInv
  OBVIOUS
<1>1. /\ recvbuf = <<>> /\ wire = <<>> /\ connections = 0 /\ sent = <<>>
      /\ empties = 0 /\ got = <<>> /\ stream = <<>> /\ whole = TRUE
  BY DEF RecvInit
<1>2. <<>> \in Seq(Bytes) /\ <<>> \in Seq(Messages) /\ Len(<<>>) = 0
  OBVIOUS
<1>3. EndOfLine(<<>>, 1) = 0
  BY DEF EndOfLine
<1>4. RecvTypeOK
  BY <1>1, <1>2, <1>3, SizesAssumption, BoundsAssumption DEF RecvTypeOK
<1>5. Framed
  <2>1. Scan(stream)[Len(stream)] = [lines |-> <<>>, from |-> 1]
    BY <1>1, <1>2, <1>3, NoLines
  <2>2. SubSeq(stream, 1, Len(stream)) = stream
    BY <1>1, <1>2, WholeIsPart
  <2> QED BY <1>1, <2>1, <2>2, NoParsedLines DEF Framed
<1> QED BY <1>1, <1>2, <1>4, <1>5 DEF RecvInv

-----------------------------------------------------------------------------
(* Ends of sequences.                                                      *)
LEMMA EndOfConcat ==
    ASSUME NEW S, NEW s \in Seq(S), NEW t \in Seq(S), NEW f \in 1..Len(s) + 1
    PROVE  SubSeq(s, f, Len(s)) \o t = SubSeq(s \o t, f, Len(s \o t))
<1> DEFINE a == SubSeq(s, f, Len(s))
           u == s \o t
           x == a \o t
           y == SubSeq(u, f, Len(u))
           k == Len(s) - f + 1
<1>1. /\ u \in Seq(S) /\ Len(u) = Len(s) + Len(t) /\ Len(s) \in Nat /\ Len(t) \in Nat
      /\ \A i \in 1..Len(s) + Len(t) : u[i] = IF i <= Len(s) THEN s[i] ELSE t[i - Len(s)]
  BY ConcatProperties
<1>2. Len(s) \in (f - 1)..Len(s) /\ Len(u) \in (f - 1)..Len(u) /\ f \in 1..Len(u) + 1 /\ f \in Nat
  BY <1>1
<1>3. /\ a \in Seq(S) /\ Len(a) = k
      /\ \A i \in 1..k : a[i] = s[f + i - 1]
  BY <1>2, PartFacts
<1> HIDE DEF u, a
<1>4. /\ y \in Seq(S) /\ Len(y) = Len(u) - f + 1
      /\ \A i \in 1..Len(u) - f + 1 : y[i] = u[f + i - 1]
  BY <1>1, <1>2, PartFacts
<1>5. /\ x \in Seq(S) /\ Len(x) = Len(a) + Len(t)
      /\ \A i \in 1..Len(a) + Len(t) : x[i] = IF i <= Len(a) THEN a[i] ELSE t[i - Len(a)]
  BY <1>3, ConcatProperties
<1> HIDE DEF x, y
<1>6. Len(x) = Len(y) /\ k \in Nat /\ Len(x) = k + Len(t) /\ Len(u) - f + 1 = k + Len(t)
  BY <1>1, <1>2, <1>3, <1>4, <1>5
<1>7. ASSUME NEW i \in 1..Len(x) PROVE x[i] = y[i]
  <2>1. /\ i \in 1..k + Len(t) /\ f + i - 1 \in 1..Len(s) + Len(t)
        /\ (i <= k) <=> (f + i - 1 <= Len(s))
        /\ i <= k => i \in 1..k
        /\ (f + i - 1) - Len(s) = i - k
    BY <1>1, <1>2, <1>6
  <2>2. y[i] = u[f + i - 1]
    BY <1>4, <1>6, <2>1
  <2>3. u[f + i - 1] = IF i <= k THEN s[f + i - 1] ELSE t[i - k]
    BY <1>1, <2>1
  <2>4. x[i] = IF i <= k THEN a[i] ELSE t[i - k]
    BY <1>3, <1>5, <2>1
  <2>5. i <= k => a[i] = s[f + i - 1]
    BY <1>3, <2>1
  <2> QED BY <2>2, <2>3, <2>4, <2>5
<1>8. x = y
  BY <1>4, <1>5, <1>6, <1>7, SeqEqual
<1> QED BY <1>8 DEF x, y, a, u

LEMMA EndOfEnd ==
    ASSUME NEW S, NEW s \in Seq(S), NEW f \in 1..Len(s) + 1,
           NEW t \in Seq(S), t = SubSeq(s, f, Len(s)), NEW p \in 1..Len(t) + 1
    PROVE  /\ Len(t) = Len(s) - f + 1 /\ SubSeq(t, p, Len(t)) \in Seq(S)
           /\ Len(SubSeq(t, p, Len(t))) = Len(t) - p + 1
           /\ \A i \in 1..Len(t) - p + 1 : SubSeq(t, p, Len(t))[i] = t[p + i - 1]
           /\ SubSeq(t, p, Len(t)) = SubSeq(s, f + p - 1, Len(s))
<1> DEFINE x == SubSeq(t, p, Len(t))
           y == SubSeq(s, f + p - 1, Len(s))
           k == Len(t) - p + 1
<1>1. Len(s) \in (f - 1)..Len(s) /\ Len(s) \in Nat /\ f \in Nat
  OBVIOUS
<1>2. Len(t) = Len(s) - f + 1 /\ \A i \in 1..Len(t) : t[i] = s[f + i - 1]
  BY <1>1, PartFacts
<1>3. /\ Len(t) \in (p - 1)..Len(t) /\ Len(t) \in Nat /\ p \in Nat /\ p >= 1
      /\ f + p - 1 \in 1..Len(s) + 1 /\ Len(s) \in ((f + p - 1) - 1)..Len(s)
      /\ Len(s) - (f + p - 1) + 1 = k
  BY <1>1, <1>2
<1>4. /\ x \in Seq(S) /\ Len(x) = k /\ \A i \in 1..k : x[i] = t[p + i - 1]
  BY <1>3, PartFacts
<1>5. /\ y \in Seq(S) /\ Len(y) = k /\ \A i \in 1..k : y[i] = s[(f + p - 1) + i - 1]
  <2> DEFINE m == f + p - 1
  <2> HIDE DEF m, k
  <2>1. m \in 1..Len(s) + 1 /\ Len(s) \in (m - 1)..Len(s) /\ Len(s) - m + 1 = k
    BY <1>3 DEF m
  <2>2. /\ SubSeq(s, m, Len(s)) \in Seq(S) /\ Len(SubSeq(s, m, Len(s))) = k
        /\ \A i \in 1..k : SubSeq(s, m, Len(s))[i] = s[m + i - 1]
    BY <2>1, PartFacts
  <2> QED BY <2>2 DEF m
<1>6. \A i \in 1..k : /\ p + i - 1 \in 1..Len(t)
                      /\ f + (p + i - 1) - 1 = (f + p - 1) + i - 1
  BY <1>1, <1>3
<1>7. \A i \in 1..k : x[i] = y[i]
  BY <1>2, <1>4, <1>5, <1>6
<1> HIDE DEF x, y
<1>8. x = y
  BY <1>4, <1>5, <1>7, SeqEqual
<1> QED BY <1>2, <1>4, <1>8 DEF x, y

(* A complete line is not left in the buffer.                              *)
LEMMA RestHasNoEnd ==
    ASSUME NEW s \in Seq(Bytes), NEW p \in 1..Len(s) + 1, EndOfLine(s, p) = 0,
           NEW t \in Seq(Bytes), Len(t) = Len(s) - p + 1,
           \A i \in 1..Len(t) : t[i] = s[p + i - 1]
    PROVE  EndOfLine(t, 1) = 0
<1>1. \A i \in p..Len(s) - 1 : ~EndsAt(s, i)
  BY EndFacts
<1>2. ASSUME NEW i \in 1..Len(t) - 1, t[i] = "cr", t[i + 1] = "lf" PROVE FALSE
  <2>1. /\ i \in 1..Len(t) /\ i + 1 \in 1..Len(t) /\ p + i - 1 \in p..Len(s) - 1
        /\ p + (i + 1) - 1 = (p + i - 1) + 1
    OBVIOUS
  <2>2. EndsAt(s, p + i - 1)
    BY <1>2, <2>1 DEF EndsAt
  <2> QED BY <1>1, <2>1, <2>2
<1>3. {i \in 1..Len(t) - 1 : t[i] = "cr" /\ t[i + 1] = "lf"} = {}
  BY <1>2
<1> QED BY <1>3 DEF EndOfLine

-----------------------------------------------------------------------------
(* The steps.                                                              *)
LEMMA ReadOK ==
    ASSUME RecvInv, NEW n \in 1..MaxRead, n <= Len(wire), connDataReceived(n)
    PROVE  RecvInv'
<1> DEFINE new == SubSeq(wire, 1, n)
           buf == recvbuf \o new
           r == HandleAll(buf)
           rest == SubSeq(buf, r.pos, Len(buf))
           all == stream \o new
           m == Len(stream)
           f == Scan(stream)[m].from
           b == f + r.pos - 2
<1>1. /\ wire' = SubSeq(wire, n + 1, Len(wire))
      /\ got' = got \o r.msgs
      /\ recvbuf' = IF TooLong(rest) THEN <<>> ELSE rest
      /\ stream' = SubSeq(all, 1, Len(all) - (Len(rest) - Len(recvbuf')))
      /\ whole' \in BOOLEAN /\ connections' = connections /\ sent' = sent
      /\ empties' = empties
  BY DEF connDataReceived, RecvInv, RecvTypeOK
<1>2. /\ recvbuf \in Seq(Bytes) /\ wire \in Seq(Bytes) /\ stream \in Seq(Bytes)
      /\ got = ParsedLines(Scan(stream)[m].lines) /\ recvbuf = SubSeq(stream, f, m)
  BY DEF RecvInv, Framed
<1>3. /\ Len(wire) \in Nat /\ n \in Nat /\ 1 \in 1..Len(wire) + 1 /\ n \in (1 - 1)..Len(wire)
      /\ n + 1 \in 1..Len(wire) + 1 /\ Len(wire) \in ((n + 1) - 1)..Len(wire)
  BY <1>2, SizesAssumption
<1>4. new \in Seq(Bytes) /\ wire' \in Seq(Bytes)
  BY <1>1, <1>2, <1>3, PartFacts
<1> HIDE DEF new
<1>5. /\ buf \in Seq(Bytes) /\ all \in Seq(Bytes) /\ Len(all) = m + Len(new)
      /\ m \in Nat /\ Len(new) \in Nat /\ \A i \in 1..m : all[i] = stream[i]
  <2>1. \A i \in 1..m + Len(new) : all[i] = IF i <= m THEN stream[i] ELSE new[i - m]
    BY <1>2, <1>4, ConcatProperties
  <2>2. m \in Nat /\ Len(new) \in Nat
    BY <1>2, <1>4
  <2>3. \A i \in 1..m : i \in 1..m + Len(new) /\ i <= m
    BY <2>2
  <2> QED BY <1>2, <1>4, <2>1, <2>2, <2>3, ConcatProperties
<1>6. f \in 1..m + 1 /\ Scan(stream)[m].lines \in Seq(Seq(Bytes))
  <2>1. m \in 0..Len(stream)
    BY <1>5
  <2> QED BY <1>2, <2>1, ScanRecursion DEF ScanStates
<1>7. \A i \in 0..m : Scan(stream)[i] = Scan(all)[i]
  <2>1. m \in 0..Len(stream) /\ m <= Len(all)
    BY <1>5
  <2> HIDE DEF all
  <2> QED BY <1>2, <1>5, <2>1, ScanAgrees
<1>8. Scan(all)[f - 1] = Scan(stream)[m]
  <2>1. m \in 0..Len(stream) /\ f - 1 \in 0..m
    BY <1>5, <1>6
  <2>2. Scan(stream)[f - 1] = Scan(stream)[m]
    BY <1>2, <2>1, ScanBack
  <2> QED BY <1>7, <2>1, <2>2
<1>9. buf = SubSeq(all, f, Len(all))
  <2> HIDE DEF f
  <2> QED BY <1>2, <1>4, <1>6, EndOfConcat
<1>10. f \in 1..Len(all) + 1 /\ Scan(all)[f - 1].from = f
  BY <1>5, <1>6, <1>8
<1> HIDE DEF buf, all, f, m
<1>11. /\ r \in HandleStates(buf) /\ EndOfLine(buf, r.pos) = 0
       /\ Matched(all, f, r)
  <2>1. IsEnd(buf, all, f)
    BY <1>9 DEF IsEnd
  <2> QED BY <1>5, <1>10, <2>1, HandleEnds, HandleScans
<1> HIDE DEF r
<1>12. r.pos \in 1..Len(buf) + 1 /\ r.msgs \in Seq(Parsed)
  BY <1>11 DEF HandleStates
<1>13. /\ Len(buf) = Len(all) - f + 1 /\ rest \in Seq(Bytes) /\ Len(rest) = Len(buf) - r.pos + 1
       /\ \A i \in 1..Len(rest) : rest[i] = buf[r.pos + i - 1]
       /\ rest = SubSeq(all, f + r.pos - 1, Len(all))
  <2> DEFINE q == r.pos
  <2> HIDE DEF q
  <2>1. q \in 1..Len(buf) + 1
    BY <1>12 DEF q
  <2>2. /\ Len(buf) = Len(all) - f + 1 /\ SubSeq(buf, q, Len(buf)) \in Seq(Bytes)
        /\ Len(SubSeq(buf, q, Len(buf))) = Len(buf) - q + 1
        /\ \A i \in 1..Len(buf) - q + 1 : SubSeq(buf, q, Len(buf))[i] = buf[q + i - 1]
        /\ SubSeq(buf, q, Len(buf)) = SubSeq(all, f + q - 1, Len(all))
    <3>1. all \in Seq(Bytes) /\ buf \in Seq(Bytes)
      BY <1>5
    <3>2. f \in 1..Len(all) + 1
      BY <1>10
    <3> QED BY <1>9, <2>1, <3>1, <3>2, EndOfEnd
  <2>3. rest = SubSeq(buf, q, Len(buf))
    BY DEF q
  <2> HIDE DEF rest
  <2> QED BY <2>2, <2>3 DEF q
<1> HIDE DEF rest
<1>14. EndOfLine(rest, 1) = 0
  <2> DEFINE q == r.pos
  <2>1. /\ buf \in Seq(Bytes) /\ rest \in Seq(Bytes) /\ q \in 1..Len(buf) + 1
        /\ EndOfLine(buf, q) = 0
    BY <1>5, <1>11, <1>12, <1>13
  <2>2. Len(rest) = Len(buf) - q + 1 /\ \A i \in 1..Len(rest) : rest[i] = buf[q + i - 1]
    BY <1>13
  <2> HIDE DEF q
  <2> QED BY <2>1, <2>2, RestHasNoEnd
<1>15. /\ b \in 0..Len(all) /\ b + 1 = f + r.pos - 1 /\ b \in Nat /\ Len(all) \in Nat
       /\ Len(all) - Len(rest) = b /\ Len(rest) \in Nat /\ Len(all) \in b..Len(all)
  <2>1. Len(all) \in Nat /\ Len(buf) \in Nat /\ f \in Nat /\ r.pos \in Nat /\ f >= 1
        /\ r.pos >= 1 /\ r.pos <= Len(buf) + 1 /\ Len(buf) = Len(all) - f + 1
        /\ Len(rest) = Len(buf) - r.pos + 1
    BY <1>5, <1>10, <1>12, <1>13
  <2> DEFINE q == r.pos
             la == Len(all)
             lb == Len(buf)
             lr == Len(rest)
             d == f + q - 2
  <2>2. /\ la \in Nat /\ lb \in Nat /\ f \in Nat /\ q \in Nat /\ f >= 1 /\ q >= 1
        /\ q <= lb + 1 /\ lb = la - f + 1 /\ lr = lb - q + 1
    BY <2>1
  <2> HIDE DEF la, lb, lr, q
  <2>3. /\ d \in 0..la /\ d + 1 = f + q - 1 /\ d \in Nat /\ la - lr = d /\ lr \in Nat
        /\ la \in d..la
    BY <2>2
  <2> HIDE DEF d
  <2>4. b = d
    BY DEF d, q
  <2> HIDE DEF b
  <2> QED BY <2>2, <2>3, <2>4 DEF la, lr, q
<1>16. /\ Scan(all)[b].from = b + 1
       /\ got' = ParsedLines(Scan(all)[b].lines)
  <2>1. ParsedLines(Scan(all)[b].lines) = ParsedLines(Scan(all)[f - 1].lines) \o r.msgs
    BY <1>11 DEF Matched
  <2>2. Scan(all)[b].from = b + 1
    BY <1>11, <1>15 DEF Matched
  <2> QED BY <1>1, <1>2, <1>8, <2>1, <2>2
<1> HIDE DEF b
<1>17. Framed' /\ stream' \in Seq(Bytes)
  <2>1. CASE TooLong(rest)
    <3>1. recvbuf' = <<>> /\ Len(recvbuf') = 0
      BY <1>1, <2>1
    <3>2. stream' = SubSeq(all, 1, b)
      <4>1. Len(all) - (Len(rest) - Len(recvbuf')) = b
        BY <1>15, <3>1
      <4> QED BY <1>1, <4>1
    <3>3. stream' \in Seq(Bytes) /\ Len(stream') = b /\ \A i \in 1..b : all[i] = stream'[i]
      <4>1. 1 \in 1..Len(all) + 1 /\ b \in (1 - 1)..Len(all) /\ b - 1 + 1 = b
            /\ \A i \in 1..b : 1 + i - 1 = i
        BY <1>15
      <4> QED BY <1>5, <3>2, <4>1, PartFacts
    <3>4. Scan(all)[b] = Scan(stream')[b]
      <4>1. b <= Len(stream') /\ b \in 0..b
        BY <1>15, <3>3
      <4> QED BY <1>5, <1>15, <3>3, <4>1, ScanAgrees
    <3>5. SubSeq(stream', b + 1, b) = <<>>
      <4>1. b < b + 1 /\ b \in Int /\ b + 1 \in Int
        BY <1>15
      <4> QED BY <4>1, SubSeqEmpty
    <3> QED BY <1>16, <3>1, <3>3, <3>4, <3>5 DEF Framed
  <2>2. CASE ~TooLong(rest)
    <3>1. recvbuf' = rest
      BY <1>1, <2>2
    <3>2. stream' = all
      <4>1. Len(all) - (Len(rest) - Len(recvbuf')) = Len(all)
        BY <1>15, <3>1
      <4> QED BY <1>1, <1>5, <4>1, WholeIsPart
    <3>3. \A i \in b + 1..Len(all) - 1 : ~EndsAt(all, i)
      <4>1. EndOfLine(rest, 1) = 0 /\ rest \in Seq(Bytes) /\ 1 \in 1..Len(rest) + 1
        BY <1>13, <1>14, <1>15
      <4>2. \A i \in 1..Len(rest) - 1 : ~EndsAt(rest, i)
        BY <4>1, EndFacts
      <4>3. \A i \in 1..Len(rest) : rest[i] = all[b + i]
        <5>1. /\ b + 1 \in 1..Len(all) + 1 /\ Len(all) \in ((b + 1) - 1)..Len(all)
              /\ Len(all) - (b + 1) + 1 = Len(rest)
              /\ \A i \in 1..Len(rest) : (b + 1) + i - 1 = b + i
          BY <1>15
        <5>2. rest = SubSeq(all, b + 1, Len(all))
          BY <1>13, <1>15
        <5> DEFINE c == b + 1
                   part == SubSeq(all, c, Len(all))
        <5>3. all \in Seq(Bytes)
          BY <1>5
        <5>4. c \in 1..Len(all) + 1 /\ Len(all) \in (c - 1)..Len(all)
              /\ Len(all) - c + 1 = Len(rest) /\ rest = part
          BY <5>1, <5>2
        <5>5. \A i \in 1..Len(rest) : c + i - 1 = b + i
          BY <5>1
        <5> HIDE DEF c
        <5>6. \A i \in 1..Len(all) - c + 1 : part[i] = all[c + i - 1]
          BY <5>3, <5>4, PartFacts
        <5> HIDE DEF part
        <5> QED BY <5>4, <5>5, <5>6
      <4>4. ASSUME NEW i \in b + 1..Len(all) - 1, EndsAt(all, i) PROVE FALSE
        <5>1. /\ i - b \in 1..Len(rest) - 1 /\ i - b \in 1..Len(rest) /\ (i - b) + 1 \in 1..Len(rest)
              /\ b + (i - b) = i /\ b + ((i - b) + 1) = i + 1
          BY <1>15
        <5>2. EndsAt(rest, i - b)
          BY <4>3, <4>4, <5>1 DEF EndsAt
        <5> QED BY <4>2, <5>1, <5>2
      <4> QED BY <4>4
    <3>4. Scan(all)[Len(all)] = Scan(all)[b]
      BY <1>5, <1>15, <1>16, <3>3, ScanQuiet
    <3>5. recvbuf' = SubSeq(all, b + 1, Len(all))
      BY <1>13, <1>15, <3>1
    <3> QED BY <1>5, <1>16, <3>2, <3>4, <3>5 DEF Framed
  <2> QED BY <2>1, <2>2
<1>18. recvbuf' \in Seq(Bytes) /\ Len(recvbuf') + MaxRead <= BufSize /\ EndOfLine(recvbuf', 1) = 0
  <2>1. CASE TooLong(rest)
    <3>1. recvbuf' = <<>> /\ Len(recvbuf') = 0 /\ <<>> \in Seq(Bytes)
      BY <1>1, <2>1
    <3>2. EndOfLine(<<>>, 1) = 0
      BY DEF EndOfLine
    <3> QED BY <3>1, <3>2, SizesAssumption
  <2>2. CASE ~TooLong(rest)
    <3>1. recvbuf' = rest /\ ~(Len(rest) > MaxPartial)
      BY <1>1, <2>2 DEF TooLong
    <3>2. Len(rest) + MaxRead <= BufSize
      BY <1>15, <3>1, SizesAssumption
    <3> QED BY <1>13, <1>14, <3>1, <3>2
  <2> QED BY <2>1, <2>2
<1>19. RecvTypeOK'
  <2>1. connections' \in 0..MaxConnections /\ empties' \in Nat /\ Len(sent') + empties' <= MaxSent
    BY <1>1 DEF RecvInv, RecvTypeOK
  <2> QED BY <1>1, <1>18, <2>1 DEF RecvTypeOK
<1>20. sent' \in Seq(Messages)
  BY <1>1 DEF RecvInv
<1> QED BY <1>4, <1>17, <1>18, <1>19, <1>20 DEF RecvInv

(* The parts of what the network sends for a message are bytes.            *)
Word(p) == (IF NeedsColon(p) THEN <<"sp", "col">> ELSE <<"sp">>) \o p
Words(msg) == [i \in DOMAIN msg.params |-> Word(msg.params[i])]
PrefixText(msg) == IF msg.prefix = NoPrefix THEN <<>> ELSE <<"col">> \o msg.prefix \o <<"sp">>

LEMMA FormatParts ==
    ASSUME NEW msg \in Messages
    PROVE  /\ Words(msg) \in Seq(Seq(Bytes)) /\ Len(Words(msg)) = Len(msg.params)
           /\ \A i \in 1..Len(msg.params) : Words(msg)[i] = Word(msg.params[i])
           /\ FlattenSeq(Words(msg)) \in Seq(Bytes) /\ PrefixText(msg) \in Seq(Bytes)
           /\ Format(msg) = (PrefixText(msg) \o msg.rawCmd) \o FlattenSeq(Words(msg))
<1> DEFINE words == Words(msg)
<1>1. /\ msg.prefix \in Seq(Bytes) \cup {NoPrefix} /\ msg.rawCmd \in Seq(Bytes)
      /\ msg.params \in Seq(Seq(Bytes))
  BY MessagesAssumption
<1>2. /\ <<"sp">> \in Seq(Bytes) /\ <<"col">> \in Seq(Bytes)
      /\ <<"sp", "col">> \in Seq(Bytes) /\ <<>> \in Seq(Bytes)
  BY MessagesAssumption
<1>3. ASSUME NEW p \in Seq(Bytes) PROVE Word(p) \in Seq(Bytes)
  <2> DEFINE start == IF NeedsColon(p) THEN <<"sp", "col">> ELSE <<"sp">>
  <2>1. start \in Seq(Bytes)
    BY <1>2
  <2> HIDE DEF start
  <2>2. start \o p \in Seq(Bytes)
    BY <2>1, ConcatProperties
  <2> QED BY <2>2 DEF start, Word
<1>4. PrefixText(msg) \in Seq(Bytes)
  <2>1. CASE msg.prefix = NoPrefix
    BY <1>2, <2>1 DEF PrefixText
  <2>2. CASE msg.prefix # NoPrefix
    <3>1. msg.prefix \in Seq(Bytes)
      BY <1>1, <2>2
    <3>2. <<"col">> \o msg.prefix \in Seq(Bytes)
      BY <1>2, <3>1, ConcatProperties
    <3>3. (<<"col">> \o msg.prefix) \o <<"sp">> \in Seq(Bytes)
      BY <1>2, <3>2, ConcatProperties
    <3> QED BY <2>2, <3>3 DEF PrefixText
  <2> QED BY <2>1, <2>2
<1>5. /\ words \in Seq(Seq(Bytes)) /\ Len(words) = Len(msg.params)
      /\ \A i \in 1..Len(msg.params) : words[i] = Word(msg.params[i])
  <2>1. Len(msg.params) \in Nat /\ DOMAIN msg.params = 1..Len(msg.params)
        /\ \A i \in 1..Len(msg.params) : msg.params[i] \in Seq(Bytes)
    BY <1>1
  <2>2. \A i \in 1..Len(msg.params) : Word(msg.params[i]) \in Seq(Bytes)
    BY <1>3, <2>1
  <2> QED BY <2>1, <2>2 DEF Words
<1>6. Format(msg) = (PrefixText(msg) \o msg.rawCmd) \o FlattenSeq(words)
  BY DEF Format, PrefixText, Words, Word
<1> HIDE DEF words
<1>7. FlattenSeq(words) \in Seq(Bytes)
  <2>1. CASE Len(words) = 0
    <3>1. words = <<>> /\ FlattenSeq(words) = words
      BY <1>5, <2>1 DEF FlattenSeq
    <3> QED BY <1>2, <3>1
  <2>2. CASE Len(words) # 0
    <3>1. PICK g : Flat(g, words, Len(words)) /\ FlattenSeq(words) = g[Len(words)]
      BY <1>5, <2>2, FlattenIsFlat
    <3>2. Len(words) \in 1..Len(words)
      BY <1>5, <2>2
    <3> QED BY <1>5, <3>1, <3>2, FlatHolds
  <2> QED BY <2>1, <2>2
<1> QED BY <1>4, <1>5, <1>6, <1>7 DEF words

LEMMA FormatFacts ==
    ASSUME NEW msg \in Messages
    PROVE  Format(msg) \in Seq(Bytes)
<1>1. msg.rawCmd \in Seq(Bytes)
  BY MessagesAssumption
<1>2. PrefixText(msg) \o msg.rawCmd \in Seq(Bytes)
  BY <1>1, FormatParts, ConcatProperties
<1>3. (PrefixText(msg) \o msg.rawCmd) \o FlattenSeq(Words(msg)) \in Seq(Bytes)
  BY <1>2, FormatParts, ConcatProperties
<1> QED BY <1>3, FormatParts

LEMMA SendsOK ==
    ASSUME RecvInv, NEW msg \in Messages, RemoteSends(msg)
    PROVE  RecvInv'
<1>1. /\ Len(sent) + empties < MaxSent /\ sent' = Append(sent, msg)
      /\ wire' = (wire \o Format(msg)) \o CrLf /\ empties' = empties
      /\ recvbuf' = recvbuf /\ connections' = connections /\ got' = got
      /\ stream' = stream /\ whole' = whole
  BY DEF RemoteSends
<1>2. wire' \in Seq(Bytes)
  <2>1. wire \o Format(msg) \in Seq(Bytes)
    BY FormatFacts, ConcatProperties DEF RecvInv
  <2>2. CrLf \in Seq(Bytes)
    BY MessagesAssumption DEF CrLf
  <2>3. (wire \o Format(msg)) \o CrLf \in Seq(Bytes)
    BY <2>1, <2>2, ConcatProperties
  <2> QED BY <1>1, <2>3
<1>3. sent' \in Seq(Messages) /\ Len(sent') + empties' <= MaxSent
  <2>1. sent \in Seq(Messages) /\ empties \in Nat
    BY DEF RecvInv, RecvTypeOK
  <2>2. /\ Append(sent, msg) \in Seq(Messages) /\ Len(sent) \in Nat
        /\ Len(Append(sent, msg)) = Len(sent) + 1
    BY <2>1, AppendFacts
  <2>3. Len(sent') + empties' <= MaxSent
    BY <1>1, <2>1, <2>2, BoundsAssumption
  <2> QED BY <1>1, <2>2, <2>3
<1>4. RecvTypeOK'
  BY <1>1, <1>3 DEF RecvInv, RecvTypeOK
<1>5. Framed'
  BY <1>1 DEF RecvInv, Framed
<1> QED BY <1>1, <1>2, <1>3, <1>4, <1>5 DEF RecvInv

LEMMA SendsEmptyOK ==
    ASSUME RecvInv, RemoteSendsEmptyLine
    PROVE  RecvInv'
<1>1. /\ Len(sent) + empties < MaxSent /\ empties' = empties + 1
      /\ wire' = wire \o CrLf /\ sent' = sent
      /\ recvbuf' = recvbuf /\ connections' = connections /\ got' = got
      /\ stream' = stream /\ whole' = whole
  BY DEF RemoteSendsEmptyLine
<1>2. wire' \in Seq(Bytes)
  <2>1. CrLf \in Seq(Bytes)
    BY MessagesAssumption DEF CrLf
  <2>2. wire \o CrLf \in Seq(Bytes)
    BY <2>1, ConcatProperties DEF RecvInv
  <2> QED BY <1>1, <2>2
<1>3. empties' \in Nat /\ Len(sent') + empties' <= MaxSent
  <2>1. Len(sent) \in Nat /\ empties \in Nat
    BY DEF RecvInv, RecvTypeOK
  <2> QED BY <1>1, <2>1, BoundsAssumption
<1>4. RecvTypeOK'
  BY <1>1, <1>3 DEF RecvInv, RecvTypeOK
<1>5. Framed'
  BY <1>1 DEF RecvInv, Framed
<1> QED BY <1>1, <1>2, <1>4, <1>5 DEF RecvInv

LEMMA ReconnectOK ==
    ASSUME RecvInv, Reconnect
    PROVE  RecvInv'
<1>1. /\ connections < MaxConnections /\ connections' = connections + 1
      /\ wire' = <<>> /\ sent' = <<>> /\ empties' = 0 /\ got' = <<>> /\ stream' = recvbuf
      /\ whole' = (recvbuf = <<>>) /\ recvbuf' = recvbuf
  BY DEF Reconnect
<1>2. recvbuf \in Seq(Bytes) /\ EndOfLine(recvbuf, 1) = 0
  BY DEF RecvInv, RecvTypeOK
<1>3. <<>> \in Seq(Bytes) /\ <<>> \in Seq(Messages) /\ Len(<<>>) = 0
  OBVIOUS
<1>4. RecvTypeOK'
  <2>1. connections' \in 0..MaxConnections
    BY <1>1, BoundsAssumption DEF RecvInv, RecvTypeOK
  <2>2. empties' \in Nat /\ Len(sent') + empties' <= MaxSent
    BY <1>1, <1>3, BoundsAssumption
  <2>3. whole' \in BOOLEAN
    BY <1>1
  <2> QED BY <1>1, <2>1, <2>2, <2>3 DEF RecvInv, RecvTypeOK
<1>5. Framed'
  <2>1. Scan(recvbuf)[Len(recvbuf)] = [lines |-> <<>>, from |-> 1]
    BY <1>2, NoLines
  <2>2. SubSeq(recvbuf, 1, Len(recvbuf)) = recvbuf
    BY <1>2, WholeIsPart
  <2> QED BY <1>1, <2>1, <2>2, NoParsedLines DEF Framed
<1> QED BY <1>1, <1>2, <1>3, <1>4, <1>5 DEF RecvInv

LEMMA RecvNextOK == RecvInv /\ [RecvNext]_recvVars => RecvInv'
<1> SUFFICES ASSUME RecvInv, [RecvNext]_recvVars PROVE RecvInv'
  OBVIOUS
<1>1. CASE Read
  BY <1>1, ReadOK DEF Read
<1>2. ASSUME NEW msg \in Messages, RemoteSends(msg) PROVE RecvInv'
  BY <1>2, SendsOK
<1>3. CASE RemoteSendsEmptyLine
  BY <1>3, SendsEmptyOK
<1>4. CASE Reconnect
  BY <1>4, ReconnectOK
<1>5. CASE UNCHANGED recvVars
  <2>1. /\ recvbuf' = recvbuf /\ wire' = wire /\ connections' = connections /\ sent' = sent
        /\ empties' = empties /\ got' = got /\ stream' = stream /\ whole' = whole
    BY <1>5 DEF recvVars
  <2> QED BY <2>1 DEF RecvInv, RecvTypeOK, Framed
<1> QED BY <1>1, <1>2, <1>3, <1>4, <1>5 DEF RecvNext

LEMMA RecvInvariance == RecvSpec => []RecvInv
BY RecvInitOK, RecvNextOK, PTL DEF RecvSpec

(* ircserver.c: what connDataReceived leaves in recvbuf is short enough    *)
(* for the next read, also on the next connection, and contains no         *)
(* complete line.                                                          *)
THEOREM BufferTheorem == RecvSpec => []RecvTypeOK
BY RecvInvariance, RecvInvOK, PTL

(* connDataReceived: the messages handled are those in the complete lines  *)
(* of what was received, each once and in order, however it was cut into   *)
(* reads.                                                                  *)
THEOREM FramingTheorem == RecvSpec => []Framing
BY RecvInvariance, RecvInvOK, PTL

-----------------------------------------------------------------------------
(* A command as a number.  Only the digits have values.                    *)
LEMMA ValueFacts ==
    ASSUME NEW d \in Range(Digits)
    PROVE  Value(d) \in 0..9 /\ d = Digits[Value(d) + 1]
<1>1. DOMAIN Digits = 1..10
  BY DEF Digits
<1>2. PICK i \in 1..10 : Digits[i] = d
  BY <1>1 DEF Range
<1> DEFINE v == CHOOSE j \in 1..10 : Digits[j] = d
<1>3. v \in 1..10 /\ Digits[v] = d
  BY <1>2
<1> HIDE DEF v
<1>4. Value(d) = v - 1
  BY <1>1 DEF Value, v
<1>5. v - 1 \in 0..9 /\ (v - 1) + 1 = v
  BY <1>3
<1> QED BY <1>3, <1>4, <1>5

(* The numbers IrcCommand_parse finds, and their texts.                    *)
LEMMA CommandTexts ==
    /\ DOMAIN IrcCommand_str = {4, 403, 108, 133}
    /\ IrcCommand_str[4] = <<"0", "0", "4">>
    /\ IrcCommand_str[403] = <<"4", "0", "3">>
BY DEF IrcCommand_str

LEMMA CommandIsText ==
    ASSUME NEW text \in Seq(Bytes), IrcCommand_parse(text) # CMD_UNKNOWN
    PROVE  IrcCommand_str[IrcCommand_parse(text)] = text
<1>1. CASE IsNumeric(text)
  <2> DEFINE a == Value(text[1])
             b == Value(text[2])
             c == Value(text[3])
             n == 100 * a + 10 * b + c
  <2>1. Len(text) = 3 /\ \A i \in 1..3 : text[i] \in Range(Digits)
    BY <1>1 DEF IsNumeric
  <2>2. /\ a \in 0..9 /\ text[1] = Digits[a + 1]
        /\ b \in 0..9 /\ text[2] = Digits[b + 1]
        /\ c \in 0..9 /\ text[3] = Digits[c + 1]
    BY <2>1, ValueFacts
  <2>3. text = <<text[1], text[2], text[3]>>
    BY <2>1
  <2> HIDE DEF a, b, c
  <2>4. IrcCommand_parse(text) = n /\ IsReply(n)
    BY <1>1 DEF IrcCommand_parse, n, a, b, c
  <2>5. n = 4 \/ n = 403
    BY <2>2, <2>4, CommandTexts DEF IsReply
  <2>6. CASE n = 4
    <3>1. a = 0 /\ b = 0 /\ c = 4
      BY <2>2, <2>6
    <3>2. text[1] = "0" /\ text[2] = "0" /\ text[3] = "4"
      BY <2>2, <3>1 DEF Digits
    <3> QED BY <2>3, <2>4, <2>6, <3>2, CommandTexts
  <2>7. CASE n = 403
    <3>1. a = 4 /\ b = 0 /\ c = 3
      BY <2>2, <2>7
    <3>2. text[1] = "4" /\ text[2] = "0" /\ text[3] = "3"
      BY <2>2, <3>1 DEF Digits
    <3> QED BY <2>3, <2>4, <2>7, <3>2, CommandTexts
  <2> QED BY <2>5, <2>6, <2>7
<1>2. CASE ~IsNumeric(text)
  <2>1. \E n \in DOMAIN IrcCommand_str : IrcCommand_str[n] = text
    BY <1>2 DEF IrcCommand_parse
  <2>2. IrcCommand_parse(text)
          = CHOOSE n \in DOMAIN IrcCommand_str : IrcCommand_str[n] = text
    BY <1>2, <2>1 DEF IrcCommand_parse
  <2> QED BY <2>1, <2>2
<1> QED BY <1>1, <1>2

(* Where IndexOf stops.                                                    *)
LEMMA IndexFacts ==
    ASSUME NEW s \in Seq(Bytes), NEW p \in Nat, p > 0, NEW b
    PROVE  IndexOf(s, p, b) \in 1..Len(s) + 1
<1> DEFINE stops == {i \in p..Len(s) : s[i] = b} \cup {Len(s) + 1}
<1>1. stops \in SUBSET Nat /\ stops # {} /\ \A i \in stops : i \in 1..Len(s) + 1
  OBVIOUS
<1>2. IndexOf(s, p, b) = Min(stops)
  BY DEF IndexOf
<1> HIDE DEF stops
<1>3. \E x \in stops : \A y \in stops : x <= y
  BY <1>1, LeastNat
<1>4. Min(stops) \in stops
  BY <1>3 DEF Min
<1> QED BY <1>1, <1>2, <1>4

(* Parse cuts bytes out of bytes.                                          *)
LEMMA RestFacts ==
    ASSUME NEW s \in Seq(Bytes), NEW p \in Nat, p > 0
    PROVE  /\ AfterWord(s, p) \in Seq(Bytes)
           /\ SubSeq(s, 1, IndexOf(s, 1, "sp") - 1) \in Seq(Bytes)
<1>1. IndexOf(s, p, "sp") \in 1..Len(s) + 1 /\ IndexOf(s, 1, "sp") \in 1..Len(s) + 1
  BY IndexFacts
<1> DEFINE x == IndexOf(s, p, "sp") + 1
           y == IndexOf(s, 1, "sp") - 1
<1>2. x \in Int /\ y \in Int /\ Len(s) \in Int
  BY <1>1
<1>3. \A i \in x..Len(s) : s[i] \in Bytes
  BY <1>1
<1>4. \A i \in 1..y : s[i] \in Bytes
  BY <1>1
<1> HIDE DEF x, y
<1>5. SubSeq(s, x, Len(s)) \in Seq(Bytes)
  BY <1>2, <1>3, SubSeqProperties
<1>6. SubSeq(s, 1, y) \in Seq(Bytes)
  BY <1>2, <1>4, SubSeqProperties
<1> QED BY <1>5, <1>6 DEF AfterWord, x, y

LEMMA ParsedCommand ==
    ASSUME NEW line \in Seq(Bytes)
    PROVE  Parse(line).command # CMD_UNKNOWN
             => IrcCommand_str[Parse(line).command] = Parse(line).rawCmd
<1> DEFINE rest == IF line[1] = "col" THEN AfterWord(line, 2) ELSE line
           cmd == SubSeq(rest, 1, IndexOf(rest, 1, "sp") - 1)
<1>1. rest \in Seq(Bytes)
  BY RestFacts
<1>2. Parse(line).rawCmd = cmd /\ Parse(line).command = IrcCommand_parse(cmd)
  BY DEF Parse
<1> HIDE DEF rest
<1>3. cmd \in Seq(Bytes)
  BY <1>1, RestFacts
<1> QED BY <1>2, <1>3, CommandIsText

LEMMA RecvInvNames == RecvInv => CommandsNamed
<1> SUFFICES ASSUME RecvInv PROVE CommandsNamed
  OBVIOUS
<1> DEFINE lines == Scan(stream)[Len(stream)].lines
<1>1. stream \in Seq(Bytes) /\ got = ParsedLines(lines)
  BY DEF RecvInv, Framed
<1>2. lines \in Seq(Seq(Bytes))
  BY <1>1, ScanRecursion DEF ScanStates
<1>3. \A i \in DOMAIN lines : lines[i] \in Seq(Bytes)
  <2> HIDE DEF lines
  <2> QED BY <1>2
<1>4. DOMAIN got = DOMAIN lines /\ \A i \in DOMAIN got : got[i] = Parse(lines[i])
  BY <1>1 DEF ParsedLines
<1> HIDE DEF lines
<1> QED BY <1>3, <1>4, ParsedCommand DEF CommandsNamed

(* irccommand.c: whatever the network sends, a message whose command is    *)
(* known has the command whose text is in its line; a reply with a number  *)
(* that stands for a word in the code is not taken for that word.          *)
THEOREM CommandTheorem == RecvSpec => []CommandsNamed
BY RecvInvariance, RecvInvNames, PTL

-----------------------------------------------------------------------------
(* What is sent is found in the stream.                                    *)

(* The two parts of a concatenation.                                       *)
LEMMA ConcatParts ==
    ASSUME NEW S, NEW s \in Seq(S), NEW t \in Seq(S)
    PROVE  /\ s \o t \in Seq(S) /\ Len(s \o t) = Len(s) + Len(t)
           /\ \A i \in 1..Len(s) : (s \o t)[i] = s[i]
           /\ \A i \in 1..Len(t) : (s \o t)[Len(s) + i] = t[i]
<1>1. /\ s \o t \in Seq(S) /\ Len(s \o t) = Len(s) + Len(t)
      /\ \A i \in 1..Len(s) + Len(t) :
            (s \o t)[i] = IF i <= Len(s) THEN s[i] ELSE t[i - Len(s)]
  BY ConcatProperties
<1>2. Len(s) \in Nat /\ Len(t) \in Nat
  OBVIOUS
<1>3. \A i \in 1..Len(s) : i \in 1..Len(s) + Len(t) /\ i <= Len(s)
  BY <1>2
<1>4. \A i \in 1..Len(t) : /\ Len(s) + i \in 1..Len(s) + Len(t)
                          /\ ~(Len(s) + i <= Len(s)) /\ (Len(s) + i) - Len(s) = i
  BY <1>2
<1> QED BY <1>1, <1>3, <1>4

LEMMA BytesConcat ==
    \A s, t \in Seq(Bytes) :
       /\ s \o t \in Seq(Bytes) /\ Len(s \o t) = Len(s) + Len(t)
       /\ \A i \in 1..Len(s) : (s \o t)[i] = s[i]
       /\ \A i \in 1..Len(t) : (s \o t)[Len(s) + i] = t[i]
BY ONLY ConcatParts

LEMMA BytesAssociative ==
    \A s, t, u \in Seq(Bytes) : (s \o t) \o u = s \o (t \o u)
BY ONLY ConcatAssociative

(* A text without an end of line, and the end of a line after it, are one  *)
(* more line, or none if the text is empty.                                *)
LEMMA LineAdded ==
    ASSUME NEW s \in Seq(Bytes), Scan(s)[Len(s)].from = Len(s) + 1,
           NEW text \in Seq(Bytes), EndOfLine(text, 1) = 0
    PROVE  LET u == (s \o text) \o CrLf
           IN  /\ u \in Seq(Bytes)
               /\ Scan(u)[Len(u)] =
                    [lines |-> IF text = <<>> THEN Scan(s)[Len(s)].lines
                               ELSE Append(Scan(s)[Len(s)].lines, text),
                     from |-> Len(u) + 1]
<1> DEFINE u == (s \o text) \o CrLf
           b == Len(s)
           n == Len(text)
           e == b + n + 1
<1>1. b \in Nat /\ n \in Nat
  OBVIOUS
<1>2. CrLf \in Seq(Bytes) /\ Len(CrLf) = 2 /\ CrLf[1] = "cr" /\ CrLf[2] = "lf"
  BY MessagesAssumption DEF CrLf
<1> DEFINE st == s \o text
<1>3. /\ st \in Seq(Bytes) /\ Len(st) = b + n
      /\ \A i \in 1..b : st[i] = s[i]
      /\ \A i \in 1..n : st[b + i] = text[i]
  BY BytesConcat
<1> DEFINE c == CrLf
<1>d. c \in Seq(Bytes) /\ Len(c) = 2 /\ c[1] = "cr" /\ c[2] = "lf" /\ u = st \o c
  BY <1>2
<1> HIDE DEF st, c, u
<1>4. /\ u \in Seq(Bytes) /\ Len(u) = (b + n) + 2
      /\ \A i \in 1..b + n : u[i] = st[i]
      /\ \A i \in 1..2 : u[(b + n) + i] = c[i]
  <2>1. /\ st \o c \in Seq(Bytes) /\ Len(st \o c) = Len(st) + Len(c)
        /\ \A i \in 1..Len(st) : (st \o c)[i] = st[i]
        /\ \A i \in 1..Len(c) : (st \o c)[Len(st) + i] = c[i]
    <3>1. st \in Seq(Bytes) /\ c \in Seq(Bytes)
      BY <1>3, <1>d
    <3> QED BY <3>1, BytesConcat
  <2> HIDE DEF b, n
  <2> QED BY <1>3, <1>d, <2>1
<1>a. e = b + n + 1
  OBVIOUS
<1>b. text \in Seq(Bytes) /\ n = Len(text) /\ b = Len(s)
  OBVIOUS
<1> HIDE DEF b, n, e
<1>5. /\ \A i \in 1..b : u[i] = s[i]
      /\ \A i \in 1..n : u[b + i] = text[i]
      /\ u[e] = "cr" /\ u[e + 1] = "lf"
  <2>1. /\ \A i \in 1..b : i \in 1..b + n
        /\ \A i \in 1..n : b + i \in 1..b + n
    BY <1>1
  <2>2. e = (b + n) + 1 /\ e + 1 = (b + n) + 2 /\ 1 \in 1..2 /\ 2 \in 1..2
    BY <1>1, <1>a
  <2>3. u[e] = c[1] /\ u[e + 1] = c[2]
    BY <1>4, <2>2
  <2> QED BY <1>3, <1>4, <1>d, <2>1, <2>3
<1>6. Len(u) = e + 1 /\ b \in 0..Len(s) /\ b \in 0..Len(u) /\ b <= Len(u) /\ e \in b + 1..Len(u) - 1
  BY <1>1, <1>4, <1>a, <1>b
<1>7. Scan(u)[b] = Scan(s)[b] /\ Scan(u)[b].from = b + 1
  <2>1. \A i \in 0..b : Scan(s)[i] = Scan(u)[i]
    BY <1>4, <1>5, <1>6, <1>b, ScanAgrees
  <2>2. b \in 0..b
    BY <1>1
  <2>3. Scan(s)[b].from = b + 1
    BY <1>b
  <2> QED BY <2>1, <2>2, <2>3
<1>8. ASSUME NEW i \in b + 1..e - 1, EndsAt(u, i) PROVE FALSE
  <2>1. i - b \in 1..n /\ i = b + (i - b)
    BY <1>1, <1>a
  <2>2. u[i] = text[i - b] /\ u[i] = "cr" /\ u[i + 1] = "lf"
    BY <1>5, <1>8, <2>1 DEF EndsAt
  <2>3. CASE i = e - 1
    <3>1. i + 1 = e
      BY <1>1, <1>a, <2>3
    <3> QED BY <1>5, <2>2, <3>1
  <2>4. CASE i # e - 1
    <3>1. /\ i - b \in 1..n - 1 /\ (i - b) + 1 \in 1..n /\ i + 1 = b + ((i - b) + 1)
          /\ 1 \in 1..n + 1
      BY <1>1, <1>a, <2>4
    <3>2. u[i + 1] = text[(i - b) + 1]
      BY <1>5, <3>1
    <3>3. ~EndsAt(text, i - b)
      BY <1>b, <3>1, EndFacts
    <3> QED BY <2>2, <3>2, <3>3 DEF EndsAt
  <2> QED BY <2>3, <2>4
<1>9. EndsAt(u, e)
  BY <1>5 DEF EndsAt
<1>10. Scan(u)[e + 1] =
         [lines |-> IF e = b + 1 THEN Scan(s)[b].lines
                    ELSE Append(Scan(s)[b].lines, SubSeq(u, b + 1, e - 1)),
          from |-> e + 2]
  <2>1. Scan(u)[e + 1] =
         [lines |-> IF e = b + 1 THEN Scan(u)[b].lines
                    ELSE Append(Scan(u)[b].lines, SubSeq(u, b + 1, e - 1)),
          from |-> e + 2]
    <3>1. u \in Seq(Bytes) /\ b \in 0..Len(u) /\ e \in b + 1..Len(u) - 1
      BY <1>4, <1>6
    <3>2. \A i \in b + 1..e - 1 : ~EndsAt(u, i)
      BY <1>8
    <3>3. Scan(u)[b].from = b + 1
      BY <1>7
    <3> QED BY <1>9, <3>1, <3>2, <3>3, ScanLine
  <2> QED BY <1>7, <2>1
<1>11. SubSeq(u, b + 1, e - 1) = text
  <2> DEFINE j == b + 1
             k == e - 1
             x == SubSeq(u, j, k)
  <2>1. j \in 1..Len(u) + 1 /\ k \in (j - 1)..Len(u) /\ k - j + 1 = n
    BY <1>1, <1>6, <1>a
  <2>2. \A i \in 1..n : j + i - 1 = b + i
    BY <1>1
  <2> HIDE DEF j, k
  <2>3. /\ x \in Seq(Bytes) /\ Len(x) = k - j + 1
        /\ \A i \in 1..k - j + 1 : x[i] = u[j + i - 1]
    <3>1. u \in Seq(Bytes) /\ j \in 1..Len(u) + 1 /\ k \in (j - 1)..Len(u)
      BY <1>4, <2>1
    <3> QED BY ONLY <3>1, PartFacts DEF x
  <2> HIDE DEF x
  <2>4. Len(x) = n /\ \A i \in 1..n : x[i] = text[i]
    BY <1>5, <2>1, <2>2, <2>3
  <2>5. x = text
    BY <1>b, <2>3, <2>4, SeqEqual
  <2> QED BY <2>5 DEF x, j, k
<1>12. e = b + 1 <=> text = <<>>
  BY <1>1, <1>a, <1>b
<1>13. e + 2 = Len(u) + 1
  BY <1>1, <1>6
<1> QED BY <1>4, <1>6, <1>10, <1>11, <1>12, <1>13, <1>b DEF u

(* Lines are only added.                                                   *)
IsPrefixOf(x, y) == Len(x) <= Len(y) /\ \A i \in 1..Len(x) : x[i] = y[i]

LEMMA LinesGrow ==
    ASSUME NEW s \in Seq(Bytes), NEW m \in 0..Len(s)
    PROVE  IsPrefixOf(Scan(s)[m].lines, Scan(s)[Len(s)].lines)
<1> DEFINE N == Len(s)
           L(i) == Scan(s)[i].lines
           R(i) == IsPrefixOf(L(m), L(i))
           Bad == {i \in m..N : ~R(i)}
<1> SUFFICES ASSUME Bad # {} PROVE FALSE
  <2>1. N \in m..N
    OBVIOUS
  <2> QED BY <2>1
<1>1. PICK i \in Bad : \A k \in Bad : i <= k
  <2>1. Bad \in SUBSET Nat
    OBVIOUS
  <2> QED BY <2>1, LeastNat
<1>2. \A k \in 0..N : L(k) \in Seq(Seq(Bytes)) /\ Scan(s)[k] \in ScanStates(s)
  BY ScanRecursion DEF ScanStates
<1>3. i # m
  <2>1. L(m) \in Seq(Seq(Bytes))
    BY <1>2
  <2> HIDE DEF L
  <2>2. R(m)
    BY <2>1 DEF IsPrefixOf
  <2> QED BY <1>1, <2>2
<1>4. i \in 1..N /\ i - 1 \in m..N /\ i - 1 \in 0..N /\ ~(i <= i - 1) /\ i \in 0..N
  BY <1>1, <1>3
<1>5. R(i - 1)
  BY <1>1, <1>4
<1>6. Scan(s)[i] = Scanned(s, Scan(s)[i - 1], i)
  BY <1>4, ScanRecursion
<1>7. L(i) = L(i - 1) \/ \E line : L(i) = Append(L(i - 1), line)
  <2> DEFINE h == Scan(s)[i - 1]
             g == Scanned(s, h, i)
  <2>1. g = h \/ \E line : g.lines = h.lines \/ g.lines = Append(h.lines, line)
    BY DEF Scanned
  <2> QED BY <1>6, <2>1
<1>8. ASSUME NEW line, L(i) = Append(L(i - 1), line) PROVE R(i)
  <2>1. L(m) \in Seq(Seq(Bytes)) /\ L(i - 1) \in Seq(Seq(Bytes))
    BY <1>2, <1>4
  <2> DEFINE x == L(i - 1)
             y == L(m)
             z == L(i)
  <2>2. z = Append(x, line) /\ IsPrefixOf(y, x)
    BY <1>5, <1>8
  <2> HIDE DEF x, y, z, L
  <2>3. Len(z) = Len(x) + 1 /\ \A k \in 1..Len(x) : z[k] = x[k]
    BY <2>1, <2>2 DEF x
  <2>4. IsPrefixOf(y, z)
    BY <2>1, <2>2, <2>3 DEF IsPrefixOf, x, y
  <2> QED BY <2>4 DEF y, z
<1>9. R(i)
  BY <1>5, <1>7, <1>8
<1> QED BY <1>1, <1>9

(* The lines of what was sent, and the invariant: as long as nothing was   *)
(* discarded, what was received and what is on its way are those lines and *)
(* their ends.                                                             *)
Formatted(msgs) == [i \in DOMAIN msgs |-> Format(msgs[i])]

Transported ==
    whole => LET s == stream \o wire
             IN  Scan(s)[Len(s)] = [lines |-> Formatted(sent), from |-> Len(s) + 1]

(* One message more is one line more.                                      *)
LEMMA FormattedAppend ==
    ASSUME NEW msgs \in Seq(Messages), NEW m \in Messages
    PROVE  Formatted(Append(msgs, m)) = Append(Formatted(msgs), Format(m))
<1> DEFINE N == Len(msgs)
           u == Append(msgs, m)
           x == Formatted(msgs)
           f == Format(m)
           w == Append(x, f)
<1>1. N \in Nat /\ DOMAIN msgs = 1..N /\ \A i \in 1..N : msgs[i] \in Messages
  OBVIOUS
<1>2. /\ DOMAIN u = 1..N + 1 /\ u[N + 1] = m /\ \A i \in 1..N : u[i] = msgs[i]
  <2>1. Len(u) = N + 1 /\ u \in Seq(Messages)
    BY AppendFacts
  <2>2. u[N + 1] = m /\ \A i \in 1..N : u[i] = msgs[i]
    BY AppendFacts
  <2> QED BY <2>1, <2>2
<1>3. x = [i \in 1..N |-> Format(msgs[i])]
  BY <1>1 DEF Formatted
<1>4. \A i \in 1..N : Format(msgs[i]) \in Seq(Bytes)
  BY <1>1, FormatFacts
<1>5. f \in Seq(Bytes)
  BY FormatFacts
<1> HIDE DEF f, N, u
<1>6. x \in Seq(Seq(Bytes)) /\ Len(x) = N /\ \A i \in 1..N : x[i] = Format(msgs[i])
  <2> HIDE DEF x
  <2> QED BY <1>1, <1>3, <1>4
<1> HIDE DEF x
<1>7. /\ w \in Seq(Seq(Bytes)) /\ Len(w) = N + 1 /\ w[N + 1] = f
      /\ \A i \in 1..N : w[i] = x[i]
  BY <1>5, <1>6, AppendFacts
<1>8. \A i \in 1..N + 1 : i = N + 1 \/ i \in 1..N
  BY <1>1
<1>9. \A i \in 1..N + 1 : w[i] = Format(u[i])
  BY <1>2, <1>6, <1>7, <1>8 DEF f
<1> HIDE DEF w
<1>10. w = [i \in 1..N + 1 |-> w[i]]
  BY <1>1, <1>7
<1>11. w = [i \in 1..N + 1 |-> Format(u[i])]
  BY <1>9, <1>10
<1>12. Formatted(u) = [i \in 1..N + 1 |-> Format(u[i])]
  BY <1>2 DEF Formatted
<1> QED BY <1>11, <1>12 DEF w, x, u, f

(* A line is never empty.                                                  *)
LEMMA FormatNotEmpty ==
    ASSUME NEW msg \in Messages
    PROVE  Format(msg) # <<>>
<1> DEFINE a == PrefixText(msg)
           c == msg.rawCmd
           f == FlattenSeq(Words(msg))
<1>1. c \in Seq(Bytes) /\ c # <<>>
  BY MessagesAssumption DEF WellFormed, NeedsColon
<1>2. a \in Seq(Bytes) /\ f \in Seq(Bytes) /\ Format(msg) = (a \o c) \o f
  BY FormatParts
<1> HIDE DEF a, c, f
<1>3. a \o c \in Seq(Bytes) /\ Len(a \o c) = Len(a) + Len(c)
  BY <1>1, <1>2, BytesConcat
<1>4. Len((a \o c) \o f) = (Len(a) + Len(c)) + Len(f)
  BY <1>2, <1>3, BytesConcat
<1>5. Len(a) \in Nat /\ Len(c) \in Nat /\ Len(c) # 0 /\ Len(f) \in Nat
  BY <1>1, <1>2
<1>6. Len(Format(msg)) # 0
  BY <1>2, <1>4, <1>5
<1> QED BY <1>6

(* Nothing was sent and nothing is there.                                  *)
LEMMA TransportedInit == RecvInit => Transported
<1> SUFFICES ASSUME RecvInit PROVE Transported
  OBVIOUS
<1>1. stream = <<>> /\ wire = <<>> /\ sent = <<>>
  BY DEF RecvInit
<1>2. <<>> \in Seq(Bytes) /\ Len(<<>>) = 0
  OBVIOUS
<1>3. stream \o wire = <<>>
  BY <1>1, <1>2, ConcatEmptySeq
<1>4. EndOfLine(<<>>, 1) = 0
  BY DEF EndOfLine
<1>5. Scan(<<>>)[Len(<<>>)] = [lines |-> <<>>, from |-> 1]
  BY <1>2, <1>4, NoLines
<1>6. Formatted(sent) = <<>>
  BY <1>1 DEF Formatted
<1> QED BY <1>2, <1>3, <1>5, <1>6 DEF Transported

(* A read moves bytes from the wire to the stream, and changes nothing     *)
(* else unless some are discarded.                                         *)
LEMMA TransportedRead ==
    ASSUME RecvInv, RecvInv', Transported, NEW n \in 1..MaxRead, n <= Len(wire),
           connDataReceived(n)
    PROVE  Transported'
<1> SUFFICES ASSUME whole' PROVE stream' \o wire' = stream \o wire /\ sent' = sent /\ whole
  BY DEF Transported
<1> DEFINE new == SubSeq(wire, 1, n)
           left == SubSeq(wire, n + 1, Len(wire))
           buf == recvbuf \o new
           r == HandleAll(buf)
           rest == SubSeq(buf, r.pos, Len(buf))
           all == stream \o new
<1>1. /\ wire' = left /\ sent' = sent
      /\ recvbuf' = IF TooLong(rest) THEN <<>> ELSE rest
      /\ stream' = SubSeq(all, 1, Len(all) - (Len(rest) - Len(recvbuf')))
      /\ whole' = (whole /\ ~TooLong(rest))
  BY DEF connDataReceived
<1>2. whole /\ recvbuf' = rest
  BY <1>1
<1>3. /\ wire \in Seq(Bytes) /\ stream \in Seq(Bytes) /\ recvbuf' \in Seq(Bytes)
      /\ n \in Nat /\ Len(wire) \in Nat
  BY SizesAssumption DEF RecvInv
<1>4. /\ 1 \in 1..Len(wire) + 1 /\ n \in 1 - 1..Len(wire) /\ Len(wire) \in n..Len(wire)
      /\ n + 1 \in 1..Len(wire) + 1 /\ Len(wire) \in (n + 1) - 1..Len(wire)
  BY <1>3
<1>5. new \in Seq(Bytes) /\ left \in Seq(Bytes)
  BY <1>3, <1>4, PartFacts
<1>6. new \o left = wire
  <2>1. new \o left = SubSeq(wire, 1, Len(wire))
    BY <1>3, <1>4, ConcatAdjacentSubSeq
  <2> QED BY <1>3, <2>1, WholeIsPart
<1> HIDE DEF new, left, rest
<1>7. all \in Seq(Bytes)
  BY <1>3, <1>5, ConcatProperties
<1> HIDE DEF all
<1>8. stream' = all
  <2>1. Len(rest) \in Nat /\ Len(all) \in Nat
    BY <1>2, <1>3, <1>7
  <2>2. Len(all) - (Len(rest) - Len(recvbuf')) = Len(all)
    BY <1>2, <2>1
  <2>3. stream' = SubSeq(all, 1, Len(all))
    BY <1>1, <2>2
  <2> QED BY <1>7, <2>3, WholeIsPart
<1>9. all \o left = stream \o wire
  <2>1. (stream \o new) \o left = stream \o (new \o left)
    <3>1. stream \in Seq(Bytes) /\ new \in Seq(Bytes) /\ left \in Seq(Bytes)
      BY <1>3, <1>5
    <3> QED BY ONLY <3>1, BytesAssociative
  <2> QED BY <1>6, <2>1 DEF all
<1> QED BY <1>1, <1>2, <1>8, <1>9

(* A message becomes one more line.                                        *)
LEMMA TransportedSends ==
    ASSUME RecvInv, Transported, NEW msg \in Messages, RemoteSends(msg)
    PROVE  Transported'
<1> DEFINE s == stream \o wire
           f == Format(msg)
           u == (s \o f) \o CrLf
<1>1. /\ sent' = Append(sent, msg) /\ wire' = (wire \o f) \o CrLf
      /\ stream' = stream /\ whole' = whole
  BY DEF RemoteSends
<1>2. /\ stream \in Seq(Bytes) /\ wire \in Seq(Bytes) /\ sent \in Seq(Messages)
      /\ f \in Seq(Bytes) /\ CrLf \in Seq(Bytes)
  BY FormatFacts, MessagesAssumption DEF RecvInv, CrLf
<1>3. stream' \o wire' = u
  <2> DEFINE x == wire \o f
             c == CrLf
  <2>1. x \in Seq(Bytes) /\ c \in Seq(Bytes)
    BY <1>2, ConcatProperties
  <2>2. stream \o x = s \o f
    BY <1>2, BytesAssociative
  <2>3. stream' \o wire' = stream \o (x \o c) /\ u = (s \o f) \o c
    BY <1>1
  <2> HIDE DEF x, c, u, s, f
  <2>4. stream \o (x \o c) = (stream \o x) \o c
    <3>1. stream \in Seq(Bytes) /\ x \in Seq(Bytes) /\ c \in Seq(Bytes)
      BY <1>2, <2>1
    <3> QED BY ONLY <3>1, BytesAssociative
  <2> QED BY <2>2, <2>3, <2>4
<1>4. s \in Seq(Bytes)
  BY <1>2, ConcatProperties
<1>5. EndOfLine(f, 1) = 0 /\ f # <<>>
  BY MessagesAssumption, FormatNotEmpty DEF WellFormed
<1>6. Formatted(sent') = Append(Formatted(sent), f)
  BY <1>1, <1>2, FormattedAppend
<1> HIDE DEF f, s
<1>7. ASSUME whole PROVE Scan(u)[Len(u)] = [lines |-> Formatted(sent'), from |-> Len(u) + 1]
  <2>1. Scan(s)[Len(s)] = [lines |-> Formatted(sent), from |-> Len(s) + 1]
    BY <1>7 DEF Transported, s
  <2>2. Scan(s)[Len(s)].from = Len(s) + 1 /\ Scan(s)[Len(s)].lines = Formatted(sent)
    BY <2>1
  <2>3. Scan(u)[Len(u)] = [lines |-> Append(Scan(s)[Len(s)].lines, f), from |-> Len(u) + 1]
    BY <1>2, <1>4, <1>5, <2>2, LineAdded
  <2> QED BY <1>6, <2>2, <2>3
<1> HIDE DEF u
<1> QED BY <1>1, <1>3, <1>7 DEF Transported

(* An empty line does not count.                                           *)
LEMMA TransportedEmpty ==
    ASSUME RecvInv, Transported, RemoteSendsEmptyLine
    PROVE  Transported'
<1> DEFINE s == stream \o wire
           u == (s \o <<>>) \o CrLf
<1>1. /\ sent' = sent /\ wire' = wire \o CrLf
      /\ stream' = stream /\ whole' = whole
  BY DEF RemoteSendsEmptyLine
<1>2. /\ stream \in Seq(Bytes) /\ wire \in Seq(Bytes) /\ CrLf \in Seq(Bytes)
      /\ <<>> \in Seq(Bytes)
  BY MessagesAssumption DEF RecvInv, CrLf
<1>3. s \in Seq(Bytes)
  BY <1>2, ConcatProperties
<1>4. stream' \o wire' = u
  <2>1. stream \o (wire \o CrLf) = s \o CrLf
    BY <1>2, BytesAssociative
  <2>2. s \o <<>> = s
    BY <1>3, ConcatEmptySeq
  <2> QED BY <1>1, <2>1, <2>2
<1>5. EndOfLine(<<>>, 1) = 0
  BY DEF EndOfLine
<1> HIDE DEF s
<1>6. ASSUME whole PROVE Scan(u)[Len(u)] = [lines |-> Formatted(sent), from |-> Len(u) + 1]
  <2>1. Scan(s)[Len(s)] = [lines |-> Formatted(sent), from |-> Len(s) + 1]
    BY <1>6 DEF Transported, s
  <2>2. Scan(s)[Len(s)].from = Len(s) + 1 /\ Scan(s)[Len(s)].lines = Formatted(sent)
    BY <2>1
  <2>3. Scan(u)[Len(u)] = [lines |-> Scan(s)[Len(s)].lines, from |-> Len(u) + 1]
    BY <1>2, <1>3, <1>5, <2>2, LineAdded
  <2> QED BY <2>2, <2>3
<1> HIDE DEF u
<1> QED BY <1>1, <1>4, <1>6 DEF Transported

(* What is left in the buffer belongs to the last connection, so that the  *)
(* new one counts as whole only if nothing is.                             *)
LEMMA TransportedReconnect ==
    ASSUME RecvInv, Reconnect
    PROVE  Transported'
<1>1. /\ wire' = <<>> /\ sent' = <<>> /\ stream' = recvbuf
      /\ whole' = (recvbuf = <<>>)
  BY DEF Reconnect
<1> SUFFICES ASSUME recvbuf = <<>> PROVE Transported'
  BY <1>1 DEF Transported
<1>2. <<>> \in Seq(Bytes) /\ Len(<<>>) = 0
  OBVIOUS
<1>3. stream' \o wire' = <<>>
  BY <1>1, <1>2, ConcatEmptySeq
<1>4. EndOfLine(<<>>, 1) = 0
  BY DEF EndOfLine
<1>5. Scan(<<>>)[Len(<<>>)] = [lines |-> <<>>, from |-> 1]
  BY <1>2, <1>4, NoLines
<1>6. Formatted(sent') = <<>>
  BY <1>1 DEF Formatted
<1> QED BY <1>2, <1>3, <1>5, <1>6 DEF Transported

(* Every step keeps it.                                                    *)
LEMMA TransportedNext ==
    RecvInv /\ RecvInv' /\ Transported /\ [RecvNext]_recvVars => Transported'
<1> SUFFICES ASSUME RecvInv, RecvInv', Transported, [RecvNext]_recvVars PROVE Transported'
  OBVIOUS
<1>1. CASE Read
  BY <1>1, TransportedRead DEF Read
<1>2. ASSUME NEW msg \in Messages, RemoteSends(msg) PROVE Transported'
  BY <1>2, TransportedSends
<1>3. CASE RemoteSendsEmptyLine
  BY <1>3, TransportedEmpty
<1>4. CASE Reconnect
  BY <1>4, TransportedReconnect
<1>5. CASE UNCHANGED recvVars
  <2>1. wire' = wire /\ sent' = sent /\ stream' = stream /\ whole' = whole
    BY <1>5 DEF recvVars
  <2> QED BY <2>1 DEF Transported
<1> QED BY <1>1, <1>2, <1>3, <1>4, <1>5 DEF RecvNext

-----------------------------------------------------------------------------
(* Parsing undoes formatting.                                              *)

(* IndexOf stops at q if q is the first place where it can.                *)
LEMMA IndexAt ==
    ASSUME NEW s \in Seq(Bytes), NEW p \in 1..Len(s) + 1, NEW b, NEW q \in p..Len(s) + 1,
           \A i \in p..q - 1 : s[i] # b, q <= Len(s) => s[q] = b
    PROVE  IndexOf(s, p, b) = q
<1> DEFINE stops == {i \in p..Len(s) : s[i] = b} \cup {Len(s) + 1}
<1>1. q \in stops
  OBVIOUS
<1>2. ASSUME NEW i \in stops PROVE i \in Int /\ q <= i
  <2>1. i \in p..Len(s) + 1
    OBVIOUS
  <2>2. CASE i \in p..q - 1
    <3>1. i # Len(s) + 1
      BY <2>2
    <3>2. s[i] = b
      BY <3>1
    <3> QED BY <2>2, <3>2
  <2>3. CASE i \notin p..q - 1
    BY <2>1, <2>3
  <2> QED BY <2>2, <2>3
<1>3. IndexOf(s, p, b) = Min(stops)
  BY DEF IndexOf
<1> HIDE DEF stops
<1>4. \A i \in stops : (\A k \in stops : i <= k) => i = q
  BY <1>1, <1>2
<1>5. Min(stops) = q
  BY <1>1, <1>2, <1>4 DEF Min
<1> QED BY <1>3, <1>5

(* IndexOf stops after the end at the latest.                              *)
LEMMA IndexBounds ==
    ASSUME NEW s \in Seq(Bytes), NEW p \in 1..Len(s) + 1, NEW b
    PROVE  IndexOf(s, p, b) \in p..Len(s) + 1
<1> DEFINE stops == {i \in p..Len(s) : s[i] = b} \cup {Len(s) + 1}
<1>1. stops \in SUBSET Nat /\ stops # {} /\ \A i \in stops : i \in p..Len(s) + 1
  OBVIOUS
<1>2. IndexOf(s, p, b) = Min(stops)
  BY DEF IndexOf
<1> HIDE DEF stops
<1>3. \E x \in stops : \A y \in stops : x <= y
  BY <1>1, LeastNat
<1>4. Min(stops) \in stops
  BY <1>3 DEF Min
<1> QED BY <1>1, <1>2, <1>4

(* The text t is in s at p.                                                *)
StandsAt(s, p, t) ==
    /\ p + Len(t) <= Len(s) + 1
    /\ \A i \in 1..Len(t) : s[p + i - 1] = t[i]

(* What stands at p is the part that begins there.                         *)
LEMMA PartIs ==
    ASSUME NEW s \in Seq(Bytes), NEW p \in 1..Len(s) + 1, NEW t \in Seq(Bytes),
           StandsAt(s, p, t)
    PROVE  SubSeq(s, p, p + Len(t) - 1) = t
<1> DEFINE n == p + Len(t) - 1
           x == SubSeq(s, p, n)
<1>1. n \in (p - 1)..Len(s) /\ n - p + 1 = Len(t)
  BY DEF StandsAt
<1> HIDE DEF n
<1>2. x \in Seq(Bytes) /\ Len(x) = Len(t) /\ \A i \in 1..Len(t) : x[i] = s[p + i - 1]
  BY <1>1, PartFacts
<1> HIDE DEF x
<1>3. \A i \in 1..Len(t) : x[i] = t[i]
  BY <1>2 DEF StandsAt
<1>4. x = t
  BY <1>2, <1>3, SeqEqual
<1> QED BY <1>4 DEF x, n

(* A part of one element.                                                  *)
LEMMA PartOfOne ==
    ASSUME NEW S, NEW s \in Seq(S), NEW k \in 1..Len(s)
    PROVE  SubSeq(s, k, k) = <<s[k]>>
<1> DEFINE x == SubSeq(s, k, k)
           y == <<s[k]>>
<1>1. k \in 1..Len(s) + 1 /\ k \in (k - 1)..Len(s) /\ k - k + 1 = 1 /\ k + 1 - 1 = k
  OBVIOUS
<1>2. x \in Seq(S) /\ Len(x) = 1 /\ \A i \in 1..1 : x[i] = s[k + i - 1]
  <2>1. /\ x \in Seq(S) /\ Len(x) = k - k + 1
        /\ \A i \in 1..k - k + 1 : x[i] = s[k + i - 1]
    BY <1>1, PartFacts
  <2> QED BY <1>1, <2>1
<1>3. y \in Seq(S) /\ Len(y) = 1 /\ y[1] = s[k]
  OBVIOUS
<1> HIDE DEF x, y
<1>4. \A i \in 1..1 : x[i] = y[i]
  <2>1. x[1] = s[k + 1 - 1]
    BY <1>2
  <2> QED BY <1>1, <1>3, <2>1
<1>5. x = y
  BY <1>2, <1>3, <1>4, SeqEqual
<1> QED BY <1>5 DEF x, y

(* A word is what strcspn and strsep find.                                 *)
LEMMA WordAt ==
    ASSUME NEW s \in Seq(Bytes), NEW p \in 1..Len(s) + 1, NEW t \in Seq(Bytes),
           StandsAt(s, p, t), \A i \in 1..Len(t) : t[i] # "sp",
           p + Len(t) <= Len(s) => s[p + Len(t)] = "sp"
    PROVE  IndexOf(s, p, "sp") = p + Len(t) /\ SubSeq(s, p, IndexOf(s, p, "sp") - 1) = t
<1> DEFINE q == p + Len(t)
<1>1. q \in p..Len(s) + 1
  BY DEF StandsAt
<1>2. ASSUME NEW i \in p..q - 1 PROVE s[i] # "sp"
  <2>1. i - p + 1 \in 1..Len(t) /\ p + (i - p + 1) - 1 = i
    BY <1>1
  <2>2. s[i] = t[i - p + 1]
    BY <2>1 DEF StandsAt
  <2> QED BY <2>1, <2>2
<1>3. q <= Len(s) => s[q] = "sp"
  OBVIOUS
<1> HIDE DEF q
<1>4. IndexOf(s, p, "sp") = q
  BY <1>1, <1>2, <1>3, IndexAt
<1>5. SubSeq(s, p, p + Len(t) - 1) = t
  BY PartIs
<1> QED BY <1>4, <1>5 DEF q

(* The words of a flattened sequence of words stand one after the other.   *)
Before(f, k) == IF k = 0 THEN 0 ELSE Len(f[k])

(* Word k of seqs is the last in the k-th step of FlattenSeq.              *)
LEMMA FlatStep ==
    ASSUME NEW seqs \in Seq(Seq(Bytes)), NEW f, Flat(f, seqs, Len(seqs)),
           NEW k \in 1..Len(seqs)
    PROVE  /\ Before(f, k - 1) \in Nat /\ Before(f, k) = Before(f, k - 1) + Len(seqs[k])
           /\ f[k] \in Seq(Bytes) /\ Len(f[k]) = Before(f, k)
           /\ \A i \in 1..Len(seqs[k]) : f[k][Before(f, k - 1) + i] = seqs[k][i]
           /\ k # 1 => \A i \in 1..Before(f, k - 1) : f[k][i] = f[k - 1][i]
<1>1. f[k] = IF k = 1 THEN seqs[k] ELSE f[k - 1] \o seqs[k]
  BY DEF Flat
<1>2. seqs[k] \in Seq(Bytes) /\ f[k] \in Seq(Bytes)
  BY FlatHolds
<1>3. Len(f[k]) = Before(f, k) /\ Len(seqs[k]) \in Nat
  BY <1>2 DEF Before
<1>4. CASE k = 1
  <2>1. Before(f, k - 1) = 0 /\ f[k] = seqs[k]
    BY <1>1, <1>4 DEF Before
  <2>2. \A i \in 1..Len(seqs[k]) : 0 + i = i
    BY <1>3
  <2> QED BY <1>2, <1>3, <1>4, <2>1, <2>2
<1>5. CASE k # 1
  <2> DEFINE x == f[k - 1]
             y == seqs[k]
  <2>1. k - 1 \in 1..Len(seqs) /\ k - 1 # 0
    BY <1>5
  <2>2. x \in Seq(Bytes) /\ y \in Seq(Bytes)
    BY <1>2, <2>1, FlatHolds
  <2>3. Before(f, k - 1) = Len(x) /\ f[k] = x \o y
    BY <1>1, <1>5, <2>1 DEF Before
  <2> HIDE DEF x, y
  <2>4. /\ Len(x \o y) = Len(x) + Len(y) /\ Len(x) \in Nat
        /\ \A i \in 1..Len(x) : (x \o y)[i] = x[i]
        /\ \A i \in 1..Len(y) : (x \o y)[Len(x) + i] = y[i]
    BY <2>2, BytesConcat
  <2> QED BY <1>2, <1>3, <2>3, <2>4 DEF x, y
<1> QED BY <1>4, <1>5

(* The steps after it leave everything where it is.                        *)
LEMMA FlatPlaces ==
    ASSUME NEW seqs \in Seq(Seq(Bytes)), NEW f, Flat(f, seqs, Len(seqs)),
           NEW k \in 1..Len(seqs), NEW n \in k..Len(seqs)
    PROVE  /\ Before(f, k) <= Before(f, n)
           /\ \A i \in 1..Before(f, k) : f[n][i] = f[k][i]
<1> DEFINE R(m) == /\ Before(f, k) <= Before(f, m)
                   /\ \A i \in 1..Before(f, k) : f[m][i] = f[k][i]
           Bad == {m \in k..Len(seqs) : ~R(m)}
<1> SUFFICES ASSUME Bad # {} PROVE FALSE
  OBVIOUS
<1>1. PICK m \in Bad : \A j \in Bad : m <= j
  <2>1. Bad \in SUBSET Nat
    OBVIOUS
  <2> QED BY <2>1, LeastNat
<1>2. \A j \in 1..Len(seqs) : Before(f, j) \in Nat
  <2> SUFFICES ASSUME NEW j \in 1..Len(seqs) PROVE Before(f, j) \in Nat
    OBVIOUS
  <2>1. f[j] \in Seq(Bytes) /\ Len(f[j]) = Before(f, j)
    BY FlatStep
  <2> QED BY <2>1
<1>3. m # k
  <2>1. R(k)
    BY <1>2
  <2> QED BY <1>1, <2>1
<1>4. m \in 1..Len(seqs) /\ m - 1 \in k..Len(seqs) /\ m - 1 \in 1..Len(seqs) /\ m # 1 /\ ~(m <= m - 1)
  BY <1>1, <1>3
<1>5. R(m - 1)
  BY <1>1, <1>4
<1>6. /\ Before(f, m) = Before(f, m - 1) + Len(seqs[m])
      /\ \A i \in 1..Before(f, m - 1) : f[m][i] = f[m - 1][i]
  BY <1>4, FlatStep
<1>7. Len(seqs[m]) \in Nat
  BY <1>4
<1>8. R(m)
  <2> DEFINE x == Before(f, k)
             y == Before(f, m - 1)
             z == Before(f, m)
  <2>1. x \in Nat /\ y \in Nat /\ z \in Nat
    BY <1>2, <1>4
  <2>2. x <= y /\ \A i \in 1..x : f[m - 1][i] = f[k][i]
    BY <1>5
  <2>3. z = y + Len(seqs[m]) /\ \A i \in 1..y : f[m][i] = f[m - 1][i]
    BY <1>6
  <2>4. y <= z
    <3> DEFINE v == Len(seqs[m])
    <3>1. z = y + v /\ v \in Nat
      BY <1>7, <2>3
    <3> HIDE DEF v, y, z
    <3> QED BY <2>1, <3>1
  <2> HIDE DEF x, y, z
  <2>6. x <= z /\ \A i \in 1..x : i \in 1..y
    BY <2>1, <2>2, <2>4
  <2>5. \A i \in 1..x : f[m][i] = f[k][i]
    BY <2>2, <2>3, <2>6
  <2> QED BY <2>5, <2>6 DEF x, z
<1> QED BY <1>1, <1>8

-----------------------------------------------------------------------------
(* The recursion of ParamsFrom over the positions of s, from the end.      *)
ParamsStep(s, at, p) ==
    LET e == IndexOf(s, p, "sp")
    IN  IF p <= Len(s) /\ s[p] = "col" THEN <<SubSeq(s, p + 1, Len(s))>>
        ELSE <<SubSeq(s, p, e - 1)>> \o (IF e <= Len(s) THEN at[e + 1] ELSE <<>>)

ParamsAt(s, at, k) == at = [p \in k..Len(s) + 1 |-> ParamsStep(s, at, p)]

(* Only what comes later matters.                                          *)
LEMMA StepAgrees ==
    ASSUME NEW s \in Seq(Bytes), NEW p \in 1..Len(s) + 1, NEW a, NEW b,
           \A q \in p + 1..Len(s) + 1 : a[q] = b[q]
    PROVE  ParamsStep(s, a, p) = ParamsStep(s, b, p)
<1> DEFINE e == IndexOf(s, p, "sp")
<1>1. e \in p..Len(s) + 1
  BY IndexBounds
<1>2. e <= Len(s) => a[e + 1] = b[e + 1]
  <2> SUFFICES ASSUME e <= Len(s) PROVE e + 1 \in p + 1..Len(s) + 1
    OBVIOUS
  <2> HIDE DEF e
  <2> QED BY <1>1
<1> QED BY <1>2 DEF ParamsStep

(* The recursion from the end defines a value at every position.           *)
LEMMA ParamsExist ==
    ASSUME NEW s \in Seq(Bytes)
    PROVE  \E at : ParamsAt(s, at, 1)
<1> DEFINE N == Len(s)
           E(d) == \E at : ParamsAt(s, at, N + 1 - d)
           Bad == {d \in 0..N : ~E(d)}
<1>1. N \in Nat
  OBVIOUS
<1> SUFFICES ASSUME Bad # {} PROVE FALSE
  <2>1. N \in 0..N /\ N + 1 - N = 1
    BY <1>1
  <2>2. E(N)
    BY <2>1
  <2> HIDE DEF N
  <2> QED BY <2>1, <2>2
<1>2. PICK d \in Bad : \A j \in Bad : d <= j
  <2>1. Bad \in SUBSET Nat
    OBVIOUS
  <2> QED BY <2>1, LeastNat
<1> DEFINE k == N + 1 - d
<1>3. k \in 1..N + 1 /\ d \in 0..N
  BY <1>1, <1>2
<1>4. \E a : \A p \in k + 1..N + 1 : a[p] = ParamsStep(s, a, p)
  <2>1. CASE d = 0
    <3>1. \A p \in k + 1..N + 1 : FALSE
      BY <1>1, <1>3, <2>1
    <3> QED BY <3>1
  <2>2. CASE d # 0
    <3>1. d - 1 \in 0..N /\ ~(d - 1 \in Bad) /\ N + 1 - (d - 1) = k + 1
      BY <1>1, <1>2, <1>3, <2>2
    <3>2. E(d - 1)
      BY <3>1
    <3>3. PICK a : ParamsAt(s, a, N + 1 - (d - 1))
      BY <3>2
    <3>4. ParamsAt(s, a, k + 1)
      BY <3>1, <3>3
    <3>5. a = [p \in k + 1..N + 1 |-> ParamsStep(s, a, p)]
      BY <3>4 DEF ParamsAt
    <3> HIDE DEF k
    <3>6. \A p \in k + 1..N + 1 : a[p] = ParamsStep(s, a, p)
      BY <3>5
    <3> QED BY <3>6
  <2> QED BY <2>1, <2>2
<1>5. PICK a : \A p \in k + 1..N + 1 : a[p] = ParamsStep(s, a, p)
  BY <1>4
<1> DEFINE g == [p \in k..N + 1 |-> IF p = k THEN ParamsStep(s, a, p) ELSE a[p]]
<1> HIDE DEF k, N
<1>6. \A p \in k + 1..N + 1 : p \in k..N + 1 /\ p # k
  BY <1>1, <1>3
<1>7. /\ \A p \in k + 1..N + 1 : g[p] = a[p]
      /\ g[k] = ParamsStep(s, a, k) /\ DOMAIN g = k..N + 1
  <2>1. k \in k..N + 1
    BY <1>1, <1>3
  <2> QED BY <1>6, <2>1
<1> HIDE DEF g
<1>8. ASSUME NEW p \in k..N + 1 PROVE g[p] = ParamsStep(s, g, p)
  <2>1. /\ p \in 1..N + 1 /\ \A q \in p + 1..N + 1 : q \in k + 1..N + 1
        /\ p = k \/ p \in k + 1..N + 1
    BY <1>1, <1>3
  <2>2. \A q \in p + 1..N + 1 : g[q] = a[q]
    BY <1>7, <2>1
  <2>3. ParamsStep(s, g, p) = ParamsStep(s, a, p)
    BY <2>1, <2>2, StepAgrees DEF N
  <2>4. g[p] = ParamsStep(s, a, p)
    BY <1>5, <1>7, <2>1
  <2> QED BY <2>3, <2>4
<1>9. g = [p \in k..N + 1 |-> ParamsStep(s, g, p)]
  <2>1. g = [p \in k..N + 1 |-> g[p]]
    BY <1>7 DEF g
  <2> QED BY <1>8, <2>1
<1>10. E(d)
  BY <1>9 DEF ParamsAt, k, N
<1> QED BY <1>2, <1>10

(* ParamsFrom(s) is the value at the first position.                       *)
LEMMA ParamsRecursion ==
    ASSUME NEW s \in Seq(Bytes)
    PROVE  \E at : /\ ParamsFrom(s) = at[1]
                   /\ \A p \in 1..Len(s) + 1 : at[p] = ParamsStep(s, at, p)
<1> DEFINE at == CHOOSE a : a = [p \in 1..Len(s) + 1 |-> ParamsStep(s, a, p)]
<1>1. ParamsFrom(s) = at[1]
  BY DEF ParamsFrom, ParamsStep
<1>2. \E a : a = [p \in 1..Len(s) + 1 |-> ParamsStep(s, a, p)]
  BY ParamsExist DEF ParamsAt
<1>3. at = [p \in 1..Len(s) + 1 |-> ParamsStep(s, at, p)]
  BY <1>2
<1> HIDE DEF at
<1>4. \A p \in 1..Len(s) + 1 : at[p] = ParamsStep(s, at, p)
  BY <1>3
<1> QED BY <1>1, <1>4

(* What one word of a message is in its line.                              *)
LEMMA WordParts ==
    ASSUME NEW p \in Seq(Bytes)
    PROVE  /\ Word(p) \in Seq(Bytes) /\ Word(p)[1] = "sp"
           /\ ~NeedsColon(p) =>
                /\ Len(Word(p)) = Len(p) + 1
                /\ \A i \in 1..Len(p) : Word(p)[i + 1] = p[i]
           /\ NeedsColon(p) =>
                /\ Len(Word(p)) = Len(p) + 2 /\ Word(p)[2] = "col"
                /\ \A i \in 1..Len(p) : Word(p)[i + 2] = p[i]
<1> DEFINE start == IF NeedsColon(p) THEN <<"sp", "col">> ELSE <<"sp">>
           k == IF NeedsColon(p) THEN 2 ELSE 1
<1>1. /\ start \in Seq(Bytes) /\ Len(start) = k /\ start[1] = "sp"
      /\ NeedsColon(p) => start[2] = "col"
  BY MessagesAssumption
<1>2. Word(p) = start \o p
  BY DEF Word
<1> HIDE DEF start
<1>3. /\ start \o p \in Seq(Bytes) /\ Len(start \o p) = Len(start) + Len(p)
      /\ \A i \in 1..Len(start) : (start \o p)[i] = start[i]
      /\ \A i \in 1..Len(p) : (start \o p)[Len(start) + i] = p[i]
  <2>1. start \in Seq(Bytes) /\ p \in Seq(Bytes)
    BY <1>1
  <2> QED BY ONLY <2>1, BytesConcat
<1> DEFINE w == start \o p
<1>4. /\ w \in Seq(Bytes) /\ Len(w) = k + Len(p)
      /\ \A i \in 1..k : w[i] = start[i]
      /\ \A i \in 1..Len(p) : w[k + i] = p[i]
  BY <1>1, <1>3
<1> HIDE DEF w
<1>5. Len(p) \in Nat
  OBVIOUS
<1>6. CASE NeedsColon(p)
  <2>1. k = 2 /\ 1 \in 1..2 /\ 2 \in 1..2 /\ \A i \in 1..Len(p) : 2 + i = i + 2
    BY <1>5, <1>6
  <2>2. Len(w) = Len(p) + 2 /\ w[1] = "sp" /\ w[2] = "col"
    BY <1>1, <1>4, <1>5, <1>6, <2>1
  <2>3. \A i \in 1..Len(p) : w[i + 2] = p[i]
    BY <1>4, <2>1
  <2> QED BY <1>2, <1>4, <1>6, <2>2, <2>3 DEF w
<1>7. CASE ~NeedsColon(p)
  <2>1. k = 1 /\ 1 \in 1..1 /\ \A i \in 1..Len(p) : 1 + i = i + 1
    BY <1>5, <1>7
  <2>2. Len(w) = Len(p) + 1 /\ w[1] = "sp"
    BY <1>1, <1>4, <1>5, <2>1
  <2>3. \A i \in 1..Len(p) : w[i + 1] = p[i]
    BY <1>4, <2>1
  <2> QED BY <1>2, <1>4, <1>7, <2>2, <2>3 DEF w
<1> QED BY <1>6, <1>7

(* Where the words of a message are in s, the text of its parameters       *)
(* without the first space: word k starts at from[k], and what comes after *)
(* it starts at from[k + 1].                                               *)
Places(s, params, from) ==
    /\ from[1] = 1 /\ from[Len(params) + 1] = Len(s) + 2
    /\ \A k \in 1..Len(params) :
          LET p == params[k]
          IN  /\ from[k] \in 1..Len(s) + 1
              /\ ~NeedsColon(p) =>
                    /\ from[k + 1] = from[k] + Len(p) + 1 /\ StandsAt(s, from[k], p)
                    /\ k < Len(params) => s[from[k + 1] - 1] = "sp"
              /\ NeedsColon(p) =>
                    /\ from[k + 1] = from[k] + Len(p) + 2 /\ s[from[k]] = "col"
                    /\ StandsAt(s, from[k] + 1, p)

(* Words with their spaces in a row, all but the last one without colon,   *)
(* are taken apart into the words.                                         *)
LEMMA ParamsOfPlaces ==
    ASSUME NEW s \in Seq(Bytes), NEW params \in Seq(Seq(Bytes)), params # <<>>,
           NEW from, Places(s, params, from),
           \A i \in 1..Len(params) - 1 : ~NeedsColon(params[i])
    PROVE  ParamsFrom(s) = params
<1> DEFINE N == Len(params)
           M == Len(s)
<1>1. PICK at : /\ ParamsFrom(s) = at[1]
                /\ \A p \in 1..M + 1 : at[p] = ParamsStep(s, at, p)
  BY ParamsRecursion
<1>2. N \in Nat /\ N # 0 /\ M \in Nat /\ \A k \in 1..N : params[k] \in Seq(Bytes)
  OBVIOUS
<1>3. \A k \in 1..N : Len(params[k]) \in Nat
  BY <1>2
<1> DEFINE Right(k) == at[from[k]] = SubSeq(params, k, N)
           Bad == {d \in 0..N - 1 : ~Right(N - d)}
<1>4. ASSUME NEW k \in 1..N, ~NeedsColon(params[k]), k # N => Right(k + 1)
      PROVE  Right(k)
  <2> DEFINE p == params[k]
             f == from[k]
             e == IndexOf(s, f, "sp")
  <2>1. /\ f \in 1..M + 1 /\ from[k + 1] = f + Len(p) + 1 /\ StandsAt(s, f, p)
        /\ k < N => s[from[k + 1] - 1] = "sp"
    BY <1>4 DEF Places
  <2>2. p \in Seq(Bytes) /\ Len(p) \in Nat /\ p # <<>> /\ p[1] # "col"
        /\ \A i \in 1..Len(p) : p[i] # "sp"
    BY <1>2, <1>4 DEF NeedsColon
  <2>3. f + Len(p) <= M => k < N
    <3>1. CASE k = N
      <4>1. f + Len(p) + 1 = M + 2
        BY <2>1, <3>1 DEF Places
      <4> QED BY <1>2, <2>1, <2>2, <4>1
    <3>2. CASE k # N
      BY <1>2, <3>2
    <3> QED BY <3>1, <3>2
  <2>4. from[k + 1] - 1 = f + Len(p)
    BY <2>1, <2>2
  <2> HIDE DEF p, f, e, M, N
  <2>5. e = f + Len(p) /\ SubSeq(s, f, e - 1) = p
    BY <2>1, <2>2, <2>3, <2>4, WordAt DEF e, M
  <2>6. ~(f <= M /\ s[f] = "col")
    <3>1. 1 \in 1..Len(p) /\ f + 1 - 1 = f
      BY <2>1, <2>2
    <3>2. s[f + 1 - 1] = p[1]
      BY <2>1, <3>1 DEF StandsAt
    <3> QED BY <2>2, <3>1, <3>2
  <2>7. at[f] = <<p>> \o (IF e <= M THEN at[e + 1] ELSE <<>>)
    <3>1. at[f] = ParamsStep(s, at, f)
      BY <1>1, <2>1
    <3> QED BY <2>5, <2>6, <3>1 DEF ParamsStep, e, M
  <2>8. CASE k = N
    <3>1. ~(e <= M)
      BY <1>2, <2>3, <2>5, <2>8
    <3>2. at[f] = <<p>> \o <<>>
      BY <2>7, <3>1
    <3>3. <<p>> \in Seq(Seq(Bytes))
      BY <2>2
    <3>4. at[f] = <<p>>
      BY <3>2, <3>3, ConcatEmptySeq
    <3>5. SubSeq(params, N, N) = <<p>>
      BY <2>8, PartOfOne DEF p, N
    <3> QED BY <2>8, <3>4, <3>5 DEF f
  <2>9. CASE k # N
    <3>1. k < N
      BY <1>2, <2>9
    <3>2. e + 1 = from[k + 1] /\ e <= M
      <4>1. k + 1 \in 1..N
        BY <1>2, <3>1
      <4>2. from[k + 1] \in 1..M + 1
        BY <4>1 DEF Places, M, N
      <4> QED BY <1>2, <2>1, <2>2, <2>4, <2>5, <4>2
    <3>3. at[f] = <<p>> \o SubSeq(params, k + 1, N)
      BY <1>4, <2>7, <2>9, <3>2
    <3>4. SubSeq(params, k, k) \o SubSeq(params, k + 1, N) = SubSeq(params, k, N)
      <4>1. k \in 1..Len(params) + 1 /\ k \in k - 1..Len(params) /\ N \in k..Len(params)
        BY <1>2 DEF N
      <4> QED BY <4>1, ConcatAdjacentSubSeq
    <3>5. SubSeq(params, k, k) = <<p>>
      BY PartOfOne DEF p, N
    <3> QED BY <3>3, <3>4, <3>5 DEF f
  <2> QED BY <2>8, <2>9
<1>5. ASSUME NeedsColon(params[N]) PROVE Right(N)
  <2> DEFINE p == params[N]
             f == from[N]
  <2>1. N \in 1..N
    BY <1>2
  <2>2. /\ f \in 1..M + 1 /\ from[N + 1] = f + Len(p) + 2 /\ s[f] = "col"
        /\ StandsAt(s, f + 1, p) /\ from[N + 1] = M + 2
    BY <1>5, <2>1 DEF Places
  <2>3. p \in Seq(Bytes) /\ Len(p) \in Nat
    BY <1>2, <2>1
  <2> HIDE DEF p, f, M
  <2>4. f <= M /\ f + 1 \in 1..M + 1 /\ (f + 1) + Len(p) - 1 = M
    <3> DEFINE n == Len(p)
    <3>1. n \in Nat /\ f \in 1..M + 1 /\ M \in Nat /\ M + 2 = f + n + 2
      BY <1>2, <2>2, <2>3
    <3> HIDE DEF n
    <3>2. f <= M /\ f + 1 \in 1..M + 1 /\ (f + 1) + n - 1 = M
      BY <3>1
    <3> QED BY <3>2 DEF n
  <2>5. SubSeq(s, f + 1, (f + 1) + Len(p) - 1) = p
    BY <2>2, <2>3, <2>4, PartIs DEF M
  <2>6. at[f] = <<p>>
    <3>1. at[f] = ParamsStep(s, at, f)
      BY <1>1, <2>2
    <3> QED BY <2>2, <2>4, <2>5, <3>1 DEF ParamsStep, M
  <2>7. SubSeq(params, N, N) = <<p>>
    BY <2>1, PartOfOne DEF p
  <2> QED BY <2>6, <2>7 DEF f
<1>6. ASSUME Bad # {} PROVE FALSE
  <2>1. PICK d \in Bad : \A j \in Bad : d <= j
    <3>1. Bad \in SUBSET Nat
      BY <1>2
    <3> QED BY <1>6, <3>1, LeastNat
  <2>2. d \in 0..N - 1 /\ N - d \in 1..N
    BY <1>2, <2>1
  <2>3. CASE d = 0
    <3>1. N - d = N /\ N \in 1..N
      BY <1>2, <2>3
    <3>2. Right(N)
      BY <1>4, <1>5, <3>1
    <3> QED BY <2>1, <3>1, <3>2
  <2>4. CASE d # 0
    <3>1. /\ d - 1 \in 0..N - 1 /\ ~(d <= d - 1) /\ N - (d - 1) = (N - d) + 1
          /\ N - d \in 1..N - 1
      BY <1>2, <2>2, <2>4
    <3>2. Right((N - d) + 1)
      BY <2>1, <3>1
    <3>3. ~NeedsColon(params[N - d])
      BY <3>1
    <3>4. Right(N - d)
      BY <1>4, <2>2, <3>2, <3>3
    <3> QED BY <2>1, <3>4
  <2> QED BY <2>3, <2>4
<1>7. Right(1)
  <2>1. N - 1 \in 0..N - 1 /\ N - (N - 1) = 1
    BY <1>2
  <2>2. N - 1 \notin Bad
    BY <1>6
  <2> HIDE DEF Right, N
  <2> QED BY <2>1, <2>2
<1>8. from[1] = 1 /\ SubSeq(params, 1, N) = params
  BY WholeIsPart DEF Places
<1> QED BY <1>1, <1>7, <1>8

(* Where word k of a flattened sequence is in it.                          *)
LEMMA FlatAt ==
    ASSUME NEW seqs \in Seq(Seq(Bytes)), NEW f, Flat(f, seqs, Len(seqs)),
           NEW k \in 1..Len(seqs)
    PROVE  /\ Before(f, k - 1) \in Nat /\ Before(f, k) = Before(f, k - 1) + Len(seqs[k])
           /\ Before(f, k) \in Nat /\ Before(f, k) <= Before(f, Len(seqs))
           /\ \A i \in 1..Len(seqs[k]) : f[Len(seqs)][Before(f, k - 1) + i] = seqs[k][i]
<1> DEFINE b == Before(f, k - 1)
           c == Before(f, k)
           d == Before(f, Len(seqs))
           n == Len(seqs[k])
           x == f[k]
           y == f[Len(seqs)]
<1>1. /\ b \in Nat /\ c = b + n
      /\ \A i \in 1..n : x[b + i] = seqs[k][i]
  <2>1. /\ Before(f, k - 1) \in Nat /\ Before(f, k) = Before(f, k - 1) + Len(seqs[k])
        /\ \A i \in 1..Len(seqs[k]) : f[k][Before(f, k - 1) + i] = seqs[k][i]
    BY ONLY seqs \in Seq(Seq(Bytes)), Flat(f, seqs, Len(seqs)), k \in 1..Len(seqs), FlatStep
  <2> QED BY <2>1
<1>2. Len(seqs) \in k..Len(seqs)
  OBVIOUS
<1>3. c <= d /\ \A i \in 1..c : y[i] = x[i]
  <2>1. /\ Before(f, k) <= Before(f, Len(seqs))
        /\ \A i \in 1..Before(f, k) : f[Len(seqs)][i] = f[k][i]
    BY ONLY seqs \in Seq(Seq(Bytes)), Flat(f, seqs, Len(seqs)), k \in 1..Len(seqs), <1>2, FlatPlaces
  <2> QED BY <2>1
<1>4. n \in Nat
  OBVIOUS
<1> HIDE DEF b, c, d, n, x, y
<1>5. c \in Nat /\ \A i \in 1..n : b + i \in 1..c
  BY <1>1, <1>4
<1>6. \A i \in 1..n : y[b + i] = seqs[k][i]
  BY <1>1, <1>3, <1>5
<1> QED BY <1>1, <1>3, <1>5, <1>6 DEF b, c, d, n, y

(* ParamsFrom finds the parameters in what Format makes of them.           *)
LEMMA ParamsOfWords ==
    ASSUME NEW msg \in Messages, msg.params # <<>>
    PROVE  LET f == FlattenSeq(Words(msg))
           IN  /\ f[1] = "sp" /\ Len(f) > 1
               /\ ParamsFrom(SubSeq(f, 2, Len(f))) = msg.params
<1> DEFINE f == FlattenSeq(Words(msg))
           params == msg.params
           words == Words(msg)
           N == Len(params)
           L == Len(f)
           s == SubSeq(f, 2, L)
<1>1. /\ params \in Seq(Seq(Bytes)) /\ N \in Nat /\ N # 0
      /\ \A k \in 1..N : params[k] \in Seq(Bytes)
      /\ \A k \in 1..N - 1 : ~NeedsColon(params[k])
  BY MessagesAssumption DEF WellFormed
<1>2. /\ words \in Seq(Seq(Bytes)) /\ Len(words) = N
      /\ \A k \in 1..N : words[k] = Word(params[k])
      /\ f \in Seq(Bytes)
  BY FormatParts
<1>3. PICK g : Flat(g, words, Len(words)) /\ f = g[Len(words)]
  BY <1>1, <1>2, FlattenIsFlat
<1> DEFINE B(k) == Before(g, k)
           from == [k \in 1..N + 1 |-> B(k - 1) + 1]
<1> HIDE DEF f, params, words, N
<1>4. ASSUME NEW k \in 1..N
      PROVE  /\ B(k - 1) \in Nat /\ B(k) \in Nat /\ B(k) <= B(N)
             /\ B(k) = B(k - 1) + Len(Word(params[k]))
             /\ \A i \in 1..Len(Word(params[k])) : f[B(k - 1) + i] = Word(params[k])[i]
  <2>1. Len(words) = N
    BY <1>2
  <2>2. words \in Seq(Seq(Bytes)) /\ Flat(g, words, Len(words)) /\ k \in 1..Len(words)
    BY <1>2, <1>3
  <2>3. /\ Before(g, k - 1) \in Nat
        /\ Before(g, k) = Before(g, k - 1) + Len(words[k])
        /\ Before(g, k) \in Nat /\ Before(g, k) <= Before(g, Len(words))
        /\ \A i \in 1..Len(words[k]) : g[Len(words)][Before(g, k - 1) + i] = words[k][i]
    BY ONLY <2>2, FlatAt
  <2>4. words[k] = Word(params[k]) /\ f = g[Len(words)]
    BY <1>2, <1>3
  <2> QED BY <2>1, <2>3, <2>4
<1>5. L = B(N) /\ L \in Nat
  BY <1>1, <1>2, <1>3 DEF Before
<1>6. B(0) = 0
  BY DEF Before
<1>7. ASSUME NEW k \in 1..N
      PROVE  LET p == params[k]
             IN  /\ Len(p) \in Nat /\ B(k - 1) + 1 <= L /\ f[B(k - 1) + 1] = "sp"
                 /\ ~NeedsColon(p) =>
                       /\ B(k) = B(k - 1) + Len(p) + 1
                       /\ \A i \in 1..Len(p) : f[B(k - 1) + i + 1] = p[i]
                 /\ NeedsColon(p) =>
                       /\ B(k) = B(k - 1) + Len(p) + 2 /\ f[B(k - 1) + 2] = "col"
                       /\ \A i \in 1..Len(p) : f[B(k - 1) + i + 2] = p[i]
  <2> DEFINE p == params[k]
             w == Word(params[k])
             b == B(k - 1)
             c == B(k)
  <2>1. p \in Seq(Bytes)
    BY <1>1
  <2>2. /\ w \in Seq(Bytes) /\ w[1] = "sp"
        /\ ~NeedsColon(p) => /\ Len(w) = Len(p) + 1
                             /\ \A i \in 1..Len(p) : w[i + 1] = p[i]
        /\ NeedsColon(p) => /\ Len(w) = Len(p) + 2 /\ w[2] = "col"
                            /\ \A i \in 1..Len(p) : w[i + 2] = p[i]
    BY <2>1, WordParts
  <2>3. /\ b \in Nat /\ c \in Nat /\ c <= L /\ c = b + Len(w)
        /\ \A i \in 1..Len(w) : f[b + i] = w[i]
    BY <1>4, <1>5
  <2>4. Len(p) \in Nat
    BY <2>1
  <2> HIDE DEF p, w, b, c, L
  <2>5. CASE ~NeedsColon(p)
    <3> DEFINE m == Len(p)
               n == Len(w)
    <3>a. n = m + 1 /\ m \in Nat /\ b \in Nat /\ c \in Nat /\ L \in Nat /\ c <= L /\ c = b + n
      BY <2>2, <2>3, <2>4, <2>5, <1>5
    <3>1. Len(w) = Len(p) + 1 /\ c = b + Len(p) + 1 /\ b + 1 <= L
      <4> HIDE DEF m, n
      <4>1. n = m + 1 /\ c = b + m + 1 /\ b + 1 <= L
        BY <3>a
      <4> QED BY <4>1 DEF m, n
    <3>2. 1 \in 1..Len(w) /\ \A i \in 1..Len(p) : i + 1 \in 1..Len(w) /\ b + (i + 1) = b + i + 1
      BY <2>3, <2>4, <3>1
    <3>3. f[b + 1] = "sp" /\ \A i \in 1..Len(p) : f[b + i + 1] = p[i]
      BY <2>2, <2>3, <2>5, <3>2
    <3> QED BY <2>4, <2>5, <3>1, <3>3 DEF p, b, c
  <2>6. CASE NeedsColon(p)
    <3> DEFINE m == Len(p)
               n == Len(w)
    <3>a. n = m + 2 /\ m \in Nat /\ b \in Nat /\ c \in Nat /\ L \in Nat /\ c <= L /\ c = b + n
      BY <2>2, <2>3, <2>4, <2>6, <1>5
    <3>1. Len(w) = Len(p) + 2 /\ c = b + Len(p) + 2 /\ b + 1 <= L
      <4> HIDE DEF m, n
      <4>1. n = m + 2 /\ c = b + m + 2 /\ b + 1 <= L
        BY <3>a
      <4> QED BY <4>1 DEF m, n
    <3>2. /\ 1 \in 1..Len(w) /\ 2 \in 1..Len(w)
          /\ \A i \in 1..Len(p) : i + 2 \in 1..Len(w) /\ b + (i + 2) = b + i + 2
      BY <2>3, <2>4, <3>1
    <3>3. /\ f[b + 1] = "sp" /\ f[b + 2] = "col"
          /\ \A i \in 1..Len(p) : f[b + i + 2] = p[i]
      BY <2>2, <2>3, <2>6, <3>2
    <3> QED BY <2>4, <2>6, <3>1, <3>3 DEF p, b, c
  <2> QED BY <2>5, <2>6
<1>8. L > 1
  <2>1. 1 \in 1..N /\ 1 - 1 = 0
    BY <1>1
  <2>2. /\ ~NeedsColon(params[1]) => Len(params[1]) # 0
        /\ Len(params[1]) \in Nat /\ params[1] \in Seq(Bytes)
    BY <1>1, <2>1 DEF NeedsColon
  <2>3. /\ ~NeedsColon(params[1]) => B(1) = Len(params[1]) + 1
        /\ NeedsColon(params[1]) => B(1) = Len(params[1]) + 2
    BY <1>6, <1>7, <2>1, <2>2
  <2>4. B(1) \in Nat /\ B(1) <= L
    BY <1>4, <1>5, <2>1
  <2> HIDE DEF B, L
  <2> QED BY <1>5, <2>2, <2>3, <2>4
<1>9. s \in Seq(Bytes) /\ Len(s) = L - 1 /\ \A i \in 1..L - 1 : s[i] = f[i + 1]
  <2>1. 2 \in 1..L + 1 /\ L \in 2 - 1..L /\ L - 2 + 1 = L - 1 /\ \A i \in 1..L - 1 : 2 + i - 1 = i + 1
    BY <1>5, <1>8
  <2>2. /\ s \in Seq(Bytes) /\ Len(s) = L - 2 + 1
        /\ \A i \in 1..L - 2 + 1 : s[i] = f[2 + i - 1]
    <3>1. f \in Seq(Bytes) /\ L = Len(f)
      BY <1>2
    <3> HIDE DEF L
    <3> QED BY <2>1, <3>1, PartFacts
  <2> HIDE DEF s, L
  <2> QED BY <2>1, <2>2
<1> HIDE DEF s, L, B
<1>10. ASSUME NEW k \in 1..N
       PROVE  LET p == params[k]
              IN  /\ from[k] = B(k - 1) + 1 /\ from[k + 1] = B(k) + 1
                  /\ from[k] \in 1..Len(s) + 1
                  /\ ~NeedsColon(p) =>
                        /\ from[k + 1] = from[k] + Len(p) + 1 /\ StandsAt(s, from[k], p)
                        /\ k < N => s[from[k + 1] - 1] = "sp"
                  /\ NeedsColon(p) =>
                        /\ from[k + 1] = from[k] + Len(p) + 2 /\ s[from[k]] = "col"
                        /\ StandsAt(s, from[k] + 1, p)
  <2> DEFINE p == params[k]
             b == B(k - 1)
             c == B(k)
  <2>1. /\ Len(p) \in Nat /\ b \in Nat /\ c \in Nat /\ c <= L /\ b + 1 <= L
        /\ ~NeedsColon(p) => /\ c = b + Len(p) + 1
                             /\ \A i \in 1..Len(p) : f[b + i + 1] = p[i]
        /\ NeedsColon(p) => /\ c = b + Len(p) + 2 /\ f[b + 2] = "col"
                            /\ \A i \in 1..Len(p) : f[b + i + 2] = p[i]
    BY <1>4, <1>5, <1>7
  <2>2. k \in 1..N + 1 /\ k + 1 \in 1..N + 1 /\ (k + 1) - 1 = k
    BY <1>1
  <2>3. from[k] = b + 1 /\ from[k + 1] = c + 1
    BY <2>2
  <2>4. k < N => c + 1 <= L /\ f[c + 1] = "sp"
    <3> SUFFICES ASSUME k < N PROVE c + 1 <= L /\ f[c + 1] = "sp"
      OBVIOUS
    <3>1. k + 1 \in 1..N
      BY <1>1
    <3> QED BY <1>7, <2>2, <3>1
  <2> HIDE DEF p, b, c, from
  <2>5. from[k] \in 1..Len(s) + 1
    BY <1>5, <1>9, <2>1, <2>3
  <2>6. CASE ~NeedsColon(p)
    <3>1. from[k + 1] = from[k] + Len(p) + 1 /\ from[k] + Len(p) <= Len(s) + 1
      BY <1>5, <1>9, <2>1, <2>3, <2>6
    <3>2. ASSUME NEW i \in 1..Len(p) PROVE s[from[k] + i - 1] = p[i]
      <4>1. from[k] + i - 1 = b + i /\ b + i \in 1..L - 1
        BY <1>5, <2>1, <2>3, <2>6
      <4>2. s[b + i] = f[b + i + 1]
        BY <1>9, <4>1
      <4> QED BY <2>1, <2>6, <4>1, <4>2
    <3>3. ASSUME k < N PROVE s[from[k + 1] - 1] = "sp"
      <4>1. from[k + 1] - 1 = c /\ c \in 1..L - 1
        BY <1>5, <2>1, <2>3, <2>4, <2>6, <3>3
      <4> QED BY <1>9, <2>4, <3>3, <4>1
    <3> QED BY <2>3, <2>5, <2>6, <3>1, <3>2, <3>3 DEF StandsAt, p, b, c
  <2>7. CASE NeedsColon(p)
    <3>1. /\ from[k + 1] = from[k] + Len(p) + 2
          /\ (from[k] + 1) + Len(p) <= Len(s) + 1 /\ from[k] \in 1..L - 1
          /\ from[k] + 1 = b + 2
      <4> DEFINE m == Len(p)
                 h == Len(s)
                 x == from[k]
                 y == from[k + 1]
      <4>1. /\ m \in Nat /\ b \in Nat /\ c \in Nat /\ L \in Nat /\ c <= L /\ h = L - 1
            /\ c = b + m + 2 /\ x = b + 1 /\ y = c + 1
        BY <1>5, <1>9, <2>1, <2>3, <2>7
      <4> HIDE DEF m, h, x, y
      <4>2. y = x + m + 2 /\ (x + 1) + m <= h + 1
        BY <4>1
      <4>3. x \in 1..L - 1 /\ x + 1 = b + 2
        BY <4>1
      <4> QED BY <4>2, <4>3 DEF m, h, x, y
    <3>2. ASSUME NEW i \in 1..Len(p) PROVE s[(from[k] + 1) + i - 1] = p[i]
      <4>1. (from[k] + 1) + i - 1 = b + i + 1 /\ b + i + 1 \in 1..L - 1 /\ (b + i + 1) + 1 = b + i + 2
        <5> DEFINE m == Len(p)
                   x == from[k]
        <5>1. /\ m \in Nat /\ b \in Nat /\ c \in Nat /\ L \in Nat /\ c <= L
              /\ c = b + m + 2 /\ x = b + 1 /\ i \in 1..m
          BY <1>5, <2>1, <2>3, <2>7
        <5> HIDE DEF m, x
        <5>2. (x + 1) + i - 1 = b + i + 1 /\ (b + i + 1) + 1 = b + i + 2
          BY <5>1
        <5>3. b + i + 1 \in 1..L - 1
          BY <5>1
        <5> QED BY <5>2, <5>3 DEF x
      <4>2. s[b + i + 1] = f[(b + i + 1) + 1]
        BY <1>9, <4>1
      <4> QED BY <2>1, <2>7, <4>1, <4>2
    <3>3. s[from[k]] = "col"
      BY <1>9, <2>1, <2>7, <3>1
    <3> QED BY <2>3, <2>5, <2>7, <3>1, <3>2, <3>3 DEF StandsAt, p, b, c
  <2> QED BY <2>6, <2>7
<1>11. from[1] = 1 /\ from[N + 1] = Len(s) + 2
  <2>1. 1 \in 1..N + 1 /\ N + 1 \in 1..N + 1 /\ 1 - 1 = 0 /\ (N + 1) - 1 = N
    BY <1>1
  <2>2. from[1] = B(0) + 1 /\ from[N + 1] = B(N) + 1
    BY <2>1
  <2> QED BY <1>5, <1>6, <1>9, <2>2
<1> HIDE DEF from
<1>12. Places(s, params, from)
  BY <1>10, <1>11 DEF Places, N
<1>13. params # <<>> /\ \A i \in 1..Len(params) - 1 : ~NeedsColon(params[i])
  BY <1>1 DEF params, N
<1>14. ParamsFrom(s) = params
  BY <1>1, <1>9, <1>12, <1>13, ParamsOfPlaces
<1>15. f[1] = "sp"
  <2>1. 1 \in 1..N /\ 1 - 1 = 0
    BY <1>1
  <2>2. f[B(0) + 1] = "sp"
    BY <1>7, <2>1
  <2> QED BY <1>6, <2>2
<1> QED BY <1>8, <1>14, <1>15 DEF s, params, f, L

(* What follows s in s \o t.                                               *)
LEMMA AfterConcat ==
    ASSUME NEW s \in Seq(Bytes), NEW t \in Seq(Bytes), NEW k \in 1..Len(t) + 1
    PROVE  SubSeq(s \o t, Len(s) + k, Len(s \o t)) = SubSeq(t, k, Len(t))
<1> DEFINE u == s \o t
           a == Len(s)
           b == Len(t)
           x == SubSeq(u, a + k, a + b)
           y == SubSeq(t, k, b)
<1>1. /\ u \in Seq(Bytes) /\ Len(u) = a + b /\ a \in Nat /\ b \in Nat
      /\ \A i \in 1..b : u[a + i] = t[i]
  BY BytesConcat
<1> HIDE DEF u
<1>2. y \in Seq(Bytes) /\ Len(y) = b - k + 1 /\ \A i \in 1..b - k + 1 : y[i] = t[k + i - 1]
  <2>1. k \in 1..Len(t) + 1 /\ Len(t) \in (k - 1)..Len(t) /\ t \in Seq(Bytes)
    OBVIOUS
  <2> QED BY ONLY <2>1, PartFacts DEF b, y
<1>3. /\ x \in Seq(Bytes) /\ Len(x) = (a + b) - (a + k) + 1
      /\ \A i \in 1..(a + b) - (a + k) + 1 : x[i] = u[(a + k) + i - 1]
  <2>1. (a + k) \in 1..Len(u) + 1 /\ a + b \in ((a + k) - 1)..Len(u) /\ u \in Seq(Bytes)
    BY <1>1
  <2> QED BY ONLY <2>1, PartFacts DEF x
<1> HIDE DEF a, b, x, y
<1>4. (a + b) - (a + k) + 1 = b - k + 1
  BY <1>1
<1>5. ASSUME NEW i \in 1..b - k + 1 PROVE x[i] = y[i]
  <2>1. (a + k) + i - 1 = a + (k + i - 1) /\ k + i - 1 \in 1..b
    BY <1>1 DEF b
  <2> QED BY <1>1, <1>2, <1>3, <1>4, <2>1
<1>6. x = y
  BY <1>2, <1>3, <1>4, <1>5, SeqEqual
<1> QED BY <1>1, <1>6 DEF x, y, u, a, b

(* The command and the text of the parameters are found in what is after   *)
(* the prefix.                                                             *)
LEMMA CommandFound ==
    ASSUME NEW msg \in Messages
    PROVE  LET f == FlattenSeq(Words(msg))
               rest == msg.rawCmd \o f
           IN  /\ rest \in Seq(Bytes)
               /\ rest # <<>> /\ rest[1] # "col"
               /\ SubSeq(rest, 1, IndexOf(rest, 1, "sp") - 1) = msg.rawCmd
               /\ AfterWord(rest, 1) = IF msg.params = <<>> THEN <<>>
                                       ELSE SubSeq(f, 2, Len(f))
<1> DEFINE f == FlattenSeq(Words(msg))
           c == msg.rawCmd
           rest == c \o f
           n == Len(c)
<1>1. /\ c \in Seq(Bytes) /\ c # <<>> /\ c[1] # "col" /\ \A i \in 1..Len(c) : c[i] # "sp"
  BY MessagesAssumption DEF WellFormed, NeedsColon
<1>2. f \in Seq(Bytes)
  BY FormatParts
<1>3. msg.params = <<>> => f = <<>>
  <2> SUFFICES ASSUME msg.params = <<>> PROVE f = <<>>
    OBVIOUS
  <2>1. Len(msg.params) = 0
    OBVIOUS
  <2>2. Words(msg) \in Seq(Seq(Bytes)) /\ Len(Words(msg)) = 0
    BY <2>1, FormatParts
  <2> QED BY <2>2 DEF FlattenSeq
<1>4. msg.params # <<>> => f[1] = "sp" /\ Len(f) > 1
  BY ParamsOfWords
<1> HIDE DEF f, c
<1>5. /\ rest \in Seq(Bytes) /\ Len(rest) = n + Len(f)
      /\ \A i \in 1..n : rest[i] = c[i]
      /\ \A i \in 1..Len(f) : rest[n + i] = f[i]
  BY <1>1, <1>2, BytesConcat
<1> HIDE DEF rest
<1>6. n \in Nat /\ n # 0 /\ Len(f) \in Nat /\ Len(rest) \in Nat
  BY <1>1, <1>2, <1>5
<1>7. StandsAt(rest, 1, c)
  <2>1. 1 + n <= Len(rest) + 1 /\ \A i \in 1..n : 1 + i - 1 = i
    BY <1>5, <1>6
  <2> QED BY <1>5, <2>1 DEF StandsAt
<1>8. 1 + n <= Len(rest) => rest[1 + n] = "sp"
  <2> SUFFICES ASSUME 1 + n <= Len(rest) PROVE rest[1 + n] = "sp"
    OBVIOUS
  <2>1. Len(f) # 0 /\ 1 \in 1..Len(f) /\ 1 + n = n + 1
    BY <1>5, <1>6
  <2>2. msg.params # <<>>
    BY <1>3, <2>1
  <2> QED BY <1>4, <1>5, <2>1, <2>2
<1>9. 1 \in 1..Len(rest) + 1
  BY <1>6
<1>10. /\ IndexOf(rest, 1, "sp") = 1 + n
       /\ SubSeq(rest, 1, IndexOf(rest, 1, "sp") - 1) = c
  <2>1. /\ rest \in Seq(Bytes) /\ 1 \in 1..Len(rest) + 1 /\ c \in Seq(Bytes)
        /\ StandsAt(rest, 1, c) /\ \A i \in 1..Len(c) : c[i] # "sp"
        /\ 1 + Len(c) <= Len(rest) => rest[1 + Len(c)] = "sp"
    BY <1>1, <1>5, <1>7, <1>8, <1>9
  <2> QED BY ONLY <2>1, WordAt DEF n
<1>11. AfterWord(rest, 1) = SubSeq(rest, n + 2, Len(rest))
  <2>1. 1 + n + 1 = n + 2
    BY <1>6
  <2> QED BY <1>10, <2>1 DEF AfterWord
<1> DEFINE after == IF msg.params = <<>> THEN <<>> ELSE SubSeq(f, 2, Len(f))
<1>12. ASSUME msg.params = <<>> PROVE AfterWord(rest, 1) = after
  <2>1. Len(rest) = n
    BY <1>3, <1>5, <1>6, <1>12
  <2>2. SubSeq(rest, n + 2, n) = <<>>
    <3>1. n + 2 \in Int /\ n \in Int /\ n < n + 2
      BY <1>6
    <3> QED BY <3>1, SubSeqEmpty
  <2> QED BY <1>11, <1>12, <2>1, <2>2
<1>13. ASSUME msg.params # <<>> PROVE AfterWord(rest, 1) = after
  <2>1. SubSeq(rest, n + 2, Len(rest)) = SubSeq(f, 2, Len(f))
    <3>1. c \in Seq(Bytes) /\ f \in Seq(Bytes) /\ 2 \in 1..Len(f) + 1
      BY <1>1, <1>2, <1>4, <1>6, <1>13
    <3> QED BY ONLY <3>1, AfterConcat DEF rest, n
  <2> QED BY <1>11, <1>13, <2>1
<1>14. AfterWord(rest, 1) = after
  BY <1>12, <1>13
<1>15. rest # <<>> /\ rest[1] # "col"
  <2>1. 1 \in 1..n /\ Len(rest) # 0
    BY <1>5, <1>6
  <2> QED BY <1>1, <1>5, <2>1
<1> HIDE DEF after
<1>16. /\ rest \in Seq(Bytes) /\ rest # <<>> /\ rest[1] # "col"
       /\ SubSeq(rest, 1, IndexOf(rest, 1, "sp") - 1) = c
       /\ AfterWord(rest, 1) = after
  BY <1>5, <1>10, <1>14, <1>15
<1> QED BY <1>16 DEF after, rest, c, f

(* The prefix, with the colon before it and the space after it.            *)
LEMMA PrefixParts ==
    ASSUME NEW msg \in Messages, msg.prefix # NoPrefix
    PROVE  LET t == PrefixText(msg)
               p == msg.prefix
           IN  /\ p \in Seq(Bytes) /\ p # <<>> /\ \A i \in 1..Len(p) : p[i] # "sp"
               /\ t \in Seq(Bytes) /\ Len(t) = Len(p) + 2
               /\ t[1] = "col" /\ t[Len(p) + 2] = "sp"
               /\ \A i \in 1..Len(p) : t[i + 1] = p[i]
<1> DEFINE t == PrefixText(msg)
           p == msg.prefix
           a == <<"col">>
           b == <<"sp">>
           ap == a \o p
           n == Len(p)
<1>1. p \in Seq(Bytes) /\ p # <<>> /\ \A i \in 1..Len(p) : p[i] # "sp"
  BY MessagesAssumption DEF WellFormed, Range
<1>2. /\ a \in Seq(Bytes) /\ Len(a) = 1 /\ a[1] = "col"
      /\ b \in Seq(Bytes) /\ Len(b) = 1 /\ b[1] = "sp"
  BY MessagesAssumption
<1>3. t = ap \o b
  BY DEF PrefixText
<1> HIDE DEF t, p, a, b
<1>4. /\ ap \in Seq(Bytes) /\ Len(ap) = Len(a) + Len(p)
      /\ \A i \in 1..Len(a) : ap[i] = a[i]
      /\ \A i \in 1..Len(p) : ap[Len(a) + i] = p[i]
  BY <1>1, <1>2, BytesConcat
<1> HIDE DEF ap
<1>5. /\ ap \o b \in Seq(Bytes) /\ Len(ap \o b) = Len(ap) + Len(b)
      /\ \A i \in 1..Len(ap) : (ap \o b)[i] = ap[i]
      /\ \A i \in 1..Len(b) : (ap \o b)[Len(ap) + i] = b[i]
  BY <1>2, <1>4, BytesConcat
<1>6. n \in Nat
  BY <1>1
<1> HIDE DEF n
<1>7. Len(a) + n = n + 1 /\ Len(ap) = n + 1 /\ Len(t) = n + 2
  BY <1>2, <1>3, <1>4, <1>5, <1>6 DEF n
<1>8. t[1] = "col"
  <2>1. 1 \in 1..n + 1 /\ 1 \in 1..1
    BY <1>6
  <2> QED BY <1>2, <1>3, <1>4, <1>5, <1>7, <2>1
<1>9. t[n + 2] = "sp"
  <2>1. (n + 1) + 1 = n + 2 /\ 1 \in 1..1
    BY <1>6
  <2> QED BY <1>2, <1>3, <1>5, <1>7, <2>1
<1>10. ASSUME NEW i \in 1..n PROVE t[i + 1] = p[i]
  <2>1. i + 1 \in 1..n + 1 /\ 1 + i = i + 1
    BY <1>6
  <2>2. ap[i + 1] = p[i]
    BY <1>2, <1>4, <2>1 DEF n
  <2> QED BY <1>3, <1>5, <1>7, <2>1, <2>2
<1> QED BY <1>1, <1>3, <1>5, <1>7, <1>8, <1>9, <1>10 DEF t, p, n
(* Formatting and parsing change nothing.                                  *)
LEMMA ParseFormat ==
    ASSUME NEW msg \in Messages
    PROVE  LET parsed == Parse(Format(msg))
           IN  /\ parsed.prefix = msg.prefix /\ parsed.rawCmd = msg.rawCmd
               /\ parsed.params = msg.params
<1> DEFINE t == PrefixText(msg)
           c == msg.rawCmd
           f == FlattenSeq(Words(msg))
           rest == c \o f
           line == Format(msg)
           params == IF msg.params = <<>> THEN <<>> ELSE SubSeq(f, 2, Len(f))
<1>1. /\ t \in Seq(Bytes) /\ c \in Seq(Bytes) /\ f \in Seq(Bytes)
      /\ line = (t \o c) \o f
  BY FormatParts, MessagesAssumption
<1>2. /\ rest \in Seq(Bytes) /\ rest # <<>> /\ rest[1] # "col"
      /\ SubSeq(rest, 1, IndexOf(rest, 1, "sp") - 1) = c
      /\ AfterWord(rest, 1) = params
  BY CommandFound
<1>3. (IF params = <<>> THEN <<>> ELSE ParamsFrom(params)) = msg.params
  <2>1. CASE msg.params = <<>>
    BY <2>1
  <2>2. CASE msg.params # <<>>
    <3>1. Len(f) > 1 /\ ParamsFrom(SubSeq(f, 2, Len(f))) = msg.params
      BY <2>2, ParamsOfWords
    <3>2. SubSeq(f, 2, Len(f)) # <<>>
      <4>1. 2 \in 1..Len(f) + 1 /\ Len(f) \in (2 - 1)..Len(f) /\ f \in Seq(Bytes)
        BY <1>1, <3>1
      <4>2. Len(SubSeq(f, 2, Len(f))) = Len(f) - 2 + 1
        BY ONLY <4>1, PartFacts
      <4>3. Len(f) - 2 + 1 # 0
        BY <1>1, <3>1
      <4> QED BY <4>2, <4>3
    <3> QED BY <2>2, <3>1, <3>2
  <2> QED BY <2>1, <2>2
<1>4. line = t \o rest
  <2> HIDE DEF t, c, f
  <2>1. (t \o c) \o f = t \o (c \o f)
    <3>1. t \in Seq(Bytes) /\ c \in Seq(Bytes) /\ f \in Seq(Bytes)
      BY <1>1
    <3> QED BY ONLY <3>1, BytesAssociative
  <2> QED BY <1>1, <2>1
<1> DEFINE prefixed == line[1] = "col"
           prefix == SubSeq(line, 2, IndexOf(line, 2, "sp") - 1)
           after == IF prefixed THEN AfterWord(line, 2) ELSE line
           read == IF prefixed /\ prefix # <<>> THEN prefix ELSE NoPrefix
<1>5. /\ after = rest => /\ Parse(line).rawCmd = c /\ Parse(line).params = msg.params
      /\ Parse(line).prefix = read
  <2>1. /\ Parse(line).prefix = read
        /\ Parse(line).rawCmd = SubSeq(after, 1, IndexOf(after, 1, "sp") - 1)
        /\ Parse(line).params = IF AfterWord(after, 1) = <<>> THEN <<>>
                                ELSE ParamsFrom(AfterWord(after, 1))
    BY DEF Parse
  <2> HIDE DEF after, read, rest, params, c, line
  <2> QED BY <1>2, <1>3, <2>1
<1>6. after = rest /\ read = msg.prefix
  <2>1. CASE msg.prefix = NoPrefix
    <3>1. t = <<>>
      BY <2>1 DEF PrefixText
    <3> HIDE DEF t, rest, line
    <3>2. line = rest
      BY <1>2, <1>4, <3>1, ConcatEmptySeq
    <3> QED BY <1>2, <2>1, <3>2
  <2>2. CASE msg.prefix # NoPrefix
    <3> DEFINE p == msg.prefix
               n == Len(p)
    <3>1. /\ p \in Seq(Bytes) /\ p # <<>> /\ \A i \in 1..Len(p) : p[i] # "sp"
          /\ Len(t) = Len(p) + 2 /\ t[1] = "col" /\ t[Len(p) + 2] = "sp"
          /\ \A i \in 1..Len(p) : t[i + 1] = p[i]
      BY <2>2, PrefixParts
    <3> HIDE DEF t, rest, line, p
    <3>2. /\ line \in Seq(Bytes) /\ Len(line) = Len(t) + Len(rest)
          /\ \A i \in 1..Len(t) : line[i] = t[i]
      <4>1. t \in Seq(Bytes) /\ rest \in Seq(Bytes)
        BY <1>1, <1>2
      <4>2. /\ t \o rest \in Seq(Bytes) /\ Len(t \o rest) = Len(t) + Len(rest)
            /\ \A i \in 1..Len(t) : (t \o rest)[i] = t[i]
        BY ONLY <4>1, BytesConcat
      <4> QED BY <1>4, <4>2
    <3>3. n \in Nat /\ Len(rest) \in Nat /\ Len(t) = n + 2
      BY <1>2, <3>1
    <3> HIDE DEF n
    <3>4. prefixed
      <4>1. 1 \in 1..Len(t)
        BY <3>3
      <4> QED BY <3>1, <3>2, <4>1
    <3>5. StandsAt(line, 2, p)
      <4>1. 2 + n <= Len(line) + 1
        BY <3>2, <3>3
      <4>2. ASSUME NEW i \in 1..n PROVE line[2 + i - 1] = p[i]
        <5>1. 2 + i - 1 = i + 1 /\ i + 1 \in 1..Len(t)
          BY <3>3
        <5> QED BY <3>1, <3>2, <5>1 DEF n
      <4> QED BY <4>1, <4>2 DEF StandsAt, n
    <3>6. line[2 + n] = "sp"
      <4>1. 2 + n = n + 2 /\ n + 2 \in 1..Len(t)
        BY <3>3
      <4> QED BY <3>1, <3>2, <4>1 DEF n
    <3>7. IndexOf(line, 2, "sp") = 2 + n /\ prefix = p
      <4>1. /\ line \in Seq(Bytes) /\ 2 \in 1..Len(line) + 1 /\ p \in Seq(Bytes)
            /\ StandsAt(line, 2, p) /\ \A i \in 1..Len(p) : p[i] # "sp"
            /\ 2 + Len(p) <= Len(line) => line[2 + Len(p)] = "sp"
        BY <3>1, <3>2, <3>3, <3>5, <3>6 DEF n
      <4> QED BY ONLY <4>1, WordAt DEF prefix, n
    <3>8. AfterWord(line, 2) = rest
      <4>1. 2 + n + 1 = Len(t) + 1
        BY <3>3
      <4>2. AfterWord(line, 2) = SubSeq(t \o rest, Len(t) + 1, Len(t \o rest))
        BY <1>4, <3>7, <4>1 DEF AfterWord
      <4>3. t \in Seq(Bytes) /\ rest \in Seq(Bytes) /\ 1 \in 1..Len(rest) + 1
        BY <1>1, <1>2, <3>3
      <4>4. SubSeq(t \o rest, Len(t) + 1, Len(t \o rest)) = SubSeq(rest, 1, Len(rest))
        BY ONLY <4>3, AfterConcat
      <4> QED BY <4>2, <4>3, <4>4, WholeIsPart
    <3> HIDE DEF prefix, prefixed
    <3> QED BY <3>1, <3>4, <3>7, <3>8 DEF p
  <2> QED BY <2>1, <2>2
<1> QED BY <1>5, <1>6

(* Nothing is handled that was not sent, and what is sent and was not      *)
(* discarded is handled once all of it was received.                       *)
LEMMA FaithfulOK == RecvInv /\ Transported => Faithful
<1> SUFFICES ASSUME RecvInv, Transported PROVE Faithful
  OBVIOUS
<1>1. CommandsNamed
  BY RecvInvNames
<1> SUFFICES ASSUME whole
             PROVE  /\ Len(got) <= Len(sent)
                    /\ wire = <<>> => Len(got) = Len(sent)
                    /\ \A i \in DOMAIN got, f \in {"prefix", "rawCmd", "params"} :
                          got[i][f] = sent[i][f]
  BY <1>1 DEF Faithful
<1> DEFINE s == stream \o wire
           n == Len(stream)
           x == Scan(stream)[n].lines
           y == Scan(s)[Len(s)].lines
<1>2. /\ stream \in Seq(Bytes) /\ wire \in Seq(Bytes) /\ sent \in Seq(Messages)
      /\ got = ParsedLines(x)
  BY DEF RecvInv, Framed
<1>3. y = Formatted(sent)
  BY DEF Transported
<1>4. /\ s \in Seq(Bytes) /\ Len(s) = n + Len(wire)
      /\ \A i \in 1..n : s[i] = stream[i]
  BY <1>2, BytesConcat
<1>5. n \in Nat /\ Len(wire) \in Nat /\ x \in Seq(Seq(Bytes))
  BY <1>2, ScanRecursion DEF ScanStates
<1> HIDE DEF s
<1>6. n \in 0..n /\ n \in 0..Len(stream) /\ n <= Len(s) /\ n \in 0..Len(s)
  BY <1>4, <1>5
<1>7. Scan(stream)[n] = Scan(s)[n]
  <2>1. \A i \in 0..n : Scan(stream)[i] = Scan(s)[i]
    BY <1>2, <1>4, <1>6, ScanAgrees
  <2> QED BY <1>6, <2>1
<1>8. IsPrefixOf(x, y)
  BY <1>4, <1>6, <1>7, LinesGrow
<1>9. wire = <<>> => x = y
  BY <1>2, <1>3, <1>7, ConcatEmptySeq DEF s
<1>10. DOMAIN sent = 1..Len(sent) /\ Len(sent) \in Nat /\ y = [i \in 1..Len(sent) |-> Format(sent[i])]
  BY <1>2, <1>3 DEF Formatted
<1> HIDE DEF x, y, n
<1>11. Len(y) = Len(sent) /\ Len(x) \in Nat
  <2>1. \A i \in 1..Len(sent) : Format(sent[i]) \in Seq(Bytes)
    BY <1>2, FormatFacts
  <2>2. y \in Seq(Seq(Bytes))
    BY <1>10, <2>1
  <2> QED BY <1>5, <1>10, <2>2
<1>12. DOMAIN got = 1..Len(x) /\ Len(got) = Len(x) /\ \A i \in 1..Len(x) : got[i] = Parse(x[i])
  BY <1>2, <1>5 DEF ParsedLines
<1>13. ASSUME NEW i \in 1..Len(x)
       PROVE  /\ got[i].prefix = sent[i].prefix /\ got[i].rawCmd = sent[i].rawCmd
              /\ got[i].params = sent[i].params
  <2>1. i \in 1..Len(sent) /\ x[i] = y[i]
    BY <1>8, <1>11 DEF IsPrefixOf
  <2>2. got[i] = Parse(Format(sent[i])) /\ sent[i] \in Messages
    BY <1>2, <1>10, <1>12, <2>1
  <2> QED BY <2>2, ParseFormat
<1> QED BY <1>8, <1>9, <1>11, <1>12, <1>13 DEF IsPrefixOf

(* connDataReceived and IrcMessage_create: every message of a network that *)
(* keeps to WellFormed is handled as it was meant, in order and without    *)
(* one missing, as long as nothing is discarded, whatever the reads.       *)
THEOREM FaithfulTheorem == RecvSpec => []Faithful
<1>1. RecvInit => Transported
  BY TransportedInit
<1>2. RecvInv /\ RecvInv' /\ Transported /\ [RecvNext]_recvVars => Transported'
  BY TransportedNext
<1>3. RecvInv /\ Transported => Faithful
  BY FaithfulOK
<1> QED BY <1>1, <1>2, <1>3, RecvInvariance, PTL DEF RecvSpec
=============================================================================
