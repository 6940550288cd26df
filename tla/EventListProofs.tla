-------------------------- MODULE EventListProofs --------------------------
(***************************************************************************)
(* What registering and unregistering do to how often a handler is         *)
(* registered, for lists of any length.                                    *)
(***************************************************************************)
EXTENDS EventList, FiniteSetTheorems, WellFoundedInduction, TLAPS

LEMMA LeastNat ==
    ASSUME NEW S \in SUBSET Nat, S # {}
    PROVE  \E x \in S : \A y \in S : x <= y
<1> DEFINE R == OpToRel(<, Nat)
<1>1. IsWellFoundedOn(R, Nat)
  BY NatLessThanWellFounded, Zenon
<1>2. \A x, y \in Nat : x < y => <<x, y>> \in R
  BY DEF OpToRel
<1> HIDE DEF R
<1>3. PICK x \in S : \A y \in S : ~(<<y, x>> \in R)
  BY <1>1, WFMin
<1>4. \A y \in S : ~(y < x)
  BY <1>2, <1>3
<1>5. \A y \in S : x <= y
  BY <1>4
<1> QED BY <1>5

-----------------------------------------------------------------------------
(* LiveUpTo is defined by recursion: a function that satisfies the         *)
(* recursion on 0..n exists for every n.                                   *)

(* What the recursion says about entry n.                                  *)
Unfolds(f, list, n) ==
    f[n] = IF n = 0 THEN <<>>
           ELSE IF list[n] = "gone" THEN f[n - 1]
           ELSE Append(f[n - 1], list[n])

HasPrefix(list, n) ==
    \E f : f = [i \in 0..n |-> f[i]] /\ \A i \in 0..n : Unfolds(f, list, i)

LEMMA PrefixExtends ==
    ASSUME NEW list, NEW n \in Nat, HasPrefix(list, n)
    PROVE  HasPrefix(list, n + 1)
<1>1. PICK f : /\ f = [i \in 0..n |-> f[i]]
               /\ \A i \in 0..n : Unfolds(f, list, i)
  BY DEF HasPrefix
<1> DEFINE v == IF list[n + 1] = "gone" THEN f[n] ELSE Append(f[n], list[n + 1])
           g == [i \in 0..(n + 1) |-> IF i = n + 1 THEN v ELSE f[i]]
<1>2. g[n + 1] = v /\ (n + 1) - 1 = n /\ n + 1 # 0
  OBVIOUS
<1>3. \A i \in 0..n : g[i] = f[i]
  OBVIOUS
<1>4. g = [i \in 0..(n + 1) |-> g[i]]
  OBVIOUS
<1>5. Unfolds(g, list, n + 1)
  <2>1. g[(n + 1) - 1] = f[n]
    BY <1>3
  <2> QED BY <1>2, <2>1 DEF Unfolds
<1> HIDE DEF g, v
<1>6. \A i \in 0..n : Unfolds(g, list, i)
  <2> SUFFICES ASSUME NEW i \in 0..n PROVE Unfolds(g, list, i)
    OBVIOUS
  <2>1. Unfolds(f, list, i) /\ g[i] = f[i]
    BY <1>1, <1>3
  <2>2. CASE i = 0
    BY <2>1, <2>2 DEF Unfolds
  <2>3. CASE i # 0
    <3>1. g[i - 1] = f[i - 1]
      BY <1>3, <2>3
    <3> QED BY <2>1, <2>3, <3>1 DEF Unfolds
  <2> QED BY <2>2, <2>3
<1>7. \A i \in 0..(n + 1) : i \in 0..n \/ i = n + 1
  OBVIOUS
<1>8. \A i \in 0..(n + 1) : Unfolds(g, list, i)
  BY <1>5, <1>6, <1>7
<1> QED BY <1>4, <1>8 DEF HasPrefix

LEMMA PrefixExists ==
    ASSUME NEW list, NEW n \in Nat
    PROVE  HasPrefix(list, n)
<1> DEFINE Bad == {k \in Nat : ~HasPrefix(list, k)}
<1>1. HasPrefix(list, 0)
  <2> DEFINE f == [i \in 0..0 |-> <<>>]
  <2>1. f = [i \in 0..0 |-> f[i]] /\ \A i \in 0..0 : Unfolds(f, list, i)
    BY DEF Unfolds
  <2> QED BY <2>1 DEF HasPrefix
<1>2. SUFFICES ASSUME Bad # {} PROVE FALSE
  OBVIOUS
<1>3. PICK k \in Bad : \A j \in Bad : k <= j
  BY <1>2, LeastNat
<1>4. k \in Nat \ {0}
  BY <1>1
<1>5. k - 1 \in Nat /\ ~(k - 1 \in Bad) /\ (k - 1) + 1 = k
  BY <1>3, <1>4
<1> QED BY <1>3, <1>5, PrefixExtends

(* LiveUpTo(list) satisfies its recursion.                                 *)
LEMMA LiveUnfolds ==
    ASSUME NEW S, NEW list \in Seq(S), NEW n \in 0..Len(list)
    PROVE  Unfolds(LiveUpTo(list), list, n)
<1> DEFINE N == Len(list)
           Def(f) == [i \in 0..N |->
                        IF i = 0 THEN <<>>
                        ELSE IF list[i] = "gone" THEN f[i - 1]
                        ELSE Append(f[i - 1], list[i])]
<1>1. PICK f : /\ f = [i \in 0..N |-> f[i]]
               /\ \A i \in 0..N : Unfolds(f, list, i)
  <2>1. N \in Nat
    OBVIOUS
  <2> HIDE DEF N
  <2>2. HasPrefix(list, N)
    BY <2>1, PrefixExists
  <2> QED BY <2>2 DEF HasPrefix
<1>2. f = Def(f)
  BY <1>1 DEF Unfolds
<1>3. LiveUpTo(list) = CHOOSE g : g = Def(g)
  BY DEF LiveUpTo
<1>4. LiveUpTo(list) = Def(LiveUpTo(list))
  BY <1>2, <1>3
<1> QED BY <1>4 DEF Unfolds
-----------------------------------------------------------------------------
(* Counting.                                                               *)

One(p) == IF p THEN 1 ELSE 0

(* How often h is among the first n entries.                               *)
Among(list, n, h) == Cardinality({i \in 1..n : list[i] = h})

LEMMA AmongType ==
    ASSUME NEW list, NEW n \in Nat, NEW h
    PROVE  Among(list, n, h) \in Nat /\ Among(list, 0, h) = 0
<1>1. IsFiniteSet(1..n)
  BY FS_Interval
<1>2. IsFiniteSet({i \in 1..n : list[i] = h})
  BY <1>1, FS_Subset
<1>3. {i \in 1..0 : list[i] = h} = {}
  OBVIOUS
<1> QED BY <1>2, <1>3, FS_CardinalityType, FS_EmptySet DEF Among

LEMMA AmongNext ==
    ASSUME NEW list, NEW n \in Nat, NEW h
    PROVE  Among(list, n + 1, h) = Among(list, n, h) + One(list[n + 1] = h)
<1> DEFINE A == {i \in 1..n : list[i] = h}
           B == {i \in 1..(n + 1) : list[i] = h}
<1>1. IsFiniteSet(1..n)
  BY FS_Interval
<1>2. IsFiniteSet(A)
  BY <1>1, FS_Subset
<1>3. CASE list[n + 1] = h
  <2>1. B = A \cup {n + 1} /\ n + 1 \notin A
    BY <1>3
  <2> HIDE DEF A, B
  <2>2. Cardinality(B) = Cardinality(A) + 1
    BY <1>2, <2>1, FS_AddElement
  <2> QED BY <1>3, <2>2 DEF Among, One, A, B
<1>4. CASE list[n + 1] # h
  <2>1. B = A
    BY <1>4
  <2>2. Cardinality(A) \in Nat
    BY <1>2, FS_CardinalityType
  <2> QED BY <1>4, <2>1, <2>2 DEF Among, One
<1> QED BY <1>3, <1>4

LEMMA RegisteredAmong ==
    ASSUME NEW S, NEW list \in Seq(S), NEW h
    PROVE  Registered(list, h) = Among(list, Len(list), h)
<1>1. DOMAIN list = 1..Len(list)
  OBVIOUS
<1> QED BY <1>1 DEF Registered, Among

LEMMA AmongSame ==
    ASSUME NEW l, NEW m, NEW n \in Nat, NEW h,
           \A i \in 1..n : l[i] = m[i]
    PROVE  Among(l, n, h) = Among(m, n, h)
<1>1. {i \in 1..n : l[i] = h} = {i \in 1..n : m[i] = h}
  OBVIOUS
<1> QED BY <1>1 DEF Among

LEMMA RegisteredAppend ==
    ASSUME NEW S, NEW list \in Seq(S), NEW e \in S, NEW h
    PROVE  /\ Append(list, e) \in Seq(S)
           /\ Registered(Append(list, e), h) = Registered(list, h) + One(e = h)
<1> DEFINE m == Append(list, e)
           n == Len(list)
<1>1. n \in Nat /\ m \in Seq(S) /\ Len(m) = n + 1 /\ m[n + 1] = e
  OBVIOUS
<1>2. \A i \in 1..n : m[i] = list[i]
  OBVIOUS
<1> HIDE DEF m, n
<1>3. Among(m, n + 1, h) = Among(list, n, h) + One(e = h)
  BY <1>1, <1>2, AmongNext, AmongSame
<1>4. Registered(m, h) = Among(m, n + 1, h)
  BY <1>1, RegisteredAmong
<1>5. Registered(list, h) = Among(list, n, h)
  BY RegisteredAmong DEF n
<1> QED BY <1>1, <1>3, <1>4, <1>5 DEF m

(* The first n entries that are live, and how often each is among them.    *)
LiveCorrect(S, list, n) ==
    /\ LiveUpTo(list)[n] \in Seq(S)
    /\ \A h \in S \ {"gone"} :
           Registered(LiveUpTo(list)[n], h) = Among(list, n, h)

LEMMA LiveIsCorrect ==
    ASSUME NEW S, NEW list \in Seq(S), NEW n \in 0..Len(list)
    PROVE  LiveCorrect(S, list, n)
<1> DEFINE Bad == {k \in 0..Len(list) : ~LiveCorrect(S, list, k)}
           L == LiveUpTo(list)
<1>1. LiveCorrect(S, list, 0)
  <2>1. L[0] = <<>>
    <3>1. 0 \in 0..Len(list)
      OBVIOUS
    <3>2. Unfolds(L, list, 0)
      BY <3>1, LiveUnfolds
    <3> QED BY <3>2 DEF Unfolds
  <2>2. <<>> \in Seq(S) /\ \A h : Registered(<<>>, h) = 0
    BY FS_EmptySet DEF Registered
  <2>3. \A h : Among(list, 0, h) = 0
    BY AmongType
  <2> QED BY <2>1, <2>2, <2>3 DEF LiveCorrect
<1>2. SUFFICES ASSUME Bad # {} PROVE FALSE
  OBVIOUS
<1>3. PICK k \in Bad : \A j \in Bad : k <= j
  <2>1. Bad \in SUBSET Nat
    OBVIOUS
  <2> QED BY <1>2, <2>1, LeastNat
<1>4. k \in Nat \ {0} /\ k \in 0..Len(list)
  BY <1>1
<1>5. k - 1 \in 0..Len(list) /\ k - 1 \in Nat /\ ~(k - 1 \in Bad) /\ (k - 1) + 1 = k
  BY <1>3, <1>4
<1>6. LiveCorrect(S, list, k - 1)
  BY <1>5
<1>7. LiveCorrect(S, list, k)
  <2>1. \A h : Among(list, k, h) = Among(list, k - 1, h) + One(list[k] = h)
    BY <1>5, AmongNext
  <2>2. \A h : Among(list, k - 1, h) \in Nat
    BY <1>5, AmongType
  <2>3. Unfolds(L, list, k)
    BY <1>4, LiveUnfolds
  <2>4. list[k] \in S
    BY <1>4
  <2>5. CASE list[k] = "gone"
    <3>1. L[k] = L[k - 1]
      BY <1>4, <2>3, <2>5 DEF Unfolds
    <3>2. \A h \in S \ {"gone"} : Among(list, k, h) = Among(list, k - 1, h)
      BY <2>1, <2>2, <2>5 DEF One
    <3> QED BY <1>6, <3>1, <3>2 DEF LiveCorrect
  <2>6. CASE list[k] # "gone"
    <3>1. L[k] = Append(L[k - 1], list[k])
      BY <1>4, <2>3, <2>6 DEF Unfolds
    <3>2. L[k - 1] \in Seq(S)
      BY <1>6 DEF LiveCorrect
    <3>3. L[k] \in Seq(S)
      BY <2>4, <3>1, <3>2, RegisteredAppend
    <3>4. \A h : Registered(L[k], h) = Registered(L[k - 1], h) + One(list[k] = h)
      BY <2>4, <3>1, <3>2, RegisteredAppend
    <3> QED BY <1>6, <2>1, <3>3, <3>4 DEF LiveCorrect
  <2> QED BY <2>5, <2>6
<1> QED BY <1>3, <1>7

(* Event_register keeps every handler that is registered, as often as it   *)
(* is, and adds one.                                                       *)
THEOREM RegisterCounts ==
    ASSUME NEW S, NEW list \in Seq(S), NEW h \in S
    PROVE  /\ Register(list, h) \in Seq(S)
           /\ \A g \in S \ {"gone"} :
                 Registered(Register(list, h), g)
                    = Registered(list, g) + One(h = g)
<1> DEFINE m == LiveUpTo(list)[Len(list)]
<1>1. LiveCorrect(S, list, Len(list))
  BY LiveIsCorrect
<1>2. m \in Seq(S) /\ \A g \in S \ {"gone"} : Registered(m, g) = Registered(list, g)
  BY <1>1, RegisteredAmong DEF LiveCorrect
<1> HIDE DEF m
<1>3. /\ Append(m, h) \in Seq(S)
      /\ \A g : Registered(Append(m, h), g) = Registered(m, g) + One(h = g)
  BY <1>2, RegisteredAppend
<1> QED BY <1>2, <1>3 DEF Register, m

LEMMA RegisteredType ==
    ASSUME NEW S, NEW list \in Seq(S), NEW h
    PROVE  Registered(list, h) \in Nat
BY RegisteredAmong, AmongType

(* Event_unregister takes one registration of the handler away, if there   *)
(* is one, and none of another.                                            *)
THEOREM UnregisterCounts ==
    ASSUME NEW S, "gone" \in S, NEW list \in Seq(S), NEW h \in S \ {"gone"}
    PROVE  /\ Unregister(list, h) \in Seq(S)
           /\ Len(Unregister(list, h)) = Len(list)
           /\ \A g \in S \ {"gone"} :
                 Registered(Unregister(list, h), g)
                    = IF g = h /\ Registered(list, h) > 0
                      THEN Registered(list, g) - 1 ELSE Registered(list, g)
<1> DEFINE F(g) == {i \in DOMAIN list : list[i] = g}
           u == Unregister(list, h)
           G(g) == {i \in DOMAIN u : u[i] = g}
<1>1. /\ u \in Seq(S) /\ Len(u) = Len(list) /\ DOMAIN u = DOMAIN list
      /\ \A i \in DOMAIN list : u[i] = IF i \in F(h) /\ \A k \in F(h) : i <= k THEN "gone" ELSE list[i]
  BY DEF Unregister
<1>2. \A g : IsFiniteSet(F(g)) /\ F(g) \in SUBSET Nat
  <2>1. DOMAIN list = 1..Len(list) /\ Len(list) \in Nat
    OBVIOUS
  <2>2. IsFiniteSet(1..Len(list))
    BY <2>1, FS_Interval
  <2> QED BY <2>1, <2>2, FS_Subset
<1>3. \A g : Registered(list, g) = Cardinality(F(g)) /\ Registered(u, g) = Cardinality(G(g))
  BY DEF Registered
<1>4. \A g \in S \ {"gone", h} : G(g) = F(g)
  BY <1>1
<1>5. CASE F(h) = {}
  <2>1. G(h) = F(h)
    BY <1>1, <1>5
  <2>2. Registered(list, h) = 0
    BY <1>3, <1>5, FS_EmptySet
  <2> QED BY <1>1, <1>3, <1>4, <2>1, <2>2
<1>6. CASE F(h) # {}
  <2>1. PICK x \in F(h) : \A y \in F(h) : x <= y
    BY <1>2, <1>6, LeastNat
  <2>2. G(h) = F(h) \ {x}
    <3>1. \A i \in F(h) : (\A k \in F(h) : i <= k) <=> i = x
      BY <1>2, <2>1
    <3>2. \A i \in DOMAIN list : u[i] = IF i = x THEN "gone" ELSE list[i]
      BY <1>1, <2>1, <3>1
    <3> QED BY <1>1, <2>1, <3>2
  <2>3. Cardinality(F(h)) \in Nat /\ Cardinality(F(h)) > 0 /\ Cardinality(F(h) \ {x}) = Cardinality(F(h)) - 1
    <3>1. Cardinality(F(h)) # 0 /\ Cardinality(F(h)) \in Nat
      BY <1>2, <1>6, FS_EmptySet, FS_CardinalityType
    <3>2. Cardinality(F(h) \ {x}) = Cardinality(F(h)) - 1
      BY <1>2, <2>1, FS_RemoveElement
    <3> QED BY <3>1, <3>2
  <2> HIDE DEF F, G, u
  <2>4. Registered(list, h) > 0 /\ Registered(u, h) = Registered(list, h) - 1
    BY <1>3, <2>2, <2>3
  <2>5. \A g \in S \ {"gone", h} : Registered(u, g) = Registered(list, g)
    BY <1>3, <1>4
  <2> QED BY <1>1, <2>4, <2>5 DEF u
<1> QED BY <1>5, <1>6

(* A handler at some position of a list is registered; one that is         *)
(* registered at most once is at most at one.                              *)
LEMMA RegisteredAt ==
    ASSUME NEW S, NEW list \in Seq(S), NEW i \in DOMAIN list
    PROVE  Registered(list, list[i]) >= 1
<1> DEFINE F == {k \in DOMAIN list : list[k] = list[i]}
<1>1. IsFiniteSet(1..Len(list)) /\ DOMAIN list = 1..Len(list)
  BY FS_Interval
<1>2. IsFiniteSet(F) /\ F # {}
  BY <1>1, FS_Subset
<1>3. Cardinality(F) \in Nat /\ Cardinality(F) # 0
  BY <1>2, FS_CardinalityType, FS_EmptySet
<1> QED BY <1>3 DEF Registered

LEMMA RegisteredOnce ==
    ASSUME NEW S, NEW list \in Seq(S), NEW i \in DOMAIN list,
           NEW j \in DOMAIN list, list[i] = list[j],
           Registered(list, list[i]) <= 1
    PROVE  i = j
<1> DEFINE F == {k \in DOMAIN list : list[k] = list[i]}
           G == F \ {i}
<1> SUFFICES ASSUME i # j PROVE FALSE
  OBVIOUS
<1>1. IsFiniteSet(1..Len(list)) /\ DOMAIN list = 1..Len(list)
  BY FS_Interval
<1>2. IsFiniteSet(F) /\ i \in F /\ j \in G
  BY <1>1, FS_Subset
<1> HIDE DEF F
<1>3. IsFiniteSet(G) /\ Cardinality(G) = Cardinality(F) - 1
  BY <1>2, FS_RemoveElement
<1>4. Cardinality(G) \in Nat /\ Cardinality(G) # 0
  BY <1>2, <1>3, FS_CardinalityType, FS_EmptySet
<1>5. Cardinality(F) \in Nat
  BY <1>2, FS_CardinalityType
<1>6. Cardinality(F) = Registered(list, list[i])
  BY DEF F, Registered
<1> QED BY <1>3, <1>4, <1>5, <1>6

(* Event_register puts the handler last.                                   *)
LEMMA RegisterLast ==
    ASSUME NEW S, NEW list \in Seq(S), NEW h \in S
    PROVE  LET m == Register(list, h)
           IN  /\ Len(m) \in DOMAIN m /\ m[Len(m)] = h
               /\ \A i \in DOMAIN m : i <= Len(m)
<1>1. LiveCorrect(S, list, Len(list))
  BY LiveIsCorrect
<1>2. LiveUpTo(list)[Len(list)] \in Seq(S)
  BY <1>1 DEF LiveCorrect
<1> QED BY <1>2 DEF Register

(* Event_unregister moves no handler.                                      *)
LEMMA UnregisterKeeps ==
    ASSUME NEW S, NEW list \in Seq(S), NEW h
    PROVE  /\ DOMAIN Unregister(list, h) = DOMAIN list
           /\ \A i \in DOMAIN list :
                 Unregister(list, h)[i] \in {"gone", list[i]}
BY DEF Unregister
=============================================================================
