---------------------------- MODULE FdSetsProofs ----------------------------
(***************************************************************************)
(* Proofs about FdSets, for any number of servers and descriptors: what    *)
(* each registration does to the sets and counters, then what every        *)
(* handler and the loop do to who is registered.                           *)
(***************************************************************************)
EXTENDS FdSets, FiniteSetTheorems, WellFoundedInduction, TLAPS

(* The lowest descriptor of a set, from the order of Nat being well        *)
(* founded.                                                                *)
LEMMA MinExists ==
    ASSUME NEW S \in SUBSET Nat, S # {}
    PROVE  \E x \in S : \A y \in S : x <= y
<1> DEFINE R == OpToRel(<, Nat)
<1>1. IsWellFoundedOn(R, Nat)
  BY NatLessThanWellFounded, Zenon
<1>2. \A x, y \in Nat : x < y => <<x, y>> \in R
  BY DEF OpToRel
<1> HIDE DEF R
<1>3. PICK x \in S : \A y \in S : ~(<<y, x>> \in R)
  BY <1>1, WFMin
<1>4. \A y \in S : ~(y < x)
  BY <1>2, <1>3
<1>5. \A y \in S : x <= y
  BY <1>4
<1> QED BY <1>5

LEMMA MinType ==
    ASSUME NEW S \in SUBSET Nat, S # {}
    PROVE  Min(S) \in S
BY MinExists DEF Min

(* A set of descriptors and of NoFd has a greatest element.                *)
LEMMA MaxExists ==
    ASSUME NEW S \in SUBSET (Fds \cup {NoFd}), S # {}
    PROVE  \E x \in S : \A y \in S : x >= y
<1> DEFINE T == {MaxFd - x : x \in S}
<1>1. \A x \in S : MaxFd - x \in Nat
  BY FdAssumption DEF Fds, NoFd
<1>2. T \in SUBSET Nat /\ T # {}
  BY <1>1
<1>3. PICK t \in T : \A u \in T : t <= u
  BY <1>2, MinExists
<1>4. PICK x \in S : t = MaxFd - x
  BY <1>3
<1>5. \A y \in S : MaxFd - x <= MaxFd - y
  BY <1>3, <1>4
<1>6. MaxFd \in Int /\ \A y \in S : y \in Int
  BY FdAssumption DEF Fds, NoFd
<1>7. \A y \in S : x >= y
  BY <1>5, <1>6
<1> QED BY <1>7

LEMMA MaxType ==
    ASSUME NEW S \in SUBSET Fds
    PROVE  Max(S \cup {NoFd}) \in S \cup {NoFd} /\ Max(S \cup {NoFd}) \in Int
<1> DEFINE m == Max(S \cup {NoFd})
<1>1. \E x \in S \cup {NoFd} : \A y \in S \cup {NoFd} : x >= y
  BY MaxExists
<1>2. m \in S \cup {NoFd}
  BY <1>1 DEF Max
<1> HIDE DEF m
<1>3. m \in Int
  BY <1>2, FdAssumption DEF Fds, NoFd
<1> QED BY <1>2, <1>3 DEF m

(* What Max is, once there is a greatest element.                          *)
LEMMA MaxIs ==
    ASSUME NEW S \in SUBSET (Fds \cup {NoFd}), S # {}, NEW m
    PROVE  m = Max(S) <=> m \in S /\ \A y \in S : m >= y
<1>1. \A x, y \in S : x >= y /\ y >= x => x = y
  BY FdAssumption DEF Fds, NoFd
<1>2. Max(S) \in S /\ \A y \in S : Max(S) >= y
  BY MaxExists DEF Max
<1> QED BY <1>1, <1>2

-----------------------------------------------------------------------------
(* The registrations.                                                      *)

(* n is one more than the highest descriptor of S, 0 if there is none.     *)
Top(n, S) == n - 1 \in S \cup {NoFd} /\ \A y \in S \cup {NoFd} : n - 1 >= y

LEMMA TopIsMax ==
    ASSUME NEW S \in SUBSET Fds, NEW n \in Int
    PROVE  Top(n, S) <=> n = Max(S \cup {NoFd}) + 1
<1> DEFINE m == Max(S \cup {NoFd})
<1>1. m \in Int
  BY MaxType
<1>2. Top(n, S) <=> n - 1 = m
  BY MaxIs DEF Top
<1> HIDE DEF m
<1>3. n - 1 = m <=> n = m + 1
  BY <1>1
<1> QED BY <1>2, <1>3 DEF m

(* There are at most MaxFd + 1 descriptors in a set.                       *)
LEMMA FdsFinite ==
    ASSUME NEW S \in SUBSET Fds
    PROVE  IsFiniteSet(S) /\ Cardinality(S) \in 0..MaxFd+1
<1>1. IsFiniteSet(Fds) /\ Cardinality(Fds) = MaxFd + 1
  BY FS_Interval, FdAssumption DEF Fds
<1>2. IsFiniteSet(S) /\ Cardinality(S) <= MaxFd + 1
  BY <1>1, FS_Subset
<1>3. Cardinality(S) \in Nat
  BY <1>2, FS_CardinalityType
<1> QED BY <1>2, <1>3, FdAssumption

(* The fields of the service agree with each other.                        *)
Fields == [read : SUBSET Fds, write : SUBSET Fds,
           nread : Int, nwrite : Int, nfds : Int]
Counted(f) ==
    /\ f \in Fields
    /\ f.nread = Cardinality(f.read)
    /\ f.nwrite = Cardinality(f.write)
Good(f) == Counted(f) /\ Top(f.nfds, f.read \cup f.write)

LEMMA FieldsKept ==
    ASSUME NEW f \in Fields, NEW S \in SUBSET Fds, NEW k \in Int, NEW n \in Int
    PROVE  /\ [f EXCEPT !.read = S, !.nread = k] \in Fields
           /\ [f EXCEPT !.read = S, !.nread = k, !.nfds = n] \in Fields
           /\ [f EXCEPT !.write = S, !.nwrite = k] \in Fields
           /\ [f EXCEPT !.write = S, !.nwrite = k, !.nfds = n] \in Fields
BY DEF Fields

(* tryReduceNfds finds the highest descriptor once id is gone.             *)
LEMMA Reduces ==
    ASSUME NEW f, Counted(f), NEW id \in Fds, NEW S \in SUBSET Fds,
           Top(f.nfds, S), f.read \cup f.write \subseteq S,
           S \subseteq f.read \cup f.write \cup {id}
    PROVE  /\ Good(tryReduceNfds(f, id))
           /\ tryReduceNfds(f, id).read = f.read
           /\ tryReduceNfds(f, id).write = f.write
<1> DEFINE rest == f.read \cup f.write
           found == Max({fd \in rest : fd <= id} \cup {NoFd}) + 1
<1>1. rest \in SUBSET Fds /\ f.nfds \in Int /\ id \in Int
  BY FdAssumption DEF Counted, Fields, Fds
<1>2. CASE f.nread = 0 /\ f.nwrite = 0
  <2>1. f.read = {} /\ f.write = {}
    BY <1>2, FdsFinite, FS_EmptySet DEF Counted, Fields
  <2>2. Top(0, {})
    BY DEF Top, NoFd
  <2>3. tryReduceNfds(f, id) = [f EXCEPT !.nfds = 0]
    BY <1>2 DEF tryReduceNfds
  <2> QED BY <2>1, <2>2, <2>3 DEF Good, Counted, Fields
<1>3. CASE ~(f.nread = 0 /\ f.nwrite = 0) /\ id + 1 < f.nfds
  <2>1. tryReduceNfds(f, id) = f
    BY <1>3 DEF tryReduceNfds
  <2>2. Top(f.nfds, rest)
    <3>1. f.nfds - 1 # id
      BY <1>1, <1>3
    <3> QED BY <3>1 DEF Top
  <2> QED BY <2>1, <2>2 DEF Good
<1>4. CASE ~(f.nread = 0 /\ f.nwrite = 0) /\ ~(id + 1 < f.nfds)
  <2>1. tryReduceNfds(f, id) = [f EXCEPT !.nfds = found]
    BY <1>4 DEF tryReduceNfds
  <2>2. {fd \in rest : fd <= id} = rest
    <3> SUFFICES ASSUME NEW fd \in rest
                 PROVE  fd <= id
      OBVIOUS
    <3>1. fd \in Int /\ f.nfds - 1 >= fd
      BY <1>1, FdAssumption DEF Top, Fds
    <3> QED BY <1>1, <1>4, <3>1
  <2>3. found = Max(rest \cup {NoFd}) + 1
    BY <2>2
  <2>4. found \in Int
    <3>1. Max(rest \cup {NoFd}) \in Int
      BY <1>1, MaxType
    <3> QED BY <2>3, <3>1
  <2>5. Top(found, rest)
    BY <1>1, <2>3, <2>4, TopIsMax
  <2> HIDE DEF found
  <2> QED BY <2>1, <2>4, <2>5 DEF Good, Counted, Fields
<1> QED BY <1>2, <1>3, <1>4

LEMMA RegisterReads ==
    ASSUME NEW f, Good(f), NEW id \in Fds
    PROVE  /\ Good(registerRead(f, id))
           /\ registerRead(f, id).read = f.read \cup {id}
           /\ registerRead(f, id).write = f.write
<1>1. CASE id \in f.read
  BY <1>1 DEF registerRead, Good, Counted, Fields
<1>2. CASE id \notin f.read
  <2> DEFINE g == registerRead(f, id)
  <2>1. g = [f EXCEPT !.read = @ \cup {id}, !.nread = @ + 1,
                      !.nfds = IF id >= @ THEN id + 1 ELSE @]
    BY <1>2 DEF registerRead
  <2>2. Cardinality(f.read \cup {id}) = f.nread + 1
    BY <1>2, FdsFinite, FS_AddElement DEF Good, Counted, Fields
  <2>3. id \in Int /\ f.nfds \in Int
    BY FdAssumption DEF Good, Counted, Fields, Fds
  <2>4. g.read = f.read \cup {id} /\ g.write = f.write
    BY <2>1 DEF Good, Counted, Fields
  <2>5. g.nfds = IF id >= f.nfds THEN id + 1 ELSE f.nfds
    BY <2>1 DEF Good, Counted, Fields
  <2>6. Counted(g)
    <3>1. g \in Fields
      <4> DEFINE n == IF id >= f.nfds THEN id + 1 ELSE f.nfds
      <4>1. /\ f \in Fields /\ f.read \cup {id} \in SUBSET Fds
            /\ f.nread + 1 \in Int /\ n \in Int
        BY <2>3 DEF Good, Counted, Fields
      <4>2. g = [f EXCEPT !.read = f.read \cup {id}, !.nread = f.nread + 1,
                          !.nfds = n]
        BY <2>1
      <4> HIDE DEF n, g
      <4> QED BY <4>1, <4>2, FieldsKept
    <3>2. g.nread = f.nread + 1 /\ g.nwrite = f.nwrite
      BY <2>1 DEF Good, Counted, Fields
    <3> HIDE DEF g
    <3> QED BY <2>2, <2>4, <3>1, <3>2 DEF Good, Counted, Fields
  <2> HIDE DEF g
  <2>7. Top(g.nfds, g.read \cup g.write)
    <3>1. \A y \in f.read \cup f.write \cup {NoFd} : y \in Int
      BY FdAssumption DEF Good, Counted, Fields, Fds, NoFd
    <3> QED BY <2>3, <2>4, <2>5, <3>1 DEF Good, Top, Fds, NoFd
  <2> QED BY <2>4, <2>6, <2>7 DEF Good, g
<1> QED BY <1>1, <1>2

LEMMA RegisterWrites ==
    ASSUME NEW f, Good(f), NEW id \in Fds
    PROVE  /\ Good(registerWrite(f, id))
           /\ registerWrite(f, id).read = f.read
           /\ registerWrite(f, id).write = f.write \cup {id}
<1>1. CASE id \in f.write
  BY <1>1 DEF registerWrite, Good, Counted
<1>2. CASE id \notin f.write
  <2> DEFINE g == registerWrite(f, id)
  <2>1. g = [f EXCEPT !.write = @ \cup {id}, !.nwrite = @ + 1,
                      !.nfds = IF id >= @ THEN id + 1 ELSE @]
    BY <1>2 DEF registerWrite
  <2>2. Cardinality(f.write \cup {id}) = f.nwrite + 1
    BY <1>2, FdsFinite, FS_AddElement DEF Good, Counted, Fields
  <2>3. id \in Int /\ f.nfds \in Int
    BY FdAssumption DEF Good, Counted, Fields, Fds
  <2>4. g.read = f.read /\ g.write = f.write \cup {id}
    BY <2>1 DEF Good, Counted, Fields
  <2>5. g.nfds = IF id >= f.nfds THEN id + 1 ELSE f.nfds
    BY <2>1 DEF Good, Counted, Fields
  <2>6. Counted(g)
    <3>1. g \in Fields
      <4> DEFINE n == IF id >= f.nfds THEN id + 1 ELSE f.nfds
      <4>1. /\ f \in Fields /\ f.write \cup {id} \in SUBSET Fds
            /\ f.nwrite + 1 \in Int /\ n \in Int
        BY <2>3 DEF Good, Counted, Fields
      <4>2. g = [f EXCEPT !.write = f.write \cup {id}, !.nwrite = f.nwrite + 1,
                          !.nfds = n]
        BY <2>1
      <4> HIDE DEF n, g
      <4> QED BY <4>1, <4>2, FieldsKept
    <3>2. g.nwrite = f.nwrite + 1 /\ g.nread = f.nread
      BY <2>1 DEF Good, Counted, Fields
    <3> HIDE DEF g
    <3> QED BY <2>2, <2>4, <3>1, <3>2 DEF Good, Counted, Fields
  <2> HIDE DEF g
  <2>7. Top(g.nfds, g.read \cup g.write)
    <3>1. \A y \in f.read \cup f.write \cup {NoFd} : y \in Int
      BY FdAssumption DEF Good, Counted, Fields, Fds, NoFd
    <3> QED BY <2>3, <2>4, <2>5, <3>1 DEF Good, Top, Fds, NoFd
  <2> QED BY <2>4, <2>6, <2>7 DEF Good, g
<1> QED BY <1>1, <1>2

LEMMA UnregisterReads ==
    ASSUME NEW f, Good(f), NEW id \in Fds
    PROVE  /\ Good(unregisterRead(f, id))
           /\ unregisterRead(f, id).read = f.read \ {id}
           /\ unregisterRead(f, id).write = f.write
<1>1. CASE id \notin f.read
  BY <1>1 DEF unregisterRead, Good, Counted, Fields
<1>2. CASE id \in f.read
  <2> DEFINE g == [f EXCEPT !.read = @ \ {id}, !.nread = @ - 1]
  <2>1. unregisterRead(f, id) = tryReduceNfds(g, id)
    BY <1>2 DEF unregisterRead
  <2>2. Cardinality(f.read \ {id}) = f.nread - 1
    BY <1>2, FdsFinite, FS_RemoveElement DEF Good, Counted, Fields
  <2>3. g.read = f.read \ {id} /\ g.write = f.write /\ g.nfds = f.nfds
    BY DEF Good, Counted, Fields
  <2>4. Counted(g)
    <3>1. g \in Fields
      <4>1. f \in Fields /\ f.read \ {id} \in SUBSET Fds /\ f.nread - 1 \in Int
        BY DEF Good, Counted, Fields
      <4> QED BY <4>1, FieldsKept
    <3>2. g.nread = f.nread - 1 /\ g.nwrite = f.nwrite
      BY DEF Good, Counted, Fields
    <3> HIDE DEF g
    <3> QED BY <2>2, <2>3, <3>1, <3>2 DEF Good, Counted, Fields
  <2> HIDE DEF g
  <2>5. f.read \cup f.write \in SUBSET Fds /\ Top(g.nfds, f.read \cup f.write)
    BY <2>3 DEF Good, Counted, Fields
  <2>6. Good(tryReduceNfds(g, id)) /\ tryReduceNfds(g, id).read = g.read
          /\ tryReduceNfds(g, id).write = g.write
    BY <2>3, <2>4, <2>5, Reduces
  <2> QED BY <2>1, <2>3, <2>6
<1> QED BY <1>1, <1>2

LEMMA UnregisterWrites ==
    ASSUME NEW f, Good(f), NEW id \in Fds
    PROVE  /\ Good(unregisterWrite(f, id))
           /\ unregisterWrite(f, id).read = f.read
           /\ unregisterWrite(f, id).write = f.write \ {id}
<1>1. CASE id \notin f.write
  BY <1>1 DEF unregisterWrite, Good, Counted
<1>2. CASE id \in f.write
  <2> DEFINE g == [f EXCEPT !.write = @ \ {id}, !.nwrite = @ - 1]
  <2>1. unregisterWrite(f, id) = tryReduceNfds(g, id)
    BY <1>2 DEF unregisterWrite
  <2>2. Cardinality(f.write \ {id}) = f.nwrite - 1
    BY <1>2, FdsFinite, FS_RemoveElement DEF Good, Counted, Fields
  <2>3. g.read = f.read /\ g.write = f.write \ {id} /\ g.nfds = f.nfds
    BY DEF Good, Counted, Fields
  <2>4. Counted(g)
    <3>1. g \in Fields
      <4>1. f \in Fields /\ f.write \ {id} \in SUBSET Fds /\ f.nwrite - 1 \in Int
        BY DEF Good, Counted, Fields
      <4> QED BY <4>1, FieldsKept
    <3>2. g.nwrite = f.nwrite - 1 /\ g.nread = f.nread
      BY DEF Good, Counted, Fields
    <3> HIDE DEF g
    <3> QED BY <2>2, <2>3, <3>1, <3>2 DEF Good, Counted, Fields
  <2> HIDE DEF g
  <2>5. f.read \cup f.write \in SUBSET Fds /\ Top(g.nfds, f.read \cup f.write)
    BY <2>3 DEF Good, Counted, Fields
  <2>6. Good(tryReduceNfds(g, id)) /\ tryReduceNfds(g, id).read = g.read
          /\ tryReduceNfds(g, id).write = g.write
    BY <2>3, <2>4, <2>5, Reduces
  <2> QED BY <2>1, <2>3, <2>6
<1> QED BY <1>1, <1>2

-----------------------------------------------------------------------------
(* The inductive invariant.                                                *)

(* CountsExact, what the service keeps and the rest.                       *)
FdsOK ==
    /\ readfds \subseteq Fds /\ writefds \subseteq Fds
    /\ nread \in 0..MaxFd+1 /\ nwrite \in 0..MaxFd+1 /\ nfds \in 0..MaxFd+1
    /\ nread = Cardinality(readfds)
    /\ nwrite = Cardinality(writefds)
    /\ nfds = Max(readfds \cup writefds \cup {NoFd}) + 1
Places ==
    /\ conn \in [Servers -> ConnType \cup {NoConn}]
    /\ dying \subseteq Fds
    /\ round \in {"wait", "tick", "ready", "shutdown"}
    /\ w \subseteq Fds /\ r \subseteq Fds
    /\ shared \subseteq Servers

(* Who is registered has a connection, or had one until this round.        *)
Held ==
    \A fd \in readfds \cup writefds :
        fd \in dying \/ \E s \in Servers : conn[s] # NoConn /\ conn[s].fd = fd

(* Descriptors of connections differ, and one that is also the descriptor  *)
(* of a connection to be destroyed is known to be shared.                  *)
Distinct ==
    \A s, t \in Servers :
        conn[s] # NoConn /\ conn[t] # NoConn /\ conn[s].fd = conn[t].fd => s = t
Sharing ==
    \A s \in Servers : conn[s] # NoConn /\ conn[s].fd \in dying => s \in shared

(* Watched, in every round.                                                *)
Watching ==
    \A s \in Servers :
        conn[s] # NoConn /\ s \notin shared =>
            /\ conn[s].fd \in writefds <=> WantsWrite(conn[s])
            /\ ~conn[s].connecting => conn[s].fd \in readfds

IndInv == FdsOK /\ Places /\ Held /\ Distinct /\ Sharing /\ Watching

(* A connection has a descriptor.                                          *)
LEMMA ConnFd ==
    /\ NoConn.fd \notin Fds
    /\ \A c \in ConnType : c # NoConn /\ c.fd \in Fds
BY FdAssumption DEF NoConn, ConnType, NoFd, Fds

(* The variables of the service as a record, and back.                     *)
LEMMA StateGood ==
    ASSUME FdsOK
    PROVE  Good(State) /\ State.read = readfds /\ State.write = writefds
<1>1. State \in Fields
  BY FdAssumption DEF State, Fields, FdsOK
<1>2. Top(nfds, readfds \cup writefds)
  BY TopIsMax DEF FdsOK
<1> QED BY <1>1, <1>2 DEF Good, Counted, State, FdsOK

LEMMA BecomesGood ==
    ASSUME NEW f, Good(f), Becomes(f)
    PROVE  FdsOK' /\ readfds' = f.read /\ writefds' = f.write
<1>1. f.read \in SUBSET Fds /\ f.write \in SUBSET Fds /\ f.nfds \in Int
  BY DEF Good, Counted, Fields
<1>2. f.nread \in 0..MaxFd+1 /\ f.nwrite \in 0..MaxFd+1
  BY <1>1, FdsFinite DEF Good, Counted
<1>3. f.nfds \in 0..MaxFd+1
  BY <1>1, FdAssumption DEF Good, Top, Fds, NoFd
<1>4. f.nfds = Max(f.read \cup f.write \cup {NoFd}) + 1
  BY <1>1, TopIsMax DEF Good
<1> QED BY <1>1, <1>2, <1>3, <1>4 DEF Becomes, FdsOK, Good, Counted

(* What wantreadwrite registers.                                           *)
LEMMA Wanted ==
    ASSUME NEW f, Good(f), NEW c \in ConnType
    PROVE  /\ Good(wantreadwrite(f, c))
           /\ wantreadwrite(f, c).read = f.read \cup {c.fd}
           /\ wantreadwrite(f, c).write =
                 IF WantsWrite(c) THEN f.write \cup {c.fd} ELSE f.write \ {c.fd}
<1> DEFINE h == IF WantsWrite(c) THEN registerWrite(f, c.fd)
                ELSE unregisterWrite(f, c.fd)
<1>1. c.fd \in Fds
  BY ConnFd
<1>2. /\ Good(h) /\ h.read = f.read
      /\ h.write = IF WantsWrite(c) THEN f.write \cup {c.fd} ELSE f.write \ {c.fd}
  BY <1>1, RegisterWrites, UnregisterWrites
<1>3. wantreadwrite(f, c) = registerRead(h, c.fd)
  BY DEF wantreadwrite
<1> HIDE DEF h
<1> QED BY <1>1, <1>2, <1>3, RegisterReads

-----------------------------------------------------------------------------
(* Every action preserves it.                                              *)

(* The connection of s registers for what it waits for now.                *)
LEMMA UpdatePreserves ==
    ASSUME IndInv, NEW s \in Servers, conn[s] # NoConn,
           NEW c \in ConnType, c.fd = conn[s].fd, Update(s, c),
           w' \subseteq Fds, r' \subseteq Fds
    PROVE  IndInv'
<1> USE DEF IndInv
<1>1. /\ FdsOK' /\ readfds' = readfds \cup {c.fd}
      /\ writefds' = IF WantsWrite(c) THEN writefds \cup {c.fd}
                     ELSE writefds \ {c.fd}
  <2> DEFINE g == wantreadwrite(State, c)
  <2>1. /\ Good(g) /\ g.read = readfds \cup {c.fd}
        /\ g.write = IF WantsWrite(c) THEN writefds \cup {c.fd}
                     ELSE writefds \ {c.fd}
    <3>1. Good(State) /\ State.read = readfds /\ State.write = writefds
      BY StateGood
    <3>2. Good(g) /\ g.read = State.read \cup {c.fd}
      BY <3>1, Wanted
    <3>3. g.write = IF WantsWrite(c) THEN State.write \cup {c.fd}
                    ELSE State.write \ {c.fd}
      BY <3>1, Wanted
    <3> QED BY <3>1, <3>2, <3>3
  <2>2. Becomes(g)
    BY DEF Update
  <2> HIDE DEF g
  <2> QED BY <2>1, <2>2, BecomesGood
<1>2. c # NoConn /\ \A t \in Servers : conn'[t] = IF t = s THEN c ELSE conn[t]
  BY ConnFd DEF Update, Places
<1>3. Places'
  BY DEF Places, Update
<1>4. Held'
  BY <1>1, <1>2 DEF Held, Update
<1>5. Distinct'
  BY <1>2 DEF Distinct
<1>6. Sharing'
  BY <1>2 DEF Sharing, Update
<1>7. Watching'
  BY <1>1, <1>2 DEF Watching, Distinct, Update
<1> QED BY <1>1, <1>3, <1>4, <1>5, <1>6, <1>7

(* The connection of s is closed; whatever is left of its registration is  *)
(* that of a connection to be destroyed.                                   *)
LEMMA ClosedPreserves ==
    ASSUME IndInv, NEW s \in Servers, conn[s] # NoConn, Closed(s),
           UNCHANGED fds \/ Becomes(unregisterWrite(State, conn[s].fd)),
           w' \subseteq Fds, r' \subseteq Fds
    PROVE  IndInv'
<1> USE DEF IndInv
<1>1. conn[s].fd \in Fds
  BY ConnFd DEF Places
<1>2. /\ FdsOK' /\ readfds' = readfds
      /\ writefds' \in {writefds, writefds \ {conn[s].fd}}
  <2>1. CASE UNCHANGED fds
    BY <2>1 DEF fds, FdsOK
  <2>2. CASE Becomes(unregisterWrite(State, conn[s].fd))
    BY <1>1, <2>2, StateGood, UnregisterWrites, BecomesGood
  <2> QED BY <2>1, <2>2
<1>3. \A t \in Servers : conn'[t] = IF t = s THEN NoConn ELSE conn[t]
  BY DEF Closed, Places
<1>4. Places'
  BY <1>1 DEF Places, Closed
<1>5. Held'
  BY <1>2, <1>3 DEF Held, Closed
<1>6. Distinct'
  BY <1>3 DEF Distinct
<1>7. Sharing'
  BY <1>3 DEF Sharing, Distinct, Closed
<1>8. Watching'
  BY <1>2, <1>3 DEF Watching, Distinct, Closed
<1> QED BY <1>2, <1>4, <1>5, <1>6, <1>7, <1>8

(* The new connection has a descriptor no other connection has.            *)
LEMMA CreatePreserves ==
    ASSUME IndInv, NEW s \in Servers, Create(s)
    PROVE  IndInv'
<1> USE DEF IndInv
<1> DEFINE fd == Min(Fds \ Used)
           c == [NoConn EXCEPT !.fd = fd, !.connecting = TRUE]
<1>1. fd \in Fds \ Used
  <2>1. Fds \ Used \in SUBSET Nat /\ Fds \ Used # {}
    BY FdAssumption DEF Fds, Create
  <2> QED BY <2>1, MinType
<1>2. /\ conn' = [conn EXCEPT ![s] = c]
      /\ Becomes(registerWrite(State, fd))
      /\ shared' = IF fd \in dying THEN shared \cup {s} ELSE shared \ {s}
      /\ UNCHANGED <<dying, round, w, r>>
      /\ conn[s] = NoConn
  BY DEF Create
<1> HIDE DEF fd
<1>3. c \in ConnType /\ c.fd = fd /\ c.connecting
  <2>1. NoConn \in [fd : Int, connecting : BOOLEAN, tlswrite : BOOLEAN,
                    nrecs : 0..WriteRecs]
    BY FdAssumption DEF NoConn, NoFd
  <2> QED BY <1>1, <2>1 DEF ConnType
<1> HIDE DEF c
<1>4. c # NoConn /\ \A t \in Servers : conn'[t] = IF t = s THEN c ELSE conn[t]
  BY <1>2, <1>3, ConnFd DEF Places
<1>5. FdsOK' /\ readfds' = readfds /\ writefds' = writefds \cup {fd}
  BY <1>1, <1>2, StateGood, RegisterWrites, BecomesGood
<1>6. \A t \in Servers : conn[t] # NoConn => conn[t].fd # fd
  BY <1>1 DEF Used, Live
<1>7. Places'
  BY <1>2, <1>3 DEF Places
<1>8. Held'
  BY <1>2, <1>3, <1>4, <1>5 DEF Held
<1>9. Distinct'
  BY <1>3, <1>4, <1>6 DEF Distinct
<1>10. Sharing'
  BY <1>2, <1>3, <1>4 DEF Sharing
<1>11. Watching'
  BY <1>2, <1>3, <1>4, <1>5, <1>6 DEF Watching, WantsWrite
<1> QED BY <1>5, <1>7, <1>8, <1>9, <1>10, <1>11

(* Only a connection that shares the descriptor loses its registration.    *)
LEMMA DestroyPreserves ==
    ASSUME IndInv, NEW fd \in Fds, Destroy(fd)
    PROVE  IndInv'
<1> USE DEF IndInv
<1>1. FdsOK' /\ readfds' = readfds \ {fd} /\ writefds' = writefds \ {fd}
  BY StateGood, UnregisterReads, UnregisterWrites, BecomesGood
     DEF Destroy, unregister
<1>2. Places'
  BY DEF Places, Destroy
<1>3. Held'
  BY <1>1 DEF Held, Destroy
<1>4. Distinct' /\ Sharing'
  BY DEF Distinct, Sharing, Destroy
<1>5. Watching'
  BY <1>1 DEF Watching, Sharing, Destroy
<1> QED BY <1>1, <1>2, <1>3, <1>4, <1>5

LEMMA OtherPreserves ==
    ASSUME IndInv, UNCHANGED <<fds, conn, dying, shared>>,
           round' \in {"wait", "tick", "ready", "shutdown"},
           w' \subseteq Fds, r' \subseteq Fds
    PROVE  IndInv'
BY DEF IndInv, fds, FdsOK, Places, Held, Distinct, Sharing, Watching

(* The connection whose descriptor is dispatched exists.                   *)
LEMMA Dispatched ==
    ASSUME IndInv, NEW s \in Servers, NextWrite(s) \/ NextRead(s)
    PROVE  /\ conn[s] # NoConn /\ conn[s] \in ConnType
           /\ w' \subseteq Fds /\ r' \subseteq Fds
<1>1. w \in SUBSET Nat /\ r \in SUBSET Nat /\ w \subseteq Fds /\ r \subseteq Fds
  BY FdAssumption DEF IndInv, Places, Fds
<1>2. conn[s].fd \in Fds
  BY <1>1, MinType DEF NextWrite, NextRead
<1>3. conn[s] # NoConn
  BY <1>2, ConnFd
<1> QED BY <1>1, <1>3 DEF IndInv, Places, NextWrite, NextRead

LEMMA ServerPreserves ==
    ASSUME IndInv, NEW s \in Servers,
           \/ Write(s) \/ CloseTimeout(s)
           \/ ReadyConnected(s) \/ ReadyWrite(s) \/ ReadyRead(s) \/ ReadyClose(s)
    PROVE  IndInv'
<1>1. CASE Write(s)
  <2> DEFINE c == [conn[s] EXCEPT !.nrecs = @ + 1]
  <2>1. conn[s] # NoConn /\ conn[s] \in ConnType /\ conn[s].nrecs < WriteRecs
    BY <1>1 DEF Write, IndInv, Places
  <2>2. c \in ConnType /\ c.fd = conn[s].fd
    BY <2>1, FdAssumption DEF ConnType
  <2>3. Update(s, c) /\ w' \subseteq Fds /\ r' \subseteq Fds
    BY <1>1 DEF Write, IndInv, Places
  <2> HIDE DEF c
  <2> QED BY <2>1, <2>2, <2>3, UpdatePreserves
<1>2. CASE CloseTimeout(s)
  BY <1>2, ClosedPreserves DEF CloseTimeout, IndInv, Places
<1>3. CASE ReadyConnected(s)
  <2>1. NextWrite(s)
    BY <1>3 DEF ReadyConnected
  <2>2. PICK t \in BOOLEAN :
           Update(s, [conn[s] EXCEPT !.connecting = FALSE, !.tlswrite = t])
    BY <1>3 DEF ReadyConnected
  <2> DEFINE c == [conn[s] EXCEPT !.connecting = FALSE, !.tlswrite = t]
  <2>3. c \in ConnType /\ c.fd = conn[s].fd
    BY <2>1, Dispatched DEF ConnType
  <2> HIDE DEF c
  <2> QED BY <2>1, <2>2, <2>3, Dispatched, UpdatePreserves DEF c
<1>4. CASE ReadyWrite(s)
  <2>1. NextWrite(s)
    BY <1>4 DEF ReadyWrite
  <2>2. PICK t \in BOOLEAN, n \in {conn[s].nrecs, conn[s].nrecs - 1} :
           n >= 0 /\ Update(s, [conn[s] EXCEPT !.tlswrite = t, !.nrecs = n])
    BY <1>4 DEF ReadyWrite
  <2> DEFINE c == [conn[s] EXCEPT !.tlswrite = t, !.nrecs = n]
  <2>3. conn[s] \in ConnType /\ n \in 0..WriteRecs
    BY <2>1, <2>2, Dispatched, FdAssumption DEF ConnType
  <2>4. c \in ConnType /\ c.fd = conn[s].fd
    BY <2>3 DEF ConnType
  <2> HIDE DEF c
  <2> QED BY <2>1, <2>2, <2>4, Dispatched, UpdatePreserves DEF c
<1>5. CASE ReadyRead(s)
  <2>1. NextRead(s)
    BY <1>5 DEF ReadyRead
  <2>2. PICK t \in BOOLEAN : Update(s, [conn[s] EXCEPT !.tlswrite = t])
    BY <1>5 DEF ReadyRead
  <2> DEFINE c == [conn[s] EXCEPT !.tlswrite = t]
  <2>3. c \in ConnType /\ c.fd = conn[s].fd
    BY <2>1, Dispatched DEF ConnType
  <2> HIDE DEF c
  <2> QED BY <2>1, <2>2, <2>3, Dispatched, UpdatePreserves DEF c
<1>6. CASE ReadyClose(s)
  BY <1>6, Dispatched, ClosedPreserves DEF ReadyClose
<1> QED BY <1>1, <1>2, <1>3, <1>4, <1>5, <1>6

LEMMA InitInvariant ==
    ASSUME Init
    PROVE  IndInv
<1>1. Top(0, {})
  BY DEF Top, NoFd
<1>2. Max({} \cup {} \cup {NoFd}) + 1 = 0
  BY <1>1, TopIsMax
<1>3. FdsOK
  BY <1>2, FS_EmptySet, FdAssumption DEF Init, FdsOK
<1>4. Places /\ Held /\ Distinct /\ Sharing /\ Watching
  BY DEF Init, Places, Held, Distinct, Sharing, Watching
<1> QED BY <1>3, <1>4 DEF IndInv

LEMMA NextInvariant ==
    ASSUME IndInv, [Next]_vars
    PROVE  IndInv'
<1>1. ASSUME NEW s \in Servers, Create(s)
      PROVE  IndInv'
  BY <1>1, CreatePreserves
<1>2. ASSUME NEW fd \in Fds, Destroy(fd)
      PROVE  IndInv'
  BY <1>2, DestroyPreserves
<1>3. CASE ReadyDying \/ RoundDone \/ UNCHANGED vars
  BY <1>3, OtherPreserves DEF ReadyDying, RoundDone, vars, IndInv, Places
<1>4. CASE Pselect
  BY <1>4, OtherPreserves DEF Pselect, IndInv, Places, FdsOK
<1> QED BY <1>1, <1>2, <1>3, <1>4, ServerPreserves DEF Next

LEMMA Invariance == Spec => []IndInv
<1>1. Init => IndInv
  BY InitInvariant
<1>2. IndInv /\ [Next]_vars => IndInv'
  BY NextInvariant
<1> QED BY <1>1, <1>2, PTL DEF Spec

-----------------------------------------------------------------------------
(* The service's counters are what its sets say, in every order of         *)
(* registrations: pselect looks at all that is registered, and no further. *)
THEOREM CountsTheorem == Spec => []CountsExact
<1>1. IndInv => CountsExact
  BY DEF IndInv, FdsOK, Places, CountsExact, TypeOK
<1> QED BY <1>1, Invariance, PTL

(* When the loop comes to pselect no closed descriptor is registered.      *)
THEOREM NoClosedFdTheorem == Spec => []NoClosedFd
<1>1. IndInv => NoClosedFd
  BY DEF IndInv, Held, NoClosedFd, Selecting, Used, Live
<1> QED BY <1>1, Invariance, PTL

(* A connection with a descriptor of its own is watched for exactly what   *)
(* it waits for.                                                           *)
THEOREM WatchedTheorem == Spec => []Watched
<1>1. IndInv => Watched
  BY DEF IndInv, Watching, Watched, Live
<1> QED BY <1>1, Invariance, PTL
=============================================================================
