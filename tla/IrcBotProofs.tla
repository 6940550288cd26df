---------------------------- MODULE IrcBotProofs ----------------------------
(***************************************************************************)
(* Proofs about IrcBot: what is used is allocated, handlers start in the   *)
(* order of their events, one shutdown request that ends in time leaves no *)
(* connection, and the right handler is found.                             *)
(***************************************************************************)
EXTENDS IrcBot, FiniteSetTheorems, WellFoundedInduction, TLAPS

-----------------------------------------------------------------------------
(* The inductive invariant.                                                *)

(* "finished" and "cancelled", of JobPool, do not occur: a job that was    *)
(* executed is destroyed, and its name used again.                         *)
Status == {"new", "waiting", "assigned", "executing", "executed", "refused",
           "panicked", "dropped"}

(* Each entry of the queue is a job that waits, and waits only once.       *)
Queued ==
    /\ st \in [Jobs -> Status]
    /\ \A i \in DOMAIN pending : st[pending[i]] = "waiting"
    /\ \A i, k \in DOMAIN pending : pending[i] = pending[k] => i = k

(* The argument of a job that will be used.                                *)
Owned ==
    /\ \A j \in Jobs :
         /\ st[j] \in {"waiting", "assigned", "executing"} => arg[j] \in Allocated
         /\ st[j] = "new" => arg[j] = NoArg
         /\ st[j] = "executed" /\ j # done => arg[j] \in {Freed} \cup Allocated
    /\ done # 0 => phase = "loop" /\ st[done] = "executed" /\ arg[done] = NoArg

(* While a worker is free no job of a handler waits.                       *)
InLine ==
    phase = "loop" /\ Cardinality(Pool!UnderWay) < Workers =>
        \A i \in DOMAIN pending : ~IsHandlerJob(pending[i])

(* How far the bot is, and what there can be.                              *)
Progress ==
    /\ phase = "setup" =>
         raised = <<>> /\ quits = 0 /\ \A j \in Jobs : st[j] = "new"
    /\ phase = "loop" => \A j \in Jobs : st[j] \notin {"panicked", "dropped"}
    /\ phase = "pool" => raised \in Seq({LogArg})
    /\ phase = "end" =>
         raised = <<>> /\ \A j \in Jobs : st[j] \notin {"waiting", "assigned", "executing"}

LockedOnce == {s \in ServerIds : locks[s] = 1}

(* Before a shutdown request nothing is locked; after the first one, what  *)
(* is not locked has no connection, and shutdownRef counts what is.        *)
Counted ==
    /\ \A s \in ServerIds : locks[s] <= quits
    /\ quits = 0 => ref = -1
    /\ quits = 1 =>
         /\ ref = Cardinality(LockedOnce)
         /\ \A s \in ServerIds : locks[s] = 0 => link[s] = "none"

(* Why the loop has ended, and what that says of the connections.          *)
Reasons ==
    /\ why = "" <=> phase \in {"setup", "loop"}
    /\ phase # "end" => stale = {}
    /\ why = "unlocked" /\ quits <= 1 =>
         \A s \in ServerIds : link[s] = "none" /\ <<s, "service">> \notin stale

IndInv == TypeOK /\ Queued /\ Owned /\ InLine /\ Progress /\ Counted /\ Reasons

-----------------------------------------------------------------------------
(* Constants, and what does not depend on the state.                       *)

LEMMA Bounds ==
    /\ MaxHandlers \in Nat /\ MaxJobs \in Nat
    /\ MaxJoins \in Nat /\ MaxQuit \in Nat
BY BoundsAssumption

LEMMA Names ==
    /\ LogArg \in Allocated /\ ServerIds \subseteq Allocated /\ LogArg \notin ServerIds
    /\ NoArg \notin Allocated /\ Freed \notin Allocated /\ NoArg # Freed
BY NamesAssumption DEF Allocated, NoArg, LogArg, Freed

LEMMA ServerCount ==
    /\ IsFiniteSet(ServerIds) /\ Len(Servers) \in Nat
    /\ \A T \in SUBSET ServerIds :
          IsFiniteSet(T) /\ Cardinality(T) \in 0..Len(Servers)
<1> DEFINE D == 1..Len(Servers)
<1>1. Len(Servers) \in Nat /\ DOMAIN Servers = D /\ Servers \in [D -> ServerIds]
  BY ServersAssumption
<1>2. IsFiniteSet(D) /\ Cardinality(D) = Len(Servers)
  BY <1>1, FS_Interval
<1>3. \A s \in ServerIds : \E i \in D : Servers[i] = s
  BY <1>1 DEF ServerIds, ToSet
<1> HIDE DEF D
<1>4. Servers \in Surjection(D, ServerIds)
  BY <1>1, <1>3 DEF Surjection
<1>5. IsFiniteSet(ServerIds) /\ Cardinality(ServerIds) <= Cardinality(D)
  BY <1>2, <1>4, FS_Surjection
<1>6. ASSUME NEW T \in SUBSET ServerIds
      PROVE  IsFiniteSet(T) /\ Cardinality(T) \in 0..Len(Servers)
  <2>1. IsFiniteSet(T) /\ Cardinality(T) <= Cardinality(ServerIds)
    BY <1>5, FS_Subset
  <2>2. Cardinality(T) \in Nat /\ Cardinality(ServerIds) \in Nat
    BY <1>5, <2>1, FS_CardinalityType
  <2> QED BY <1>1, <1>2, <1>5, <2>1, <2>2
<1> QED BY <1>1, <1>5, <1>6

(* The least element of a set of numbers.                                  *)
LEMMA MinOf ==
    ASSUME NEW S \in SUBSET Nat, S # {}
    PROVE  Min(S) \in S /\ \A y \in S : Min(S) <= y
<1> DEFINE R == OpToRel(<, Nat)
<1>1. IsWellFoundedOn(R, Nat)
  BY NatLessThanWellFounded, Zenon
<1>2. \A x, y \in Nat : x < y => <<x, y>> \in R
  BY DEF OpToRel
<1> HIDE DEF R
<1>3. PICK x \in S : \A y \in S : ~(<<y, x>> \in R)
  BY <1>1, WFMin
<1>4. \A y \in S : ~(y < x)
  BY <1>2, <1>3
<1>5. \A y \in S : x <= y
  BY <1>4
<1> QED BY <1>5 DEF Min

(* The two numbers of Service_shutdownUnlock.                              *)
LEMMA MaxOf ==
    ASSUME NEW n \in Int
    PROVE  Max({0, n}) = IF n > 0 THEN n ELSE 0
<1>1. \A x \in {0, n} : (\A y \in {0, n} : x >= y) <=> x = IF n > 0 THEN n ELSE 0
  OBVIOUS
<1>2. (IF n > 0 THEN n ELSE 0) \in {0, n}
  OBVIOUS
<1> DEFINE m == IF n > 0 THEN n ELSE 0
           P(x) == \A y \in {0, n} : x >= y
<1>3. m \in {0, n} /\ P(m) /\ \A x \in {0, n} : P(x) => x = m
  BY <1>1, <1>2
<1>4. Max({0, n}) = CHOOSE x \in {0, n} : P(x)
  BY DEF Max
<1> HIDE DEF m, P
<1>5. (CHOOSE x \in {0, n} : P(x)) = m
  BY <1>3
<1> QED BY <1>4, <1>5 DEF m

(* An entry of a function is replaced.                                     *)
LEMMA Replaced ==
    ASSUME NEW D, NEW S, NEW f \in [D -> S], NEW d \in D, NEW v \in S
    PROVE  /\ [f EXCEPT ![d] = v] \in [D -> S]
           /\ [f EXCEPT ![d] = v][d] = v
           /\ \A e \in D : e # d => [f EXCEPT ![d] = v][e] = f[e]
OBVIOUS

LEMMA DoneJob == ASSUME TypeOK, done # 0 PROVE done \in Jobs
<1>1. done \in 0..MaxJobs
  BY DEF TypeOK
<1> QED BY <1>1, Bounds DEF Jobs

LEMMA FreshJob ==
    ASSUME NEW n \in Nat, Room(n)
    PROVE  Fresh \in Jobs /\ st[Fresh] = "new"
<1> DEFINE S == {j \in Jobs : st[j] = "new"}
<1>1. IsFiniteSet(Jobs) /\ Jobs \in SUBSET Nat
  <2>1. MaxJobs \in Nat /\ 1 \in Int /\ MaxJobs \in Int
    BY Bounds
  <2>2. IsFiniteSet(1..MaxJobs)
    BY <2>1, FS_Interval
  <2> QED BY <2>1, <2>2 DEF Jobs
<1>2. S # {}
  <2>1. Cardinality({}) = 0
    BY FS_EmptySet
  <2> QED BY <2>1 DEF Room
<1>3. Fresh \in S
  BY <1>1, <1>2, MinOf DEF Fresh
<1> QED BY <1>3

-----------------------------------------------------------------------------
(* What a step leaves alone.                                               *)

LEMMA JobsKept ==
    ASSUME Queued, Owned, InLine, phase' = phase, st' = st, pending' = pending, arg' = arg,
           done' = done
    PROVE  Queued' /\ Owned' /\ InLine'
BY DEF Queued, Owned, InLine, IsHandlerJob, Pool!UnderWay

(* The same workers are busy, and the same jobs wait.                      *)
LEMMA LineKept ==
    ASSUME InLine, phase' = phase, (Pool!UnderWay)' = Pool!UnderWay, pending' = pending,
           \A i \in DOMAIN pending : arg'[pending[i]] = arg[pending[i]]
    PROVE  InLine'
BY DEF InLine, IsHandlerJob

LEMMA BusyCount ==
    ASSUME NEW S \in SUBSET Jobs
    PROVE  /\ Cardinality(S) \in Nat
           /\ \A j \in Jobs \ S : Cardinality(S \cup {j}) = Cardinality(S) + 1
           /\ \A d \in S, j \in Jobs \ S :
                 Cardinality((S \ {d}) \cup {j}) = Cardinality(S)
<1>1. IsFiniteSet(S)
  <2>1. 1 \in Int /\ MaxJobs \in Int
    BY Bounds
  <2>2. IsFiniteSet(Jobs)
    BY <2>1, FS_Interval DEF Jobs
  <2> QED BY <2>2, FS_Subset
<1>2. Cardinality(S) \in Nat
  BY <1>1, FS_CardinalityType
<1>3. \A j \in Jobs \ S : Cardinality(S \cup {j}) = Cardinality(S) + 1
  BY <1>1, FS_AddElement
<1>4. ASSUME NEW d \in S, NEW j \in Jobs \ S
      PROVE  Cardinality((S \ {d}) \cup {j}) = Cardinality(S)
  <2>1. IsFiniteSet(S \ {d}) /\ Cardinality(S \ {d}) = Cardinality(S) - 1
    BY <1>1, FS_RemoveElement
  <2>2. Cardinality((S \ {d}) \cup {j}) = Cardinality(S \ {d}) + 1
    BY <2>1, FS_AddElement
  <2> QED BY <1>2, <2>1, <2>2
<1> QED BY <1>2, <1>3, <1>4

LEMMA StopKept ==
    ASSUME Counted, Reasons, phase' = phase, why' = why, stale' = stale,
           quits' = quits, link' = link, locks' = locks, ref' = ref
    PROVE  Counted' /\ Reasons'
BY DEF Counted, LockedOnce, Reasons

LEMMA ProgressKept ==
    ASSUME Progress, phase' = phase, quits' = quits, st' = st,
           raised' = raised \/ phase = "loop"
    PROVE  Progress'
BY DEF Progress

-----------------------------------------------------------------------------
(* Setup and reports.                                                      *)

LEMMA AddHandlerStep ==
    ASSUME IndInv, NEW h \in Registrable, IrcBot_addHandler(h)
    PROVE  IndInv'
<1>1. /\ Len(handlers) < MaxHandlers /\ handlers' = Append(handlers, h)
      /\ phase' = phase /\ why' = why /\ link' = link /\ joins' = joins
      /\ raised' = raised /\ arg' = arg
      /\ completed' = completed /\ st' = st
      /\ pending' = pending /\ done' = done /\ ref' = ref /\ locks' = locks
      /\ quits' = quits /\ stale' = stale
  BY DEF IrcBot_addHandler, pool, stop
<1>2. handlers' \in Seq(Registrable) /\ Len(handlers') <= MaxHandlers
  <2>1. handlers \in Seq(Registrable) /\ Len(handlers) < MaxHandlers
    BY <1>1 DEF IndInv, TypeOK
  <2> QED BY <1>1, <2>1, Bounds
<1>3. TypeOK'
  BY <1>1, <1>2 DEF IndInv, TypeOK
<1> QED BY <1>1, <1>3, JobsKept, StopKept, ProgressKept DEF IndInv

LEMMA LineType ==
    /\ <<>> \in Seq({LogArg}) /\ Seq({LogArg}) \subseteq Seq(Allocated)
    /\ \A level : Line(level) \in Seq({LogArg})
<1>1. <<LogArg>> \in Seq({LogArg}) /\ <<>> \in Seq({LogArg})
  OBVIOUS
<1>2. {LogArg} \subseteq Allocated
  BY Names
<1>3. Seq({LogArg}) \subseteq Seq(Allocated)
  BY <1>2
<1> QED BY <1>1, <1>3 DEF Line

LEMMA StartupStep ==
    ASSUME IndInv, NEW n \in 0..Len(Servers), NEW rc \in BOOLEAN, startup(n, rc)
    PROVE  IndInv'
<1>1. /\ phase = "setup"
      /\ link' = [s \in ServerIds |->
                    IF s \in {Servers[i] : i \in 1..n} THEN "pending" ELSE link[s]]
      /\ phase' = IF rc THEN "loop" ELSE "pool"
      /\ why' = IF rc THEN "" ELSE "failed"
      /\ raised' = IF rc THEN Line("INFO") ELSE <<>>
      /\ handlers' = handlers /\ joins' = joins /\ arg' = arg
      /\ completed' = completed
      /\ st' = st /\ pending' = pending /\ done' = done /\ ref' = ref
      /\ locks' = locks /\ quits' = quits /\ stale' = stale
  BY DEF startup, Sessions!Open, pool
<1>2. TypeOK /\ Queued /\ Owned /\ InLine /\ Progress /\ Counted /\ Reasons
  BY DEF IndInv
<1>3. /\ link' \in [ServerIds -> {"none", "pending", "in"}]
      /\ raised' \in Seq(Allocated)
      /\ phase' \in Phases /\ why' \in {"", "failed"}
  <2>1. link' \in [ServerIds -> {"none", "pending", "in"}]
    BY <1>1, <1>2 DEF TypeOK
  <2>2. raised' \in Seq(Allocated)
    BY <1>1, LineType
  <2>3. phase' \in Phases /\ why' \in {"", "failed"}
    BY <1>1 DEF Phases
  <2> QED BY <2>1, <2>2, <2>3
<1>4. TypeOK'
  BY <1>1, <1>2, <1>3 DEF TypeOK
<1>5. quits = 0 /\ \A j \in Jobs : st[j] = "new"
  BY <1>1, <1>2 DEF Progress
<1>6. Queued' /\ Owned'
  BY <1>1, <1>2 DEF Queued, Owned
<1>i. InLine'
  <2>1. pending \in Seq(Jobs)
    BY <1>2 DEF TypeOK
  <2>2. \A i \in DOMAIN pending : pending[i] \in Jobs
    BY <2>1
  <2>3. DOMAIN pending = {}
    BY <1>2, <1>5, <2>2 DEF Queued
  <2> QED BY <1>1, <2>3 DEF InLine
<1>7. Progress'
  BY <1>1, <1>5, LineType DEF Progress
<1>8. Counted'
  <2>1. quits # 1
    BY <1>5
  <2> QED BY <1>1, <1>2, <2>1 DEF Counted
<1>9. Reasons'
  BY <1>1, <1>2 DEF Reasons
<1> QED BY <1>4, <1>6, <1>i, <1>7, <1>8, <1>9 DEF IndInv

LEMMA RaiseEffect ==
    ASSUME NEW r, r.server \in ServerIds, NEW n \in Nat, Raise(r, n)
    PROVE  /\ raised' \in Seq(Allocated)
           /\ phase' = phase /\ why' = why /\ handlers' = handlers /\ arg' = arg
           /\ completed' = completed
           /\ st' = st /\ pending' = pending /\ done' = done /\ ref' = ref
           /\ locks' = locks /\ quits' = quits /\ stale' = stale
<1>1. [i \in 1..n |-> r.server] \in Seq(Allocated)
  <2>1. r.server \in Allocated
    BY Names
  <2> QED BY <2>1
<1>2. raised' \in Seq(Allocated)
  BY <1>1, LineType DEF Raise
<1> QED BY <1>2 DEF Raise, pool, stop

LEMMA LoggedInStep ==
    ASSUME IndInv, NEW s \in ServerIds, LoggedIn(s)
    PROVE  IndInv'
<1>1. /\ Waiting /\ link[s] = "pending" /\ link' = [link EXCEPT ![s] = "in"]
      /\ joins' = joins
      /\ \E r : r.server = s /\ Raise(r, 1)
  BY DEF LoggedIn, Sessions!LogIn
<1>2. /\ raised' \in Seq(Allocated)
      /\ phase' = phase /\ why' = why /\ handlers' = handlers /\ arg' = arg
      /\ completed' = completed
      /\ st' = st /\ pending' = pending /\ done' = done /\ ref' = ref
      /\ locks' = locks /\ quits' = quits /\ stale' = stale
  <2>1. 1 \in Nat
    OBVIOUS
  <2> QED BY <1>1, <2>1, RaiseEffect
<1>3. TypeOK /\ Queued /\ Owned /\ InLine /\ Progress /\ Counted /\ Reasons
  BY DEF IndInv
<1>4. /\ link' \in [ServerIds -> {"none", "pending", "in"}]
      /\ \A e \in ServerIds : e # s => link'[e] = link[e]
  BY <1>1, <1>3, Replaced DEF TypeOK
<1>5. TypeOK'
  BY <1>1, <1>2, <1>3, <1>4 DEF TypeOK
<1>6. Counted'
  BY <1>1, <1>2, <1>3, <1>4 DEF Counted, LockedOnce
<1>7. Reasons'
  BY <1>1, <1>2, <1>3 DEF Reasons, Waiting
<1> QED BY <1>1, <1>2, <1>3, <1>5, <1>6, <1>7, JobsKept, ProgressKept DEF IndInv, Waiting

LEMMA ChanJoinedStep ==
    ASSUME IndInv, NEW s \in ServerIds, NEW c \in ChannelsOf[s], ChanJoined(s, c)
    PROVE  IndInv'
<1> DEFINE p == <<s, c>>
<1>1. /\ Waiting /\ link' = link
      /\ joins[p] < MaxJoins /\ joins' = [joins EXCEPT ![p] = joins[p] + 1]
      /\ \E r : r.server = s /\ Raise(r, 1)
  BY DEF ChanJoined
<1>p. p \in Places
  BY DEF Places
<1> HIDE DEF p
<1>2. /\ raised' \in Seq(Allocated)
      /\ phase' = phase /\ why' = why /\ handlers' = handlers /\ arg' = arg
      /\ completed' = completed
      /\ st' = st /\ pending' = pending /\ done' = done /\ ref' = ref
      /\ locks' = locks /\ quits' = quits /\ stale' = stale
  <2>1. 1 \in Nat
    OBVIOUS
  <2> QED BY <1>1, <2>1, RaiseEffect
<1>3. TypeOK /\ Queued /\ Owned /\ InLine /\ Progress /\ Counted /\ Reasons
  BY DEF IndInv
<1>4. joins' \in [Places -> 0..MaxJoins]
  <2>1. joins \in [Places -> 0..MaxJoins]
    BY <1>3 DEF TypeOK
  <2>2. joins[p] \in 0..MaxJoins
    BY <2>1, <1>p
  <2>3. joins[p] + 1 \in 0..MaxJoins
    BY <1>1, <2>2, Bounds
  <2> QED BY <1>1, <1>p, <2>1, <2>3, Replaced
<1>5. TypeOK'
  BY <1>1, <1>2, <1>3, <1>4 DEF TypeOK
<1> QED BY <1>1, <1>2, <1>3, <1>5, JobsKept, ProgressKept, StopKept DEF IndInv, Waiting

(* The other reports, and a log line, only raise something.                *)
LEMMA RaisedOK ==
    ASSUME IndInv, Waiting, raised' \in Seq(Allocated),
           phase' = phase, why' = why, link' = link, handlers' = handlers,
           joins' = joins, arg' = arg,
           completed' = completed, st' = st, pending' = pending,
           done' = done, ref' = ref, locks' = locks, quits' = quits,
           stale' = stale
    PROVE  IndInv'
<1>1. TypeOK /\ Queued /\ Owned /\ InLine /\ Progress /\ Counted /\ Reasons
  BY DEF IndInv
<1>2. TypeOK'
  BY <1>1 DEF TypeOK
<1> QED BY <1>1, <1>2, JobsKept, ProgressKept, StopKept DEF IndInv, Waiting

LEMMA UserMovesStep ==
    ASSUME IndInv, NEW s \in ServerIds, NEW c \in ChannelsOf[s], NEW type, NEW n,
           UserMoves(s, c, type, n)
    PROVE  IndInv'
<1>1. /\ Waiting /\ link' = link /\ joins' = joins
      /\ \E r : r.server = s /\ Raise(r, joins[<<s, c>>])
  BY DEF UserMoves
<1>2. joins[<<s, c>>] \in Nat
  <2>1. <<s, c>> \in Places
    BY DEF Places
  <2>2. joins \in [Places -> 0..MaxJoins]
    BY DEF IndInv, TypeOK
  <2>3. joins[<<s, c>>] \in 0..MaxJoins
    BY <2>1, <2>2
  <2> QED BY <2>3
<1>3. /\ raised' \in Seq(Allocated)
      /\ phase' = phase /\ why' = why /\ handlers' = handlers /\ arg' = arg
      /\ completed' = completed
      /\ st' = st /\ pending' = pending /\ done' = done /\ ref' = ref
      /\ locks' = locks /\ quits' = quits /\ stale' = stale
  BY <1>1, <1>2, RaiseEffect
<1> QED BY <1>1, <1>3, RaisedOK

LEMMA MsgReceivedStep ==
    ASSUME IndInv, NEW s \in ServerIds, NEW to, NEW bang, NEW word,
           MsgReceived(s, to, bang, word)
    PROVE  IndInv'
<1>1. /\ Waiting /\ link' = link /\ joins' = joins
      /\ \E r : r.server = s /\ Raise(r, 1)
  BY DEF MsgReceived
<1>2. 1 \in Nat
  OBVIOUS
<1>3. /\ raised' \in Seq(Allocated)
      /\ phase' = phase /\ why' = why /\ handlers' = handlers /\ arg' = arg
      /\ completed' = completed
      /\ st' = st /\ pending' = pending /\ done' = done /\ ref' = ref
      /\ locks' = locks /\ quits' = quits /\ stale' = stale
  BY <1>1, <1>2, RaiseEffect
<1> QED BY <1>1, <1>3, RaisedOK

LEMMA LogLineStep ==
    ASSUME IndInv, LogLine
    PROVE  IndInv'
<1>1. /\ Waiting /\ raised' = Line("INFO")
      /\ phase' = phase /\ why' = why /\ link' = link
      /\ handlers' = handlers /\ joins' = joins /\ arg' = arg
      /\ completed' = completed
      /\ st' = st /\ pending' = pending /\ done' = done /\ ref' = ref
      /\ locks' = locks /\ quits' = quits /\ stale' = stale
  BY DEF LogLine, pool, stop
<1> QED BY <1>1, LineType, RaisedOK

LEMMA ReconnectStep ==
    ASSUME IndInv, NEW s \in ServerIds, Reconnect(s)
    PROVE  IndInv'
<1>1. /\ Waiting /\ quits = 0 /\ UNCHANGED quits
      /\ link' = [x \in ServerIds |-> IF x \in {s} THEN "pending" ELSE link[x]]
      /\ phase' = phase /\ why' = why /\ handlers' = handlers
      /\ joins' = joins /\ raised' = raised /\ arg' = arg
      /\ completed' = completed
      /\ st' = st /\ pending' = pending /\ done' = done /\ ref' = ref
      /\ locks' = locks /\ quits' = quits /\ stale' = stale
  BY DEF Reconnect, Sessions!Open, bot, pool
<1>2. TypeOK /\ Queued /\ Owned /\ InLine /\ Progress /\ Counted /\ Reasons
  BY DEF IndInv
<1>3. TypeOK'
  BY <1>1, <1>2 DEF TypeOK
<1>4. Counted'
  <2>1. quits # 1
    BY <1>1
  <2> QED BY <1>1, <1>2, <2>1 DEF Counted
<1>5. Reasons'
  BY <1>1, <1>2 DEF Reasons, Waiting
<1> QED BY <1>1, <1>2, <1>3, <1>4, <1>5, JobsKept, ProgressKept DEF IndInv

-----------------------------------------------------------------------------
(* Jobs.                                                                   *)

(* A job is created: it gets its argument, and the pool takes it or not.   *)
LEMMA JobCreated ==
    ASSUME IndInv, NEW j \in Jobs, st[j] = "new", phase \in {"loop", "pool"},
           Pool!Assign(j) \/ Pool!Wait(j) \/ Pool!Refuse(j),
           NEW a \in Allocated, arg' = [arg EXCEPT ![j] = a],
           phase' = phase, why' = why, link' = link, handlers' = handlers,
           joins' = joins, completed' = completed,
           done' = done, ref' = ref, locks' = locks,
           quits' = quits, stale' = stale,
           raised' \in Seq(Allocated), phase = "pool" => raised' \in Seq({LogArg}),
           a = LogArg \/ Pool!Assign(j) \/ Cardinality(Pool!UnderWay) = Workers
    PROVE  IndInv'
<1>1. TypeOK /\ Queued /\ Owned /\ InLine /\ Progress /\ Counted /\ Reasons
  BY DEF IndInv
<1>2. /\ st \in [Jobs -> Status] /\ pending \in Seq(Jobs)
      /\ arg \in [Jobs -> {NoArg, Freed} \cup Allocated]
  BY <1>1 DEF TypeOK, Queued
<1>3. PICK v \in {"assigned", "waiting", "refused"} :
         /\ st' = [st EXCEPT ![j] = v]
         /\ pending' = IF v = "waiting" THEN Append(pending, j) ELSE pending
  BY DEF Pool!Assign, Pool!Wait, Pool!Refuse
<1>4. /\ st' \in [Jobs -> Status] /\ st'[j] = v
      /\ \A k \in Jobs : k # j => st'[k] = st[k]
  BY <1>2, <1>3, Replaced DEF Status
<1>5. /\ arg' \in [Jobs -> {NoArg, Freed} \cup Allocated] /\ arg'[j] = a
      /\ \A k \in Jobs : k # j => arg'[k] = arg[k]
  BY <1>2, Replaced
<1>6. pending' \in Seq(Jobs)
  BY <1>2, <1>3
<1>7. TypeOK'
  BY <1>1, <1>5, <1>6 DEF TypeOK
<1>9. Queued'
  <2>1. CASE v = "waiting"
    <3>1. /\ DOMAIN pending' = DOMAIN pending \cup {Len(pending) + 1}
          /\ pending'[Len(pending) + 1] = j
          /\ \A i \in DOMAIN pending : pending'[i] = pending[i] /\ pending[i] \in Jobs
      BY <1>2, <1>3, <2>1
    <3>2. \A i \in DOMAIN pending : pending[i] # j
      BY <1>1 DEF Queued
    <3> QED BY <1>1, <1>4, <2>1, <3>1, <3>2 DEF Queued
  <2>2. CASE v # "waiting"
    <3>1. pending' = pending
      BY <1>3, <2>2
    <3>2. \A i \in DOMAIN pending : pending[i] # j /\ pending[i] \in Jobs
      BY <1>1, <1>2 DEF Queued
    <3> QED BY <1>1, <1>4, <3>1, <3>2 DEF Queued
  <2> QED BY <2>1, <2>2
<1>10. Owned'
  <2>1. done # 0 => done \in Jobs /\ done # j
    <3>1. done # 0 => done \in Jobs
      BY <1>1, DoneJob
    <3>2. done # 0 => st[done] = "executed"
      BY <1>1 DEF Owned
    <3> QED BY <3>1, <3>2
  <2>2. \A k \in Jobs :
          /\ st'[k] \in {"waiting", "assigned", "executing"} => arg'[k] \in Allocated
          /\ st'[k] = "new" => arg'[k] = NoArg
          /\ st'[k] = "executed" /\ k # done' => arg'[k] \in {Freed} \cup Allocated
    BY <1>1, <1>4, <1>5 DEF Owned
  <2> QED BY <1>1, <1>4, <1>5, <2>1, <2>2 DEF Owned
<1>11. Progress'
  BY <1>1, <1>4 DEF Progress
<1>12. InLine'
  <2>1. /\ Pool!UnderWay \in SUBSET Jobs /\ j \notin Pool!UnderWay
        /\ (Pool!UnderWay)' = IF v = "assigned" THEN Pool!UnderWay \cup {j}
                              ELSE Pool!UnderWay
    BY <1>4 DEF Pool!UnderWay
  <2>2. \A i \in DOMAIN pending : pending[i] \in Jobs /\ pending[i] # j
    BY <1>1, <1>2 DEF Queued
  <2>3. \A i \in DOMAIN pending : arg'[pending[i]] = arg[pending[i]]
    BY <1>5, <2>2
  <2>4. CASE v = "refused"
    <3>1. pending' = pending /\ (Pool!UnderWay)' = Pool!UnderWay
      BY <1>3, <2>1, <2>4
    <3> QED BY <1>1, <2>3, <3>1, LineKept
  <2>5. CASE v = "assigned"
    <3>1. pending' = pending /\ (Pool!UnderWay)' = Pool!UnderWay \cup {j}
      BY <1>3, <2>1, <2>5
    <3>2. /\ Cardinality(Pool!UnderWay) \in Nat
          /\ Cardinality((Pool!UnderWay)') = Cardinality(Pool!UnderWay) + 1
      BY <2>1, <3>1, BusyCount
    <3>3. Cardinality((Pool!UnderWay)') < Workers => Cardinality(Pool!UnderWay) < Workers
      BY <3>2, PoolAssumption
    <3> QED BY <1>1, <2>3, <3>1, <3>3 DEF InLine, IsHandlerJob
  <2>6. CASE v = "waiting"
    <3>1. /\ (Pool!UnderWay)' = Pool!UnderWay
          /\ DOMAIN pending' = DOMAIN pending \cup {Len(pending) + 1}
          /\ pending'[Len(pending) + 1] = j
          /\ \A i \in DOMAIN pending : pending'[i] = pending[i]
      BY <1>2, <1>3, <2>1, <2>6
    <3>2. ~Pool!Assign(j)
      BY <1>4, <2>6, <1>2 DEF Pool!Assign
    <3>3. Cardinality((Pool!UnderWay)') < Workers => a = LogArg
      BY <2>1, <3>1, <3>2, BusyCount, PoolAssumption
    <3> QED BY <1>1, <1>5, <2>3, <3>1, <3>3, Names DEF InLine, IsHandlerJob
  <2> QED BY <2>4, <2>5, <2>6
<1> QED BY <1>1, <1>7, <1>9, <1>10, <1>11, <1>12, StopKept DEF IndInv

LEMMA DispatchStep ==
    ASSUME IndInv, Dispatch
    PROVE  IndInv'
<1>1. /\ raised # <<>> /\ Room(0)
      /\ Pool!Assign(Fresh) \/ Pool!Wait(Fresh) \/ Pool!Refuse(Fresh)
      /\ Pool!Assign(Fresh) \/ Cardinality(Pool!UnderWay) = Workers
      /\ arg' = [arg EXCEPT ![Fresh] = Head(raised)] /\ raised' = Tail(raised)
      /\ phase' = phase /\ why' = why /\ link' = link
      /\ handlers' = handlers /\ joins' = joins
      /\ completed' = completed /\ done' = done
      /\ ref' = ref /\ locks' = locks /\ quits' = quits /\ stale' = stale
  BY DEF Dispatch, ThreadPool_enqueue, stop
<1>2. TypeOK /\ Progress
  BY DEF IndInv
<1>3. Fresh \in Jobs /\ st[Fresh] = "new"
  <2>1. 0 \in Nat
    OBVIOUS
  <2> QED BY <1>1, <2>1, FreshJob
<1>4. phase \in {"loop", "pool"}
  BY <1>1, <1>2 DEF Progress, TypeOK, Phases
<1>5. /\ Head(raised) \in Allocated
      /\ raised' \in Seq(Allocated)
  <2>1. raised \in Seq(Allocated)
    BY <1>2 DEF TypeOK
  <2> QED BY <1>1, <2>1
<1>6. phase = "pool" => raised' \in Seq({LogArg})
  BY <1>1, <1>2 DEF Progress
<1> HIDE DEF Fresh
<1> QED BY <1>1, <1>3, <1>4, <1>5, <1>6, JobCreated

LEMMA WorkerLogsStep ==
    ASSUME IndInv, NEW j \in Jobs, WorkerLogs(j)
    PROVE  IndInv'
<1>1. /\ st[j] = "executing" /\ Room(1 + Len(raised))
      /\ Pool!Wait(Fresh) \/ Pool!Refuse(Fresh)
      /\ arg' = [arg EXCEPT ![Fresh] = LogArg] /\ raised' = raised
      /\ phase' = phase /\ why' = why /\ link' = link
      /\ handlers' = handlers /\ joins' = joins
      /\ completed' = completed /\ done' = done
      /\ ref' = ref /\ locks' = locks /\ quits' = quits /\ stale' = stale
  BY DEF WorkerLogs, stop
<1>2. TypeOK /\ Progress
  BY DEF IndInv
<1>3. raised \in Seq(Allocated)
  BY <1>2 DEF TypeOK
<1>4. Fresh \in Jobs /\ st[Fresh] = "new"
  <2>1. 1 + Len(raised) \in Nat
    BY <1>3
  <2> QED BY <1>1, <2>1, FreshJob
<1>5. phase \in {"loop", "pool"}
  BY <1>1, <1>2 DEF Progress, TypeOK, Phases
<1>6. LogArg \in Allocated /\ (phase = "pool" => raised' \in Seq({LogArg}))
  BY <1>1, <1>2, Names DEF Progress
<1> QED BY <1>1, <1>3, <1>4, <1>5, <1>6, JobCreated

-----------------------------------------------------------------------------
(* The workers, and the completion of jobs.                                *)

LEMMA WorkerStartsStep ==
    ASSUME IndInv, NEW j \in Jobs, WorkerStarts(j)
    PROVE  IndInv'
<1>1. /\ PoolRuns /\ st[j] = "assigned" /\ st' = [st EXCEPT ![j] = "executing"]
      /\ phase' = phase /\ why' = why /\ link' = link
      /\ handlers' = handlers /\ joins' = joins /\ raised' = raised
      /\ arg' = arg /\ completed' = completed
      /\ pending' = pending /\ done' = done /\ ref' = ref
      /\ locks' = locks /\ quits' = quits /\ stale' = stale
  BY DEF WorkerStarts, bot, stop, Pool!Execute
<1>2. TypeOK /\ Queued /\ Owned /\ InLine /\ Progress /\ Counted /\ Reasons
  BY DEF IndInv
<1>3. /\ st' \in [Jobs -> Status] /\ st'[j] = "executing"
      /\ \A k \in Jobs : k # j => st'[k] = st[k]
  BY <1>1, <1>2, Replaced DEF Queued, Status
<1>4. TypeOK'
  BY <1>1, <1>2 DEF TypeOK
<1>5. Queued'
  <2>1. \A i \in DOMAIN pending : pending[i] # j /\ pending[i] \in Jobs
    <3>1. \A i \in DOMAIN pending : pending[i] # j
      BY <1>1, <1>2 DEF Queued
    <3>2. pending \in Seq(Jobs)
      BY <1>2 DEF TypeOK
    <3> QED BY <3>1, <3>2
  <2> QED BY <1>1, <1>2, <1>3, <2>1 DEF Queued
<1>6. Owned'
  <2>1. done # 0 => done \in Jobs /\ done # j
    BY <1>1, <1>2, DoneJob DEF Owned
  <2> QED BY <1>1, <1>2, <1>3, <2>1 DEF Owned
<1>7. Progress'
  BY <1>1, <1>2, <1>3 DEF Progress, PoolRuns
<1>8. InLine'
  <2>1. (Pool!UnderWay)' = Pool!UnderWay
    BY <1>1, <1>3 DEF Pool!UnderWay
  <2> QED BY <1>1, <1>2, <2>1, LineKept
<1> QED BY <1>1, <1>2, <1>4, <1>5, <1>6, <1>7, <1>8, StopKept DEF IndInv

LEMMA WorkerReturnsStep ==
    ASSUME IndInv, NEW j \in Jobs, WorkerReturns(j)
    PROVE  IndInv'
<1>1. /\ PoolRuns /\ st[j] = "executing" /\ st' = [st EXCEPT ![j] = "executed"]
      /\ arg' = [arg EXCEPT ![j] = Freed] \/ arg' = arg
      /\ phase' = phase /\ why' = why /\ link' = link
      /\ handlers' = handlers /\ joins' = joins /\ raised' = raised
      /\ completed' = completed /\ pending' = pending /\ done' = done
      /\ ref' = ref /\ locks' = locks /\ quits' = quits /\ stale' = stale
  BY DEF WorkerReturns, stop, Pool!Return
<1>2. TypeOK /\ Queued /\ Owned /\ InLine /\ Progress /\ Counted /\ Reasons
  BY DEF IndInv
<1>3. /\ st' \in [Jobs -> Status] /\ st'[j] = "executed"
      /\ \A k \in Jobs : k # j => st'[k] = st[k]
  BY <1>1, <1>2, Replaced DEF Queued, Status
<1>4. /\ arg' \in [Jobs -> {NoArg, Freed} \cup Allocated]
      /\ arg'[j] \in {Freed} \cup Allocated
      /\ \A k \in Jobs : k # j => arg'[k] = arg[k]
  <2>1. arg \in [Jobs -> {NoArg, Freed} \cup Allocated] /\ arg[j] \in Allocated
    BY <1>1, <1>2 DEF TypeOK, Owned
  <2>2. Freed \in {NoArg, Freed} \cup Allocated
    OBVIOUS
  <2>3. /\ [arg EXCEPT ![j] = Freed] \in [Jobs -> {NoArg, Freed} \cup Allocated]
        /\ [arg EXCEPT ![j] = Freed][j] = Freed
        /\ \A k \in Jobs : k # j => [arg EXCEPT ![j] = Freed][k] = arg[k]
    BY <2>1, <2>2, Replaced
  <2> QED BY <1>1, <2>1, <2>3
<1>5. TypeOK'
  BY <1>1, <1>2, <1>4 DEF TypeOK
<1>6. \A i \in DOMAIN pending : pending[i] # j /\ pending[i] \in Jobs
  <2>1. \A i \in DOMAIN pending : pending[i] # j
    BY <1>1, <1>2 DEF Queued
  <2>2. pending \in Seq(Jobs)
    BY <1>2 DEF TypeOK
  <2> QED BY <2>1, <2>2
<1>7. Queued'
  BY <1>1, <1>2, <1>3, <1>6 DEF Queued
<1>8. Owned'
  <2>1. done # 0 => done \in Jobs /\ done # j
    BY <1>1, <1>2, DoneJob DEF Owned
  <2>2. \A k \in Jobs :
          /\ st'[k] \in {"waiting", "assigned", "executing"} => arg'[k] \in Allocated
          /\ st'[k] = "new" => arg'[k] = NoArg
          /\ st'[k] = "executed" /\ k # done' => arg'[k] \in {Freed} \cup Allocated
    BY <1>1, <1>2, <1>3, <1>4 DEF Owned
  <2>3. done # 0 => phase = "loop" /\ st'[done] = "executed" /\ arg'[done] = NoArg
    BY <1>2, <1>3, <1>4, <2>1 DEF Owned
  <2> QED BY <1>1, <2>2, <2>3 DEF Owned
<1>9. Progress'
  BY <1>1, <1>2, <1>3 DEF Progress, PoolRuns
<1>10. InLine'
  <2>1. (Pool!UnderWay)' = Pool!UnderWay
    BY <1>1, <1>3 DEF Pool!UnderWay
  <2> QED BY <1>1, <1>2, <1>4, <1>6, <2>1, LineKept
<1> QED BY <1>1, <1>2, <1>5, <1>7, <1>8, <1>9, <1>10, StopKept DEF IndInv

LEMMA TimeoutStep ==
    ASSUME IndInv, NEW j \in Jobs, Timeout(j)
    PROVE  IndInv'
<1>1. /\ completed' = [completed EXCEPT ![j] = FALSE]
      /\ phase' = phase /\ why' = why /\ link' = link
      /\ handlers' = handlers /\ joins' = joins /\ raised' = raised
      /\ arg' = arg /\ st' = st
      /\ pending' = pending /\ done' = done /\ ref' = ref /\ locks' = locks
      /\ quits' = quits /\ stale' = stale
  BY DEF Timeout, pool, stop
<1>2. TypeOK /\ Queued /\ Owned /\ InLine /\ Progress /\ Counted /\ Reasons
  BY DEF IndInv
<1>3. completed' \in [Jobs -> BOOLEAN]
  BY <1>1, <1>2 DEF TypeOK
<1>4. TypeOK'
  BY <1>1, <1>2, <1>3 DEF TypeOK
<1> QED BY <1>1, <1>2, <1>4, JobsKept, ProgressKept, StopKept DEF IndInv

(* What handlerJobFinished has done when the job is destroyed.             *)
LEMMA FinishStep ==
    ASSUME IndInv, NEW j \in Jobs, Finish(j)
    PROVE  IndInv'
<1>1. /\ Waiting /\ st[j] = "executed" /\ done' = j
      /\ arg' = [arg EXCEPT ![j] = NoArg]
      /\ raised' \in {<<>>, Line("WARNING"), Line("ERROR")}
      /\ completed' = [completed EXCEPT ![j] = TRUE]
      /\ phase' = phase /\ why' = why /\ link' = link
      /\ handlers' = handlers /\ joins' = joins /\ st' = st
      /\ pending' = pending /\ ref' = ref /\ locks' = locks
      /\ quits' = quits /\ stale' = stale
  BY DEF Finish, Complaints, stop
<1>2. TypeOK /\ Queued /\ Owned /\ InLine /\ Progress /\ Counted /\ Reasons
  BY DEF IndInv
<1>3. /\ arg' \in [Jobs -> {NoArg, Freed} \cup Allocated] /\ arg'[j] = NoArg
      /\ \A k \in Jobs : k # j => arg'[k] = arg[k]
  BY <1>1, <1>2, Replaced DEF TypeOK
<1>4. completed' \in [Jobs -> BOOLEAN]
  BY <1>1, <1>2 DEF TypeOK
<1>5. raised' \in Seq(Allocated)
  BY <1>1, LineType
<1>6. done' \in 0..MaxJobs /\ 0 \notin Jobs
  BY <1>1, Bounds DEF Jobs
<1>7. TypeOK'
  BY <1>1, <1>2, <1>3, <1>4, <1>5, <1>6 DEF TypeOK
<1>8. Queued'
  BY <1>1, <1>2 DEF Queued
<1>9. Owned'
  <2>1. done = 0 /\ phase = "loop"
    BY <1>1 DEF Waiting
  <2>2. \A k \in Jobs :
          /\ st'[k] \in {"waiting", "assigned", "executing"} => arg'[k] \in Allocated
          /\ st'[k] = "new" => arg'[k] = NoArg
          /\ st'[k] = "executed" /\ k # done' => arg'[k] \in {Freed} \cup Allocated
    BY <1>1, <1>2, <1>3, <1>6, <2>1 DEF Owned
  <2> QED BY <1>1, <1>3, <2>1, <2>2 DEF Owned
<1>10. Progress'
  BY <1>1, <1>2, ProgressKept DEF Waiting
<1>11. InLine'
  <2>1. \A i \in DOMAIN pending : pending[i] # j /\ pending[i] \in Jobs
    <3>1. \A i \in DOMAIN pending : pending[i] # j
      BY <1>1, <1>2 DEF Queued
    <3>2. pending \in Seq(Jobs)
      BY <1>2 DEF TypeOK
    <3> QED BY <3>1, <3>2
  <2>2. (Pool!UnderWay)' = Pool!UnderWay
    BY <1>1 DEF Pool!UnderWay
  <2> QED BY <1>1, <1>2, <1>3, <2>1, <2>2, LineKept
<1> QED BY <1>1, <1>2, <1>7, <1>8, <1>9, <1>10, <1>11, StopKept DEF IndInv

(* The job that was finished is not in the queue; the one that is taken    *)
(* from it waited.                                                         *)
LEMMA NextJobStep ==
    ASSUME IndInv, NextJob
    PROVE  IndInv'
<1>1. /\ done # 0
      /\ st' = [j \in Jobs |-> IF j = done THEN "new"
                               ELSE IF j \in Dequeued THEN "assigned" ELSE st[j]]
      /\ pending' = IF Dequeued = {} THEN pending ELSE Tail(pending)
      /\ done' = 0
      /\ phase' = phase /\ why' = why /\ link' = link
      /\ handlers' = handlers /\ joins' = joins /\ raised' = raised
      /\ arg' = arg /\ completed' = completed
      /\ ref' = ref /\ locks' = locks /\ quits' = quits /\ stale' = stale
  BY DEF NextJob, stop
<1>2. TypeOK /\ Queued /\ Owned /\ InLine /\ Progress /\ Counted /\ Reasons
  BY DEF IndInv
<1>3. /\ done \in Jobs /\ phase = "loop" /\ st[done] = "executed" /\ arg[done] = NoArg
      /\ st \in [Jobs -> Status] /\ pending \in Seq(Jobs)
  BY <1>1, <1>2, DoneJob DEF Owned, Queued, TypeOK
<1>4. \A j \in Dequeued : j \in Jobs /\ st[j] = "waiting"
                          /\ \A i \in DOMAIN pending' : pending'[i] # j
  <2>1. ASSUME pending # <<>>
        PROVE  /\ Head(pending) \in Jobs /\ st[Head(pending)] = "waiting"
               /\ \A i \in DOMAIN Tail(pending) : Tail(pending)[i] # Head(pending)
    <3>1. /\ 1 \in DOMAIN pending /\ Head(pending) = pending[1]
          /\ \A i \in DOMAIN Tail(pending) :
                /\ i + 1 \in DOMAIN pending /\ i + 1 # 1
                /\ Tail(pending)[i] = pending[i + 1]
      BY <1>3, <2>1
    <3> QED BY <1>2, <1>3, <3>1 DEF Queued
  <2> QED BY <1>1, <2>1 DEF Dequeued
<1>5. /\ st' \in [Jobs -> Status] /\ st'[done] = "new"
      /\ \A k \in Jobs : k # done =>
            st'[k] = IF k \in Dequeued THEN "assigned" ELSE st[k]
  BY <1>1, <1>3 DEF Status
<1>6. /\ pending' \in Seq(Jobs)
      /\ \A i \in DOMAIN pending' : \E k \in DOMAIN pending : pending'[i] = pending[k]
      /\ \A i, k \in DOMAIN pending' : pending'[i] = pending'[k] => i = k
  <2>1. CASE Dequeued = {}
    BY <1>1, <1>2, <1>3, <2>1 DEF Queued
  <2>2. CASE Dequeued # {}
    <3>1. pending # <<>> /\ pending' = Tail(pending)
      BY <1>1, <2>2 DEF Dequeued
    <3>2. /\ Tail(pending) \in Seq(Jobs)
          /\ \A i \in DOMAIN Tail(pending) :
                i \in Nat /\ i + 1 \in DOMAIN pending /\ Tail(pending)[i] = pending[i + 1]
      BY <1>3, <3>1
    <3>3. \A i, k \in DOMAIN Tail(pending) : Tail(pending)[i] = Tail(pending)[k] => i = k
      <4>1. \A i, k \in DOMAIN Tail(pending) :
               pending[i + 1] = pending[k + 1] => i + 1 = k + 1
        BY <1>2, <3>2 DEF Queued
      <4>2. \A i, k \in Nat : i + 1 = k + 1 => i = k
        OBVIOUS
      <4> QED BY <3>2, <4>1, <4>2
    <3> QED BY <3>1, <3>2, <3>3
  <2> QED BY <2>1, <2>2
<1>7. TypeOK'
  <2>1. done' \in 0..MaxJobs
    BY <1>1, Bounds
  <2> QED BY <1>1, <1>2, <1>6, <2>1 DEF TypeOK
<1>8. Queued'
  <2>1. \A i \in DOMAIN pending' :
           pending'[i] \in Jobs /\ st[pending'[i]] = "waiting" /\ pending'[i] \notin Dequeued
    BY <1>2, <1>3, <1>4, <1>6 DEF Queued
  <2>2. \A i \in DOMAIN pending' : st'[pending'[i]] = "waiting"
    BY <1>3, <1>5, <2>1
  <2> QED BY <1>5, <1>6, <2>2 DEF Queued
<1>9. Owned'
  BY <1>1, <1>2, <1>3, <1>4, <1>5 DEF Owned
<1>10. Progress'
  BY <1>1, <1>2, <1>3, <1>5 DEF Progress
<1>11. InLine'
  <2>1. CASE Dequeued = {}
    <3>1. pending' = <<>>
      BY <1>1, <2>1 DEF Dequeued
    <3>2. DOMAIN pending' = {}
      BY <3>1
    <3> QED BY <3>2 DEF InLine
  <2>2. CASE Dequeued # {}
    <3>1. PICK j \in Jobs : Dequeued = {j} /\ st[j] = "waiting"
      BY <1>4, <2>2 DEF Dequeued
    <3>2. /\ Pool!UnderWay \in SUBSET Jobs /\ done \in Pool!UnderWay
          /\ j \in Jobs \ Pool!UnderWay
          /\ (Pool!UnderWay)' = (Pool!UnderWay \ {done}) \cup {j}
      BY <1>3, <1>5, <3>1 DEF Pool!UnderWay
    <3>3. Cardinality((Pool!UnderWay)') = Cardinality(Pool!UnderWay)
      BY <3>2, BusyCount
    <3> QED BY <1>1, <1>2, <1>6, <3>3 DEF InLine, IsHandlerJob
  <2> QED BY <2>1, <2>2
<1> QED BY <1>1, <1>2, <1>7, <1>8, <1>9, <1>10, <1>11, StopKept DEF IndInv

-----------------------------------------------------------------------------
(* The end of the loop.                                                    *)

(* The loop ends, for another reason than that nothing is locked, or when  *)
(* no server has a connection.                                             *)
LEMMA LoopEndsOK ==
    ASSUME IndInv, Waiting, NEW reason \in {"unlocked", "timeout", "panic"}, LoopEnds(reason)
    PROVE  /\ phase = "loop" /\ phase' = "pool" /\ why' = reason
           /\ raised' \in Seq({LogArg}) /\ stale = {}
BY LineType DEF Waiting, LoopEnds, IndInv, Reasons

LEMMA PanicStep ==
    ASSUME IndInv, NEW j \in Jobs, Panic(j)
    PROVE  IndInv'
<1>1. /\ Waiting /\ st[j] = "executed" /\ st' = [st EXCEPT ![j] = "panicked"]
      /\ LoopEnds("panic")
      /\ link' = link /\ handlers' = handlers /\ joins' = joins
      /\ arg' = arg /\ completed' = completed
      /\ pending' = pending /\ done' = done /\ ref' = ref
      /\ locks' = locks /\ quits' = quits /\ stale' = stale
  <2>1. \E end \in {"finished", "panicked"} : st' = [st EXCEPT ![j] = end]
    BY DEF Panic, Pool!Finish
  <2>2. st \in [Jobs -> Status] /\ st'[j] = "panicked"
    BY DEF IndInv, Queued, Panic
  <2>3. st' = [st EXCEPT ![j] = "panicked"]
    BY <2>1, <2>2
  <2> QED BY <2>3 DEF Panic, stop, Pool!Finish
<1>2. TypeOK /\ Queued /\ Owned /\ InLine /\ Progress /\ Counted /\ Reasons
  BY DEF IndInv
<1>3. /\ phase = "loop" /\ phase' = "pool" /\ why' = "panic" /\ done = 0
      /\ raised' \in Seq({LogArg}) /\ stale = {}
  BY <1>1, LoopEndsOK, LineType DEF Waiting
<1>4. /\ st' \in [Jobs -> Status] /\ st'[j] = "panicked"
      /\ \A k \in Jobs : k # j => st'[k] = st[k]
  BY <1>1, <1>2, Replaced DEF Queued, Status
<1>5. TypeOK'
  <2>1. raised' \in Seq(Allocated)
    BY <1>3, LineType
  <2> QED BY <1>1, <1>2, <1>3, <2>1 DEF TypeOK, Phases
<1>6. Queued'
  <2>1. \A i \in DOMAIN pending : pending[i] # j
    BY <1>1, <1>2 DEF Queued
  <2>2. pending \in Seq(Jobs)
    BY <1>2 DEF TypeOK
  <2>3. \A i \in DOMAIN pending : pending[i] \in Jobs
    BY <2>2
  <2> QED BY <1>1, <1>2, <1>4, <2>1, <2>3 DEF Queued
<1>7. Owned'
  BY <1>1, <1>2, <1>3, <1>4 DEF Owned
<1>8. Progress' /\ InLine'
  BY <1>3 DEF Progress, InLine
<1>9. Counted'
  BY <1>1, <1>2 DEF Counted, LockedOnce
<1>10. Reasons'
  BY <1>1, <1>3 DEF Reasons
<1> QED BY <1>5, <1>6, <1>7, <1>8, <1>9, <1>10 DEF IndInv

(* The loop ends, for reason, and nothing else changes.                    *)
LEMMA EndOK ==
    ASSUME IndInv, Waiting, NEW reason \in {"unlocked", "timeout", "pselect"},
           phase' = "pool", why' = reason, raised' \in Seq({LogArg}),
           link' = link, handlers' = handlers, joins' = joins, arg' = arg,
           completed' = completed, st' = st,
           pending' = pending, done' = done, ref' = ref, locks' = locks,
           quits' = quits, stale' = stale,
           reason = "unlocked" /\ quits <= 1 => \A s \in ServerIds : link[s] = "none"
    PROVE  IndInv'
<1>1. TypeOK /\ Queued /\ Owned /\ InLine /\ Progress /\ Counted /\ Reasons
  BY DEF IndInv
<1>2. phase = "loop" /\ done = 0 /\ stale = {}
  BY <1>1 DEF Waiting, Reasons
<1>3. TypeOK'
  <2>1. raised' \in Seq(Allocated)
    BY LineType
  <2> QED BY <1>1, <2>1 DEF TypeOK, Phases
<1>4. Queued' /\ Owned'
  BY <1>1, <1>2 DEF Queued, Owned
<1>5. Progress' /\ InLine'
  BY DEF Progress, InLine
<1>6. Counted'
  BY <1>1 DEF Counted, LockedOnce
<1>7. Reasons'
  BY <1>2 DEF Reasons
<1> QED BY <1>3, <1>4, <1>5, <1>6, <1>7 DEF IndInv

(* With one request, nothing is locked any more when shutdownRef is 0.     *)
LEMMA UnlockedStep ==
    ASSUME IndInv, Unlocked
    PROVE  IndInv'
<1>1. /\ Waiting /\ ref = 0 /\ LoopEnds("unlocked")
      /\ link' = link /\ handlers' = handlers /\ joins' = joins
      /\ arg' = arg /\ completed' = completed
      /\ st' = st /\ pending' = pending /\ done' = done
      /\ ref' = ref /\ locks' = locks /\ quits' = quits /\ stale' = stale
  BY DEF Unlocked, pool, stop
<1>2. TypeOK /\ Counted
  BY DEF IndInv
<1>3. quits \in 0..MaxQuit /\ \A s \in ServerIds : locks[s] \in 0..MaxQuit
  BY <1>2 DEF TypeOK
<1>4. ASSUME quits <= 1
      PROVE  \A s \in ServerIds : link[s] = "none"
  <2>1. quits # 0
    BY <1>1, <1>2 DEF Counted
  <2>2. quits = 1
    BY <1>3, <1>4, <2>1
  <2>3. Cardinality(LockedOnce) = 0
    BY <1>1, <1>2, <2>2 DEF Counted
  <2>4. LockedOnce = {}
    <3>1. IsFiniteSet(LockedOnce)
      BY ServerCount DEF LockedOnce
    <3> QED BY <2>3, <3>1, FS_EmptySet
  <2>5. \A s \in ServerIds : locks[s] <= 1 /\ locks[s] # 1
    BY <1>2, <2>2, <2>4 DEF Counted, LockedOnce
  <2>6. \A s \in ServerIds : locks[s] = 0
    BY <1>3, <2>5
  <2> QED BY <1>2, <2>2, <2>6 DEF Counted
<1>5. phase' = "pool" /\ why' = "unlocked" /\ raised' \in Seq({LogArg})
  BY <1>1, LoopEndsOK
<1> QED BY <1>1, <1>4, <1>5, EndOK

LEMMA ShutdownTimeoutStep ==
    ASSUME IndInv, ShutdownTimeout
    PROVE  IndInv'
<1>1. /\ Waiting /\ LoopEnds("timeout")
      /\ link' = link /\ handlers' = handlers /\ joins' = joins
      /\ arg' = arg /\ completed' = completed
      /\ st' = st /\ pending' = pending /\ done' = done
      /\ ref' = ref /\ locks' = locks /\ quits' = quits /\ stale' = stale
  BY DEF ShutdownTimeout, pool, stop
<1>2. phase' = "pool" /\ why' = "timeout" /\ raised' \in Seq({LogArg})
  BY <1>1, LoopEndsOK
<1> QED BY <1>1, <1>2, EndOK

LEMMA PselectFailsStep ==
    ASSUME IndInv, PselectFails
    PROVE  IndInv'
<1>1. /\ Waiting /\ phase' = "pool" /\ why' = "pselect"
      /\ raised' = Line("ERROR") \o Line("INFO")
      /\ link' = link /\ handlers' = handlers /\ joins' = joins
      /\ arg' = arg /\ completed' = completed /\ st' = st
      /\ pending' = pending /\ done' = done /\ ref' = ref
      /\ locks' = locks /\ quits' = quits /\ stale' = stale
  BY DEF PselectFails, pool, stop
<1>2. raised' \in Seq({LogArg})
  <2>1. Line("ERROR") \in Seq({LogArg}) /\ Line("INFO") \in Seq({LogArg})
    BY LineType
  <2> QED BY <1>1, <2>1
<1> QED BY <1>1, <1>2, EndOK

LEMMA UnlockType ==
    ASSUME TypeOK, NEW n \in Nat
    PROVE  /\ Service_shutdownUnlock(n) \in -1..Len(Servers)
           /\ ref >= 1 => Service_shutdownUnlock(1) = ref - 1
           /\ ref = -1 => Service_shutdownUnlock(n) = ref
<1>1. ref \in -1..Len(Servers) /\ Len(Servers) \in Nat
  BY ServerCount DEF TypeOK
<1>2. ASSUME ref > 0
      PROVE  Service_shutdownUnlock(n) = IF ref - n > 0 THEN ref - n ELSE 0
  <2>1. ref - n \in Int
    BY <1>1
  <2> QED BY <1>2, <2>1, MaxOf DEF Service_shutdownUnlock
<1>3. ASSUME ref >= 1
      PROVE  Service_shutdownUnlock(1) = ref - 1
  <2>1. ref - 1 \in Int /\ ref > 0
    BY <1>1, <1>3
  <2>2. Service_shutdownUnlock(1) = Max({0, ref - 1})
    BY <2>1 DEF Service_shutdownUnlock
  <2>3. Max({0, ref - 1}) = IF ref - 1 > 0 THEN ref - 1 ELSE 0
    BY <2>1, MaxOf
  <2> QED BY <1>1, <1>3, <2>2, <2>3
<1>4. ASSUME ~(ref > 0)
      PROVE  Service_shutdownUnlock(n) = ref
  BY <1>4 DEF Service_shutdownUnlock
<1> QED BY <1>1, <1>2, <1>3, <1>4

LEMMA DisconnectedStep ==
    ASSUME IndInv, NEW s \in ServerIds, Disconnected(s)
    PROVE  IndInv'
<1>1. /\ Waiting /\ link[s] # "none" /\ link' = [link EXCEPT ![s] = "none"]
      /\ locks' = [locks EXCEPT ![s] = 0]
      /\ ref' = IF locks[s] > 0 THEN Service_shutdownUnlock(locks[s]) ELSE ref
      /\ phase' = phase /\ why' = why /\ handlers' = handlers
      /\ joins' = joins /\ raised' = raised /\ arg' = arg
      /\ completed' = completed
      /\ st' = st /\ pending' = pending /\ done' = done /\ quits' = quits
      /\ stale' = stale
  BY DEF Disconnected, Sessions!Disconnect, bot, pool
<1>2. TypeOK /\ Queued /\ Owned /\ InLine /\ Progress /\ Counted /\ Reasons
  BY DEF IndInv
<1>3. /\ link' \in [ServerIds -> {"none", "pending", "in"}] /\ link'[s] = "none"
      /\ \A e \in ServerIds : e # s => link'[e] = link[e]
  BY <1>1, <1>2, Replaced DEF TypeOK
<1>4. /\ locks \in [ServerIds -> 0..MaxQuit] /\ 0 \in 0..MaxQuit
      /\ \A e \in ServerIds : locks[e] \in 0..MaxQuit
      /\ quits \in 0..MaxQuit /\ ref \in -1..Len(Servers)
  <2>1. 0 \in 0..MaxQuit
    BY Bounds
  <2> QED BY <1>2, <2>1 DEF TypeOK
<1>5. /\ locks' \in [ServerIds -> 0..MaxQuit] /\ locks'[s] = 0
      /\ \A e \in ServerIds : e # s => locks'[e] = locks[e]
  BY <1>1, <1>4, Replaced
<1>6. ref' \in -1..Len(Servers)
  <2>1. locks[s] \in Nat
    BY <1>4
  <2> QED BY <1>1, <1>2, <1>4, <2>1, UnlockType
<1>7. TypeOK'
  BY <1>1, <1>2, <1>3, <1>5, <1>6 DEF TypeOK
<1>8. \A e \in ServerIds : locks'[e] <= quits
  <2>1. 0 <= quits
    BY <1>4
  <2> QED BY <1>2, <1>5, <2>1 DEF Counted
<1>9. quits = 0 => ref' = -1
  BY <1>1, <1>2, <1>4, UnlockType DEF Counted
<1>10. ASSUME quits = 1
       PROVE  ref' = Cardinality(LockedOnce') /\ \A e \in ServerIds : locks'[e] = 0 => link'[e] = "none"
  <2>1. locks[s] = 1
    <3>1. locks[s] <= 1 /\ locks[s] # 0
      BY <1>1, <1>2, <1>10 DEF Counted
    <3> QED BY <1>4, <3>1
  <2>2. s \in LockedOnce /\ LockedOnce' = LockedOnce \ {s}
    BY <1>5, <2>1 DEF LockedOnce
  <2>3. IsFiniteSet(LockedOnce) /\ Cardinality(LockedOnce) \in Nat
    BY ServerCount, FS_CardinalityType DEF LockedOnce
  <2>4. Cardinality(LockedOnce') = Cardinality(LockedOnce) - 1
    BY <2>2, <2>3, FS_RemoveElement
  <2>5. Cardinality(LockedOnce) # 0
    BY <2>2, <2>3, FS_EmptySet
  <2>6. ref = Cardinality(LockedOnce) /\ ref >= 1
    <3>1. ref = Cardinality(LockedOnce)
      BY <1>2, <1>10 DEF Counted
    <3> QED BY <2>3, <2>5, <3>1
  <2>7. ref' = ref - 1
    <3>1. locks[s] > 0
      BY <2>1
    <3>2. ref' = Service_shutdownUnlock(1)
      BY <1>1, <2>1, <3>1
    <3>3. 1 \in Nat
      OBVIOUS
    <3> QED BY <1>2, <2>6, <3>2, <3>3, UnlockType
  <2>8. ref' = Cardinality(LockedOnce')
    BY <2>4, <2>6, <2>7
  <2> QED BY <1>2, <1>3, <1>5, <1>10, <2>8 DEF Counted
<1>11. Counted'
  BY <1>1, <1>8, <1>9, <1>10 DEF Counted
<1>12. Reasons'
  BY <1>1, <1>2 DEF Reasons, Waiting
<1> QED BY <1>1, <1>2, <1>7, <1>11, <1>12, JobsKept, ProgressKept DEF IndInv

(* The servers that a first request does not leave locked are disconnected *)
(* at once; shutdownRef counts the others.                                 *)
LEMMA ShutdownStep ==
    ASSUME IndInv, Shutdown
    PROVE  IndInv'
<1>1. /\ Waiting /\ quits < MaxQuit /\ quits' = quits + 1 /\ ref' = Cardinality(Locked)
      /\ locks' = [s \in ServerIds |-> IF s \in Locked THEN locks[s] + 1 ELSE 0]
      /\ link' = [s \in ServerIds |-> IF link[s] = "pending" THEN "none" ELSE link[s]]
      /\ \/ ref' = 0 /\ LoopEnds("unlocked")
         \/ ref' # 0 /\ phase' = phase /\ why' = why /\ raised' = raised
      /\ handlers' = handlers /\ joins' = joins /\ arg' = arg
      /\ completed' = completed
      /\ st' = st /\ pending' = pending /\ done' = done /\ stale' = stale
  BY DEF Shutdown, Sessions!Shutdown, pool
<1>2. TypeOK /\ Queued /\ Owned /\ InLine /\ Progress /\ Counted /\ Reasons
  BY DEF IndInv
<1>3. quits \in 0..MaxQuit /\ \A s \in ServerIds : locks[s] \in 0..MaxQuit /\ locks[s] <= quits
  BY <1>2 DEF TypeOK, Counted
<1>4. quits' \in 0..MaxQuit
  BY <1>1, <1>3, Bounds
<1>5. \A s \in ServerIds : locks[s] + 1 \in 0..MaxQuit /\ locks[s] + 1 <= quits' /\ 0 <= quits'
                           /\ 0 \in 0..MaxQuit
  BY <1>1, <1>3, Bounds
<1>6. locks' \in [ServerIds -> 0..MaxQuit] /\ \A s \in ServerIds : locks'[s] <= quits'
  BY <1>1, <1>5
<1>7. /\ link' \in [ServerIds -> {"none", "pending", "in"}]
      /\ \A s \in ServerIds : s \notin Locked => link'[s] = "none"
  BY <1>1, <1>2 DEF TypeOK, Locked
<1>8. ref' \in 0..Len(Servers) /\ ref' \in -1..Len(Servers) /\ IsFiniteSet(Locked)
  <2>1. Locked \in SUBSET ServerIds
    BY DEF Locked
  <2>2. ref' \in 0..Len(Servers) /\ IsFiniteSet(Locked)
    BY <1>1, <2>1, ServerCount
  <2> QED BY <2>2, ServerCount
<1>9. quits' # 0
  BY <1>1, <1>3
<1>10. ASSUME quits' = 1
       PROVE  /\ ref' = Cardinality(LockedOnce')
              /\ \A s \in ServerIds : locks'[s] = 0 => link'[s] = "none"
  <2>1. quits = 0
    BY <1>1, <1>3, <1>10
  <2>2. \A s \in ServerIds : locks[s] = 0
    BY <1>3, <2>1
  <2>3. \A s \in ServerIds : locks'[s] = IF s \in Locked THEN 1 ELSE 0
    BY <1>1, <2>2
  <2>4. LockedOnce' = Locked
    BY <2>3 DEF LockedOnce, Locked
  <2>5. \A s \in ServerIds : locks'[s] = 0 => s \notin Locked
    BY <2>3
  <2> QED BY <1>1, <1>7, <2>4, <2>5
<1>11. Counted'
  BY <1>6, <1>9, <1>10 DEF Counted
<1>12. CASE ref' = 0 /\ LoopEnds("unlocked")
  <2>1. /\ phase = "loop" /\ phase' = "pool" /\ why' = "unlocked" /\ done = 0
        /\ raised' \in Seq({LogArg}) /\ stale = {}
    BY <1>1, <1>12, LoopEndsOK DEF Waiting
  <2>2. TypeOK'
    <3>1. raised' \in Seq(Allocated)
      BY <2>1, LineType
    <3> QED BY <1>1, <1>2, <1>4, <1>6, <1>7, <1>8, <2>1, <3>1 DEF TypeOK, Phases
  <2>3. Queued' /\ Owned'
    BY <1>1, <1>2, <2>1 DEF Queued, Owned
  <2>4. Progress' /\ InLine'
    BY <2>1 DEF Progress, InLine
  <2>5. Locked = {}
    BY <1>1, <1>8, <1>12, FS_EmptySet
  <2>6. Reasons'
    BY <1>1, <1>7, <2>1, <2>5 DEF Reasons
  <2> QED BY <1>11, <2>2, <2>3, <2>4, <2>6 DEF IndInv
<1>13. CASE phase' = phase /\ why' = why /\ raised' = raised
  <2>1. TypeOK'
    BY <1>1, <1>2, <1>4, <1>6, <1>7, <1>8, <1>13 DEF TypeOK
  <2>2. Queued' /\ Owned' /\ InLine'
    BY <1>1, <1>2, <1>13, JobsKept
  <2>3. Progress'
    BY <1>1, <1>2, <1>13 DEF Progress, Waiting
  <2>4. Reasons'
    BY <1>1, <1>2, <1>13 DEF Reasons, Waiting
  <2> QED BY <1>11, <2>1, <2>2, <2>3, <2>4 DEF IndInv
<1> QED BY <1>1, <1>12, <1>13

LEMMA ThreadPoolDoneStep ==
    ASSUME IndInv, ThreadPool_done
    PROVE  IndInv'
<1>1. /\ phase = "pool" /\ raised = <<>> /\ WorkersGone /\ phase' = "end"
      /\ pending' = <<>>
      /\ st' = [j \in Jobs |-> IF st[j] = "waiting" THEN "dropped" ELSE st[j]]
      /\ stale' = UsedStale
      /\ handlers' = <<>> /\ joins' = [p \in Places |-> 0]
      /\ why' = why /\ link' = link /\ raised' = raised /\ arg' = arg
      /\ completed' = completed
      /\ done' = done /\ ref' = ref /\ locks' = locks /\ quits' = quits
  BY DEF ThreadPool_done, stop, Pool!Close
<1>2. TypeOK /\ Queued /\ Owned /\ InLine /\ Progress /\ Counted /\ Reasons
  BY DEF IndInv
<1>3. /\ handlers' \in Seq(Registrable) /\ Len(handlers') <= MaxHandlers
      /\ joins' \in [Places -> 0..MaxJoins] /\ pending' \in Seq(Jobs)
      /\ phase' \in Phases /\ stale' \in SUBSET (ServerIds \X {"service", "own"})
  <2>1. <<>> \in Seq(Registrable) /\ Len(<<>>) = 0 /\ <<>> \in Seq(Jobs)
    OBVIOUS
  <2>2. 0 <= MaxHandlers /\ 0 \in 0..MaxJoins
    BY Bounds
  <2>3. joins' \in [Places -> 0..MaxJoins]
    BY <1>1, <2>2
  <2>4. UsedStale \in SUBSET (ServerIds \X {"service", "own"})
    BY DEF UsedStale
  <2> QED BY <1>1, <2>1, <2>2, <2>3, <2>4 DEF Phases
<1>4. TypeOK'
  BY <1>1, <1>2, <1>3 DEF TypeOK
<1>5. /\ st' \in [Jobs -> Status]
      /\ \A k \in Jobs : st'[k] = IF st[k] = "waiting" THEN "dropped" ELSE st[k]
  BY <1>1, <1>2 DEF Queued, Status
<1>6. Queued'
  BY <1>1, <1>5 DEF Queued
<1>7. Owned'
  BY <1>1, <1>2, <1>5 DEF Owned
<1>8. Progress' /\ InLine'
  BY <1>1, <1>5 DEF Progress, InLine, WorkersGone
<1>9. Counted'
  BY <1>1, <1>2 DEF Counted, LockedOnce
<1>10. Reasons'
  <2>1. \A s \in ServerIds : <<s, "service">> \in UsedStale => link[s] # "none"
    BY DEF UsedStale
  <2> QED BY <1>1, <1>2, <2>1 DEF Reasons
<1> QED BY <1>4, <1>6, <1>7, <1>8, <1>9, <1>10 DEF IndInv

-----------------------------------------------------------------------------
(* The invariant.                                                          *)

LEMMA InitInv == Init => IndInv
<1> SUFFICES ASSUME Init PROVE IndInv
  OBVIOUS
<1>1. /\ phase = "setup" /\ why = "" /\ handlers = <<>> /\ raised = <<>>
      /\ link = [s \in ServerIds |-> "none"] /\ joins = [p \in Places |-> 0]
      /\ arg = [j \in Jobs |-> NoArg]
      /\ completed = [j \in Jobs |-> TRUE]
      /\ st = [j \in Jobs |-> "new"] /\ pending = <<>> /\ done = 0
      /\ ref = -1 /\ locks = [s \in ServerIds |-> 0] /\ quits = 0 /\ stale = {}
  BY DEF Init, Pool!Init
<1>2. /\ 0 \in 0..MaxJoins /\ 0 \in 0..MaxJobs /\ 0 \in 0..MaxQuit
      /\ -1 \in -1..Len(Servers) /\ 0 <= MaxHandlers
  BY Bounds, ServerCount
<1>3. handlers \in Seq(Registrable) /\ Len(handlers) <= MaxHandlers /\ pending \in Seq(Jobs)
      /\ raised \in Seq(Allocated)
  <2>1. <<>> \in Seq(Registrable) /\ <<>> \in Seq(Jobs) /\ Len(<<>>) = 0
        /\ <<>> \in Seq(Allocated)
    OBVIOUS
  <2> QED BY <1>1, <1>2, <2>1
<1>4. /\ link \in [ServerIds -> {"none", "pending", "in"}]
      /\ joins \in [Places -> 0..MaxJoins]
      /\ arg \in [Jobs -> {NoArg, Freed} \cup Allocated]
      /\ completed \in [Jobs -> BOOLEAN]
      /\ locks \in [ServerIds -> 0..MaxQuit]
  BY <1>1, <1>2
<1>5. TypeOK
  BY <1>1, <1>2, <1>3, <1>4 DEF TypeOK, Phases
<1>6. Queued
  <2>1. DOMAIN <<>> = {}
    OBVIOUS
  <2>2. DOMAIN pending = {}
    BY <1>1, <2>1
  <2> QED BY <1>1, <2>2 DEF Queued, Status
<1>7. Owned /\ InLine
  BY <1>1 DEF Owned, InLine
<1>8. Progress
  BY <1>1 DEF Progress
<1>9. Counted
  <2>1. 0 <= 0 /\ 0 # 1
    OBVIOUS
  <2> QED BY <1>1, <2>1 DEF Counted
<1>10. Reasons
  BY <1>1 DEF Reasons
<1> QED BY <1>5, <1>6, <1>7, <1>8, <1>9, <1>10 DEF IndInv

LEMMA Stutter ==
    ASSUME IndInv, UNCHANGED vars
    PROVE  IndInv'
<1>1. /\ phase' = phase /\ why' = why /\ link' = link
      /\ handlers' = handlers /\ joins' = joins /\ raised' = raised
      /\ arg' = arg /\ completed' = completed
      /\ st' = st /\ pending' = pending /\ done' = done
      /\ ref' = ref /\ locks' = locks /\ quits' = quits /\ stale' = stale
  BY DEF vars, bot, pool, stop
<1>2. TypeOK'
  BY <1>1 DEF IndInv, TypeOK
<1> QED BY <1>1, <1>2, JobsKept, ProgressKept, StopKept DEF IndInv

LEMMA StepInv == IndInv /\ [Next]_vars => IndInv'
<1> SUFFICES ASSUME IndInv, [Next]_vars PROVE IndInv'
  OBVIOUS
<1>1. CASE \E h \in Registrable : IrcBot_addHandler(h)
  BY <1>1, AddHandlerStep
<1>2. CASE Startup
  <2>1. Len(Servers) \in 0..Len(Servers) /\ TRUE \in BOOLEAN /\ FALSE \in BOOLEAN
    BY ServerCount
  <2>2. \E n \in 0..Len(Servers), rc \in BOOLEAN : startup(n, rc)
    BY <1>2, <2>1 DEF Startup
  <2> QED BY <2>2, StartupStep
<1>3. CASE \E s \in ServerIds : LoggedIn(s) \/ Reconnect(s) \/ Disconnected(s)
  BY <1>3, LoggedInStep, ReconnectStep, DisconnectedStep
<1>4. CASE \E s \in ServerIds : \E c \in ChannelsOf[s] :
             \/ ChanJoined(s, c)
             \/ \E type \in {"JOINED", "PARTED"}, n \in Words : UserMoves(s, c, type, n)
  BY <1>4, ChanJoinedStep, UserMovesStep
<1>5. CASE \E s \in ServerIds, bang \in BOOLEAN, word \in Words \cup {NoWord} :
             \E to \in ChannelsOf[s] \cup {Nick} : MsgReceived(s, to, bang, word)
  BY <1>5, MsgReceivedStep
<1>6. CASE LogLine BY <1>6, LogLineStep
<1>7. CASE Dispatch BY <1>7, DispatchStep
<1>8. CASE \E j \in Jobs : \/ WorkerStarts(j) \/ WorkerLogs(j)
                           \/ WorkerReturns(j) \/ Timeout(j) \/ Finish(j) \/ Panic(j)
  BY <1>8, WorkerStartsStep, WorkerLogsStep, WorkerReturnsStep, TimeoutStep,
     FinishStep, PanicStep
<1>9. CASE NextJob BY <1>9, NextJobStep
<1>10. CASE Shutdown \/ Unlocked \/ ShutdownTimeout \/ PselectFails
  BY <1>10, ShutdownStep, UnlockedStep, ShutdownTimeoutStep, PselectFailsStep
<1>11. CASE ThreadPool_done BY <1>11, ThreadPoolDoneStep
<1>12. CASE Ended \/ UNCHANGED vars BY <1>12, Stutter DEF Ended
<1> QED BY <1>1, <1>2, <1>3, <1>4, <1>5, <1>6, <1>7, <1>8, <1>9, <1>10, <1>11, <1>12 DEF Next

(* IndInv is an invariant of every run, for any servers, handlers, levels  *)
(* of log lines and bounds.                                                *)
THEOREM Invariance == Spec => []IndInv
<1>1. Init => IndInv
  BY InitInv
<1>2. IndInv /\ [Next]_vars => IndInv'
  BY StepInv
<1> QED BY <1>1, <1>2, PTL DEF Spec

(* What a worker or handlerJobFinished is going to use is allocated, all   *)
(* the time until the process ends; memory that nobody will free belongs   *)
(* to a job that was refused, or that a panic or the end of the loop has   *)
(* left behind; and no worker executes anything when the lists and the     *)
(* servers are destroyed.                                                  *)
THEOREM ArgumentsLive == Spec => []ArgumentLives
<1>1. ASSUME IndInv PROVE ArgumentLives
  <2>1. TypeOK /\ Queued /\ Owned /\ Progress
    BY <1>1 DEF IndInv
  <2>2. \A j \in Jobs : st[j] \in Status
    BY <2>1 DEF Queued
  <2>3. \A j \in Jobs : st[j] \in {"assigned", "executing"} => phase \in {"loop", "pool"}
    BY <2>1 DEF Progress, TypeOK, Phases
  <2>4. \A j \in Jobs : arg[j] \in Allocated =>
          \/ st[j] \in {"waiting", "assigned", "executing", "executed", "refused"}
          \/ phase # "loop" /\ st[j] \in {"panicked", "dropped"}
    BY <2>1, <2>2, Names DEF Owned, Progress, Status
  <2>5. \A j \in Jobs : phase = "end" =>
          st[j] \in {"new", "executed", "refused", "panicked", "dropped"}
    BY <2>1, <2>2 DEF Progress, Status
  <2> QED BY <2>1, <2>3, <2>4, <2>5 DEF ArgumentLives, Owned
<1> QED BY <1>1, Invariance, PTL

(* Servers use the events of the service after they were destroyed only    *)
(* when the loop ended otherwise than by one shutdown request served in    *)
(* time.                                                                   *)
THEOREM NothingStale == Spec => []NoStaleUse
<1>1. ASSUME IndInv PROVE NoStaleUse
  <2>1. SUFFICES ASSUME NEW s \in ServerIds, <<s, "service">> \in stale
                 PROVE  why \in {"timeout", "panic", "pselect", "failed"} \/ quits > 1
    BY DEF NoStaleUse
  <2>2. TypeOK /\ Reasons
    BY <1>1 DEF IndInv
  <2>3. why # ""
    BY <2>1, <2>2 DEF Reasons
  <2>4. why \in {"", "unlocked", "timeout", "panic", "pselect", "failed"}
        /\ quits \in 0..MaxQuit
    BY <2>2 DEF TypeOK
  <2>5. ~(why = "unlocked" /\ quits <= 1)
    BY <2>1, <2>2 DEF Reasons
  <2>6. quits <= 1 \/ quits > 1
    <3>1. quits \in 0..MaxQuit
      BY <2>4
    <3> QED BY <3>1, Bounds
  <2> QED BY <2>3, <2>4, <2>5, <2>6
<1> QED BY <1>1, Invariance, PTL

-----------------------------------------------------------------------------
(* The order of handlers.                                                  *)

(* Only executeHandler, or the end of the job of a worker, gives a worker  *)
(* a job.                                                                  *)
LEMMA GivenBy ==
    ASSUME IndInv, [Next]_vars, NEW j \in Jobs, st[j] # "assigned", st'[j] = "assigned"
    PROVE  Dispatch \/ NextJob
<1>1. st \in [Jobs -> Status]
  BY DEF IndInv, Queued
<1>2. st' # st
  OBVIOUS
<1>3. ~UNCHANGED pool /\ ~UNCHANGED vars
  BY <1>2 DEF pool, vars
<1>4. \A r, n : ~Raise(r, n)
  BY <1>3 DEF Raise
<1>5. /\ \A h : ~IrcBot_addHandler(h)
      /\ \A n, rc : ~startup(n, rc)
      /\ ~LogLine /\ ~Shutdown /\ ~Unlocked /\ ~ShutdownTimeout /\ ~PselectFails
      /\ \A s : ~Reconnect(s) /\ ~Disconnected(s)
      /\ \A k : ~Timeout(k)
  BY <1>3 DEF IrcBot_addHandler, startup, LogLine, Shutdown, Unlocked, ShutdownTimeout,
     PselectFails, Reconnect, Disconnected, Timeout
<1>6. /\ \A s : ~LoggedIn(s)
      /\ \A s, c : ~ChanJoined(s, c)
      /\ \A s, c, type, n : ~UserMoves(s, c, type, n)
      /\ \A s, to, bang, word : ~MsgReceived(s, to, bang, word)
  BY <1>4 DEF LoggedIn, ChanJoined, UserMoves, MsgReceived
<1>7. \A k : ~Finish(k)
  BY <1>2 DEF Finish
<1>8. \A k \in Jobs : \A v : st' = [st EXCEPT ![k] = v] => v = "assigned"
  BY <1>1
<1>9. ~ThreadPool_done
  BY <1>1 DEF ThreadPool_done, Pool!Close
<1>10. \A k \in Jobs : ~WorkerStarts(k) /\ ~WorkerReturns(k)
  BY <1>8 DEF WorkerStarts, WorkerReturns, Pool!Execute, Pool!Return
<1>11. \A k \in Jobs : ~Panic(k)
  <2>1. SUFFICES ASSUME NEW k \in Jobs, Panic(k) PROVE FALSE
    OBVIOUS
  <2>2. PICK end \in {"finished", "panicked"} : st' = [st EXCEPT ![k] = end]
    BY <2>1 DEF Panic, Pool!Finish
  <2> QED BY <1>8, <2>2
<1>12. \A k \in Jobs : ~WorkerLogs(k)
  <2>1. SUFFICES ASSUME NEW k \in Jobs, WorkerLogs(k) PROVE FALSE
    OBVIOUS
  <2>2. Room(1 + Len(raised)) /\ 1 + Len(raised) \in Nat
    <3>1. raised \in Seq(Allocated)
      BY DEF IndInv, TypeOK
    <3> QED BY <2>1, <3>1 DEF WorkerLogs
  <2>3. Fresh \in Jobs
    BY <2>2, FreshJob
  <2>4. \E v \in {"waiting", "refused"} : st' = [st EXCEPT ![Fresh] = v]
    BY <2>1 DEF WorkerLogs, Pool!Wait, Pool!Refuse
  <2> HIDE DEF Fresh
  <2> QED BY <1>8, <2>3, <2>4
<1> QED BY <1>3, <1>5, <1>6, <1>7, <1>9, <1>10, <1>11, <1>12 DEF Next, Startup, Ended

(* When a job of a handler is given to a worker, none that was created     *)
(* before it still waits, however many workers, jobs and handlers there    *)
(* are.                                                                    *)
THEOREM HandlersStartInOrder == Spec => HandlersInOrder
<1> DEFINE First(j) ==
      arg'[j] \in ServerIds /\ st[j] # "assigned" /\ st'[j] = "assigned" => Ahead(j) = {}
<1>1. ASSUME IndInv, [Next]_vars, NEW j \in Jobs
      PROVE  First(j)
  <2>1. SUFFICES ASSUME arg'[j] \in ServerIds, st[j] # "assigned", st'[j] = "assigned"
                 PROVE  Ahead(j) = {}
    OBVIOUS
  <2>2. TypeOK /\ Queued /\ Owned /\ InLine /\ Progress
    BY <1>1 DEF IndInv
  <2>3. /\ st \in [Jobs -> Status] /\ arg \in [Jobs -> {NoArg, Freed} \cup Allocated]
        /\ raised \in Seq(Allocated) /\ pending \in Seq(Jobs)
    BY <2>2 DEF Queued, TypeOK
  <2>4. CASE Dispatch
    <3>1. /\ raised # <<>> /\ Room(0) /\ ThreadPool_enqueue(Fresh)
          /\ arg' = [arg EXCEPT ![Fresh] = Head(raised)]
      BY <2>4 DEF Dispatch
    <3>2. Fresh \in Jobs
      <4>1. 0 \in Nat
        OBVIOUS
      <4> QED BY <3>1, <4>1, FreshJob
    <3> HIDE DEF Fresh
    <3>3. \E v \in {"assigned", "waiting", "refused"} : st' = [st EXCEPT ![Fresh] = v]
      BY <3>1 DEF ThreadPool_enqueue, Pool!Assign, Pool!Wait, Pool!Refuse
    <3>4. j = Fresh
      BY <2>1, <2>3, <3>2, <3>3
    <3>5. Head(raised) \in ServerIds
      BY <2>1, <2>3, <3>1, <3>2, <3>4
    <3>6. phase = "loop"
      <4>1. Head(raised) # LogArg
        BY <3>5, Names
      <4>2. phase # "pool"
        BY <2>2, <3>1, <4>1 DEF Progress
      <4> QED BY <2>2, <3>1, <4>2 DEF Progress, TypeOK, Phases
    <3>7. Cardinality(Pool!UnderWay) < Workers
      <4>1. \A v : st' = [st EXCEPT ![j] = v] => v = "assigned"
        BY <2>1, <2>3
      <4>2. ~Pool!Wait(j)
        BY <4>1 DEF Pool!Wait
      <4>3. ~Pool!Refuse(j)
        BY <4>1 DEF Pool!Refuse
      <4>4. Pool!Assign(j)
        BY <3>1, <3>4, <4>2, <4>3 DEF ThreadPool_enqueue
      <4> QED BY <4>4 DEF Pool!Assign, Pool!Cardinality, Cardinality
    <3> QED BY <2>2, <3>6, <3>7 DEF InLine, Ahead
  <2>5. CASE NextJob
    <3>1. st' = [k \in Jobs |-> IF k = done THEN "new"
                               ELSE IF k \in Dequeued THEN "assigned" ELSE st[k]]
      BY <2>5 DEF NextJob
    <3>2. j \in Dequeued
      BY <2>1, <3>1
    <3>3. pending # <<>> /\ j = pending[1]
      BY <2>3, <3>2 DEF Dequeued
    <3>4. \A i \in DOMAIN pending : 1 \in 1..i
      BY <2>3
    <3> QED BY <3>3, <3>4 DEF Ahead
  <2> QED BY <1>1, <2>1, <2>4, <2>5, GivenBy
<1>2. IndInv /\ [Next]_vars => [\A j \in Jobs : First(j)]_vars
  BY <1>1
<1> QED BY <1>2, Invariance, PTL DEF Spec, HandlersInOrder

-----------------------------------------------------------------------------
(* The choice of a handler.                                                *)

Match(h, type, server, origin, filter) ==
    /\ h.type = type /\ Accepts(h.serverId, server)
    /\ Accepts(h.origin, origin) /\ Accepts(h.filter, filter)

(* findHandler returns the first handler that matches, or none if there is *)
(* no such handler.                                                        *)
LEMMA FirstMatch ==
    ASSUME handlers \in Seq(Registrable),
           NEW type, NEW server, NEW origin, NEW filter,
           NEW k, k = findHandler(type, server, origin, filter)
    PROVE  /\ k # 0 => /\ k \in DOMAIN handlers
                        /\ Match(handlers[k], type, server, origin, filter)
                        /\ \A i \in DOMAIN handlers :
                              Match(handlers[i], type, server, origin, filter) => i >= k
           /\ k = 0 => \A i \in DOMAIN handlers :
                          ~Match(handlers[i], type, server, origin, filter)
<1> DEFINE S == {i \in DOMAIN handlers :
                    /\ handlers[i].type = type
                    /\ Accepts(handlers[i].serverId, server)
                    /\ Accepts(handlers[i].origin, origin)
                    /\ Accepts(handlers[i].filter, filter)}
<1>1. DOMAIN handlers = 1..Len(handlers) /\ Len(handlers) \in Nat
  OBVIOUS
<1>2. S \in SUBSET Nat /\ 0 \notin S
  BY <1>1
<1>3. k = IF S = {} THEN 0 ELSE Min(S)
  BY DEF findHandler, FirstOf
<1>4. \A i : i \in S <=> i \in DOMAIN handlers
                           /\ Match(handlers[i], type, server, origin, filter)
  BY DEF Match
<1> HIDE DEF S
<1>5. CASE S = {}
  BY <1>3, <1>4, <1>5
<1>6. CASE S # {}
  <2>1. k = Min(S)
    BY <1>3, <1>6
  <2>2. Min(S) \in S /\ \A y \in S : Min(S) <= y
    BY <1>2, <1>6, MinOf
  <2>3. k \in S /\ \A i \in S : k <= i
    BY <2>1, <2>2
  <2>4. \A i \in S : i \in Nat /\ i >= k
    BY <1>2, <2>3
  <2> QED BY <1>2, <1>4, <2>3, <2>4
<1> QED BY <1>5, <1>6

(* What a message is, and what its origin is not.                          *)
LEMMA MsgFields ==
    ASSUME NEW r \in Reports, r.type = "MSG"
    PROVE  /\ r.server \in ServerIds /\ r.origin \in ChannelsOf[r.server] \cup {Nick}
           /\ r.filter \in Words \cup {NoWord} /\ r.filter # Null
           /\ r.origin \notin {Null, ORIGIN_PRIVATE, ORIGIN_CHANNEL}
           /\ r.origin \in ChannelsOf[r.server] <=> r.origin # Nick
<1>1. PICK s \in ServerIds :
        r \in [type : {"MSG"}, server : {s}, origin : ChannelsOf[s] \cup {Nick},
               bang : BOOLEAN, filter : Words \cup {NoWord}]
              \cup [type : {"JOINED", "PARTED"}, server : {s}, origin : ChannelsOf[s],
                    filter : Words]
              \cup [type : {"CHANJOINED"}, server : {s}, origin : ChannelsOf[s],
                    filter : {Null}]
              \cup [type : {"CONNECTED"}, server : {s}, origin : {Null},
                    filter : {Null}]
  BY DEF Reports
<1>2. r.server = s /\ r.origin \in ChannelsOf[s] \cup {Nick} /\ r.filter \in Words \cup {NoWord}
  BY <1>1
<1> QED BY <1>2, NamesAssumption

LEMMA OtherFields ==
    ASSUME NEW r \in Reports, r.type # "MSG"
    PROVE  /\ r.server \in ServerIds /\ r.type \notin {"PRIVMSG", "BOTCOMMAND"}
           /\ r.origin \in ChannelsOf[r.server] \cup {Null}
           /\ r.origin \notin {Nick, ORIGIN_PRIVATE, ORIGIN_CHANNEL}
<1>1. PICK s \in ServerIds :
        r \in [type : {"MSG"}, server : {s}, origin : ChannelsOf[s] \cup {Nick},
               bang : BOOLEAN, filter : Words \cup {NoWord}]
              \cup [type : {"JOINED", "PARTED"}, server : {s}, origin : ChannelsOf[s],
                    filter : Words]
              \cup [type : {"CHANJOINED"}, server : {s}, origin : ChannelsOf[s],
                    filter : {Null}]
              \cup [type : {"CONNECTED"}, server : {s}, origin : {Null},
                    filter : {Null}]
  BY DEF Reports
<1>2. r.server = s /\ r.type \in {"JOINED", "PARTED", "CHANJOINED", "CONNECTED"}
      /\ r.origin \in ChannelsOf[s] \cup {Null}
  BY <1>1
<1> QED BY <1>2, NamesAssumption DEF Null, ORIGIN_PRIVATE, ORIGIN_CHANNEL

Wants(h, type, r, filter) ==
    /\ h.type = type /\ Accepts(h.serverId, r.server) /\ OriginFits(h, r)
    /\ Accepts(h.filter, filter)

(* msgReceived finds the first handler that names the origin or accepts    *)
(* any, or else the first for its kind.                                    *)
LEMMA FirstForMsg ==
    ASSUME handlers \in Seq(Registrable), NEW r \in Reports, r.type = "MSG",
           NEW type, NEW filter, NEW k, k = findForMsg(type, r, filter)
    PROVE  /\ k # 0 =>
                /\ k \in DOMAIN handlers /\ Wants(handlers[k], type, r, filter)
                /\ \A i \in DOMAIN handlers : Wants(handlers[i], type, r, filter) =>
                      IF ByKind(handlers[i]) THEN ByKind(handlers[k]) => i >= k
                      ELSE ~ByKind(handlers[k]) /\ i >= k
           /\ k = 0 => \A i \in DOMAIN handlers : ~Wants(handlers[i], type, r, filter)
<1> DEFINE kind == IF r.origin \in ChannelsOf[r.server]
                   THEN ORIGIN_CHANNEL ELSE ORIGIN_PRIVATE
           named == findHandler(type, r.server, r.origin, filter)
           other == findHandler(type, r.server, kind, filter)
           Rest(h) == h.type = type /\ Accepts(h.serverId, r.server) /\ Accepts(h.filter, filter)
<1>1. k = IF named # 0 THEN named ELSE other
  BY DEF findForMsg
<1>2. \A h : OriginFits(h, r) <=> Accepts(h.origin, r.origin) \/ h.origin = kind
  BY MsgFields DEF OriginFits, ORIGIN_CHANNEL, ORIGIN_PRIVATE
<1>3. kind \in {ORIGIN_CHANNEL, ORIGIN_PRIVATE} /\ kind # Null
  BY DEF ORIGIN_CHANNEL, ORIGIN_PRIVATE, Null
<1>4. \A h : /\ Accepts(h.origin, r.origin) => ~ByKind(h)
             /\ h.origin = kind => ByKind(h)
             /\ Accepts(h.origin, kind) <=> h.origin = kind \/ h.origin = Null
             /\ h.origin = Null => Accepts(h.origin, r.origin)
  BY <1>3, MsgFields DEF Accepts, ByKind, ORIGIN_CHANNEL, ORIGIN_PRIVATE, Null
<1>5. \A h : /\ Wants(h, type, r, filter)
                  <=> Rest(h) /\ (Accepts(h.origin, r.origin) \/ h.origin = kind)
             /\ Match(h, type, r.server, r.origin, filter)
                  <=> Rest(h) /\ Accepts(h.origin, r.origin)
             /\ Match(h, type, r.server, kind, filter) <=> Rest(h) /\ Accepts(h.origin, kind)
  BY <1>2 DEF Wants, Match
<1>6. /\ named # 0 =>
           /\ named \in DOMAIN handlers
           /\ Match(handlers[named], type, r.server, r.origin, filter)
           /\ \A i \in DOMAIN handlers :
                 Match(handlers[i], type, r.server, r.origin, filter) => i >= named
      /\ named = 0 => \A i \in DOMAIN handlers :
                         ~Match(handlers[i], type, r.server, r.origin, filter)
  BY FirstMatch
<1>7. /\ other # 0 =>
           /\ other \in DOMAIN handlers
           /\ Match(handlers[other], type, r.server, kind, filter)
           /\ \A i \in DOMAIN handlers :
                 Match(handlers[i], type, r.server, kind, filter) => i >= other
      /\ other = 0 => \A i \in DOMAIN handlers :
                         ~Match(handlers[i], type, r.server, kind, filter)
  BY FirstMatch
<1> HIDE DEF kind, named, other, Rest
<1>8. CASE named # 0
  BY <1>1, <1>4, <1>5, <1>6, <1>8
<1>9. CASE named = 0
  <2>1. \A i \in DOMAIN handlers : Wants(handlers[i], type, r, filter)
          <=> Match(handlers[i], type, r.server, kind, filter)
    BY <1>4, <1>5, <1>6, <1>9
  <2>2. \A i \in DOMAIN handlers : Wants(handlers[i], type, r, filter) => ByKind(handlers[i])
    BY <1>4, <1>5, <1>6, <1>9
  <2> QED BY <1>1, <1>7, <1>9, <2>1, <2>2
<1> QED BY <1>8, <1>9

LEMMA RightForMsg ==
    ASSUME handlers \in Seq(Registrable), NEW r \in Reports, r.type = "MSG"
    PROVE  IF Chosen(r).hdl # 0 THEN Best(r, Chosen(r).hdl, Chosen(r).type)
           ELSE Unwanted(r)
<1> DEFINE cmd == IF IsCommand(r) THEN findForMsg("BOTCOMMAND", r, r.filter) ELSE 0
           msg == findForMsg("PRIVMSG", r, Null)
<1>1. /\ cmd # 0 => Chosen(r).hdl = cmd /\ Chosen(r).type = "BOTCOMMAND"
      /\ cmd = 0 => Chosen(r).hdl = msg /\ Chosen(r).type = "PRIVMSG"
  BY DEF Chosen, ChosenForMsg
<1>2. \A h : FitsCommand(h, r) <=> IsCommand(r) /\ Wants(h, "BOTCOMMAND", r, r.filter)
  BY DEF FitsCommand, Fits, Wants, Accepts
<1>3. \A h : Fits(h, "BOTCOMMAND", r) <=> Wants(h, "BOTCOMMAND", r, r.filter)
  BY DEF Fits, Wants, Accepts
<1>4. \A h : Fits(h, "PRIVMSG", r) <=> Wants(h, "PRIVMSG", r, Null)
  BY DEF Fits, Wants, Accepts
<1>5. /\ cmd # 0 =>
           /\ cmd \in DOMAIN handlers /\ Wants(handlers[cmd], "BOTCOMMAND", r, r.filter)
           /\ \A i \in DOMAIN handlers : Wants(handlers[i], "BOTCOMMAND", r, r.filter) =>
                 IF ByKind(handlers[i]) THEN ByKind(handlers[cmd]) => i >= cmd
                 ELSE ~ByKind(handlers[cmd]) /\ i >= cmd
      /\ cmd = 0 => \A i \in DOMAIN handlers : ~FitsCommand(handlers[i], r)
  <2>1. CASE IsCommand(r)
    BY <1>2, <2>1, FirstForMsg
  <2>2. CASE ~IsCommand(r)
    BY <1>2, <2>2
  <2> QED BY <2>1, <2>2
<1>6. /\ msg # 0 =>
           /\ msg \in DOMAIN handlers /\ Wants(handlers[msg], "PRIVMSG", r, Null)
           /\ \A i \in DOMAIN handlers : Wants(handlers[i], "PRIVMSG", r, Null) =>
                 IF ByKind(handlers[i]) THEN ByKind(handlers[msg]) => i >= msg
                 ELSE ~ByKind(handlers[msg]) /\ i >= msg
      /\ msg = 0 => \A i \in DOMAIN handlers : ~Wants(handlers[i], "PRIVMSG", r, Null)
  BY FirstForMsg
<1> HIDE DEF cmd, msg
<1>7. CASE cmd # 0
  <2>1. Best(r, cmd, "BOTCOMMAND")
    BY <1>3, <1>5, <1>7 DEF Best
  <2> QED BY <1>1, <1>7, <2>1
<1>8. CASE cmd = 0 /\ msg # 0
  <2>1. Best(r, msg, "PRIVMSG")
    BY <1>4, <1>5, <1>6, <1>8 DEF Best
  <2> QED BY <1>1, <1>8, <2>1
<1>9. CASE cmd = 0 /\ msg = 0
  <2>1. Unwanted(r)
    BY <1>4, <1>5, <1>6, <1>9 DEF Unwanted
  <2> QED BY <1>1, <1>9, <2>1
<1> QED BY <1>7, <1>8, <1>9

LEMMA RightForOther ==
    ASSUME handlers \in Seq(Registrable), NEW r \in Reports, r.type # "MSG"
    PROVE  IF Chosen(r).hdl # 0 THEN Best(r, Chosen(r).hdl, Chosen(r).type)
           ELSE Unwanted(r)
<1> DEFINE k == findHandler(r.type, r.server, r.origin, r.filter)
<1>1. Chosen(r).hdl = k /\ Chosen(r).type = r.type
  BY DEF Chosen
<1>2. /\ k # 0 => /\ k \in DOMAIN handlers
                  /\ Match(handlers[k], r.type, r.server, r.origin, r.filter)
                  /\ \A i \in DOMAIN handlers :
                        Match(handlers[i], r.type, r.server, r.origin, r.filter) => i >= k
      /\ k = 0 => \A i \in DOMAIN handlers :
                     ~Match(handlers[i], r.type, r.server, r.origin, r.filter)
  BY FirstMatch
<1>3. /\ r.type \notin {"PRIVMSG", "BOTCOMMAND"}
      /\ r.origin \notin {Nick, ORIGIN_PRIVATE, ORIGIN_CHANNEL}
  BY OtherFields
<1>4. \A h : Match(h, r.type, r.server, r.origin, r.filter)
               <=> Fits(h, r.type, r) /\ Accepts(h.origin, r.origin)
  BY <1>3 DEF Match, Fits, OriginFits, Accepts
<1>5. \A h : Accepts(h.origin, r.origin) => ~ByKind(h)
  BY <1>3 DEF Accepts, ByKind, ORIGIN_CHANNEL, ORIGIN_PRIVATE, Null
<1>6. \A h : Fits(h, r.type, r) =>
         Accepts(h.origin, r.origin) \/ (h.origin = ORIGIN_CHANNEL /\ ByKind(h))
  BY <1>3 DEF Fits, OriginFits, ByKind
<1> HIDE DEF k
<1>7. CASE k # 0
  <2>1. Best(r, k, r.type)
    BY <1>2, <1>3, <1>4, <1>5, <1>6, <1>7 DEF Best
  <2> QED BY <1>1, <1>7, <2>1
<1>8. CASE k = 0
  <2>1. Unwanted(r)
    BY <1>2, <1>4, <1>6, <1>8 DEF Unwanted
  <2> QED BY <1>1, <1>8, <2>1
<1> QED BY <1>7, <1>8

(* Whatever handlers are registered and whatever is reported, the best     *)
(* handler is chosen, or none if the event is unwanted.                    *)
THEOREM RightOneFound == Spec => []RightHandler
<1>1. ASSUME IndInv PROVE RightHandler
  <2>1. handlers \in Seq(Registrable)
    BY <1>1 DEF IndInv, TypeOK
  <2> QED BY <2>1, RightForMsg, RightForOther DEF RightHandler
<1> QED BY <1>1, Invariance, PTL
=============================================================================
