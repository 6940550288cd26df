-------------------------- MODULE IrcChannelProofs --------------------------
(***************************************************************************)
(* Proofs about IrcChannel: the channel is pursued by exactly one handler, *)
(* and the bot catches up with what the network has told it.               *)
(***************************************************************************)
EXTENDS IrcChannel, EventListProofs

-----------------------------------------------------------------------------
(* What the messages on their way will make of what the bot knows.         *)

(* What the bot knows of the channel: "own" stands for being on it itself, *)
(* and a nick for another user's being there.                              *)
Topics == Nicks \cup {"own"}

Value(joined, names, t) == IF t = "own" THEN joined ELSE t \in names

Sets(m, t) ==
    IF t = "own" THEN m.cmd = "ENDOFNAMES"
    ELSE \/ m.cmd = "JOIN" /\ m.nick = t
         \/ m.cmd = "NAMES" /\ t \in Named(m.list)
         \/ m.cmd = "NICK" /\ ~m.voiced /\ m.new = t

Resets(m, t) ==
    \/ m.cmd = "KICK" /\ m.nick = t
    \/ t # "own" /\ m.cmd = "PART" /\ m.nick = t
    \/ m.cmd = "NICK" /\ m.nick = t

(* A message that takes for granted what it ends: the bot is kicked only   *)
(* when it was on the channel, and a user renamed that it knew, unless     *)
(* that is one of voiced.                                                  *)
Presumes(m, t) ==
    \/ t = "own" /\ m.cmd = "KICK" /\ m.nick = "own"
    \/ t # "own" /\ m.cmd = "NICK" /\ ~m.voiced /\ m.nick = t

(* What is known of t after the first i messages of q, if it is v now.     *)
Holds(v, q, t, i) ==
    \/ \E j \in 1..i : Sets(q[j], t) /\ \A k \in (j + 1)..i : ~Resets(q[k], t)
    \/ v /\ \A k \in 1..i : ~Resets(q[k], t)

-----------------------------------------------------------------------------
(* The inductive invariant.                                                *)

W == Registered(ticks, "waitjoin")
R == Registered(ticks, "waitrejoin")

(* A channel is pursued by joinOnConnect while there is no connection, and *)
(* then nothing is on its way; by tick handlers with time left otherwise.  *)
Pursued ==
    /\ W > 0 => joinsyncticks >= 1
    /\ R > 0 => rejointicks >= 1
    /\ live = "yes" =>
         /\ wantJoined
         /\ online => onConnect = 0 /\ onDisconnect > 0
         /\ ~online => onConnect = 1 /\ ~isJoined

(* Without a channel or a connection nothing happens.                      *)
Silent ==
    /\ live # "yes" => pos = 0
    /\ live = "not yet" =>
         /\ ticks = <<>> /\ W = 0 /\ R = 0 /\ ~isJoined /\ ~wantJoined
         /\ onConnect = 0 /\ onDisconnect = 0
    /\ live = "not yet" \/ (live = "yes" /\ ~online) =>
          toServer = <<>> /\ toBot = <<>> /\ ~member

(* The messages q make the bot know what is in known, and each finds what  *)
(* it presumes.                                                            *)
Caught(joined, names, q, known) ==
    /\ \A t \in known : Holds(Value(joined, names, t), q, t, Len(q))
    /\ \A i \in DOMAIN q : \A t \in Topics :
          Presumes(q[i], t) => Holds(Value(joined, names, t), q, t, i - 1)

(* What the bot comes to know while it is on the channel.                  *)
Known == IF member THEN (others \ voiced) \cup {"own"} ELSE {}

CatchesUp == live = "yes" => Caught(isJoined, nicks, toBot, Known)

IndInv == OnePursuit /\ Pursued /\ Silent /\ CatchesUp

-----------------------------------------------------------------------------
(* What a message that is sent, and one that is handled, does to the       *)
(* messages on their way.                                                  *)

LEMMA HoldsAppend ==
    ASSUME NEW S, NEW q \in Seq(S), NEW m, NEW v, NEW t, NEW i \in 0..Len(q),
           Holds(v, q, t, i)
    PROVE  Holds(v, Append(q, m), t, i)
<1>1. \A j \in 1..i : Append(q, m)[j] = q[j]
  OBVIOUS
<1>2. i \in Nat
  OBVIOUS
<1> DEFINE p == Append(q, m)
<1> HIDE DEF p
<1>3. \A j \in 1..i : p[j] = q[j]
  BY <1>1 DEF p
<1>4. CASE \E j \in 1..i : Sets(q[j], t) /\ \A k \in (j + 1)..i : ~Resets(q[k], t)
  <2>1. PICK j \in 1..i : Sets(q[j], t) /\ \A k \in (j + 1)..i : ~Resets(q[k], t)
    BY <1>4
  <2>2. \A k \in (j + 1)..i : k \in 1..i
    BY <1>2
  <2>3. Sets(p[j], t) /\ \A k \in (j + 1)..i : ~Resets(p[k], t)
    BY <1>3, <2>1, <2>2
  <2> QED BY <2>3 DEF Holds, p
<1>5. CASE v /\ \A k \in 1..i : ~Resets(q[k], t)
  BY <1>3, <1>5 DEF Holds, p
<1> QED BY <1>4, <1>5 DEF Holds

LEMMA HoldsAfter ==
    ASSUME NEW S, NEW q \in Seq(S), NEW m, NEW v, NEW t,
           \/ Sets(m, t)
           \/ Holds(v, q, t, Len(q)) /\ ~Resets(m, t)
    PROVE  Holds(v, Append(q, m), t, Len(Append(q, m)))
<1> DEFINE n == Len(q)
           p == Append(q, m)
<1>1. n \in Nat /\ Len(p) = n + 1 /\ p[n + 1] = m
  OBVIOUS
<1>2. \A j \in 1..n : p[j] = q[j]
  OBVIOUS
<1> HIDE DEF n, p
<1>3. CASE Sets(m, t)
  <2>1. n + 1 \in 1..(n + 1) /\ \A k \in ((n + 1) + 1)..(n + 1) : FALSE
    BY <1>1
  <2> QED BY <1>1, <1>3, <2>1 DEF Holds, p
<1>4. CASE Holds(v, q, t, n) /\ ~Resets(m, t)
  <2>1. CASE \E j \in 1..n : Sets(q[j], t) /\ \A k \in (j + 1)..n : ~Resets(q[k], t)
    <3>1. PICK j \in 1..n : Sets(q[j], t) /\ \A k \in (j + 1)..n : ~Resets(q[k], t)
      BY <2>1
    <3>2. \A k \in (j + 1)..(n + 1) : (k \in (j + 1)..n /\ k \in 1..n) \/ k = n + 1
      BY <1>1
    <3>3. \A k \in (j + 1)..(n + 1) : ~Resets(p[k], t)
      BY <1>1, <1>2, <1>4, <3>1, <3>2
    <3>4. j \in 1..(n + 1) /\ Sets(p[j], t)
      BY <1>1, <1>2, <3>1
    <3> QED BY <1>1, <3>3, <3>4 DEF Holds, p
  <2>2. CASE v /\ \A k \in 1..n : ~Resets(q[k], t)
    <3>1. \A k \in 1..(n + 1) : k \in 1..n \/ k = n + 1
      BY <1>1
    <3>2. \A k \in 1..(n + 1) : ~Resets(p[k], t)
      BY <1>1, <1>2, <1>4, <2>2, <3>1
    <3> QED BY <1>1, <2>2, <3>2 DEF Holds, p
  <2> QED BY <1>4, <2>1, <2>2 DEF Holds
<1> QED BY <1>3, <1>4 DEF n

LEMMA HoldsTail ==
    ASSUME NEW S, NEW q \in Seq(S), q # <<>>, NEW v, NEW w, NEW t,
           NEW i \in 1..Len(q), Holds(v, q, t, i),
           Sets(Head(q), t) => w,
           v /\ ~Resets(Head(q), t) => w
    PROVE  Holds(w, Tail(q), t, i - 1)
<1> DEFINE p == Tail(q)
<1>1. i \in Nat /\ i >= 1 /\ Head(q) = q[1]
  OBVIOUS
<1>2. \A j \in 1..(i - 1) : p[j] = q[j + 1]
  OBVIOUS
<1> HIDE DEF p
<1>3. CASE \E j \in 1..i : Sets(q[j], t) /\ \A k \in (j + 1)..i : ~Resets(q[k], t)
  <2>1. PICK j \in 1..i : Sets(q[j], t) /\ \A k \in (j + 1)..i : ~Resets(q[k], t)
    BY <1>3
  <2>2. CASE j = 1
    <3>1. w
      BY <1>1, <2>1, <2>2
    <3>2. \A k \in 1..(i - 1) : ~Resets(p[k], t)
      BY <1>1, <1>2, <2>1, <2>2
    <3> QED BY <3>1, <3>2 DEF Holds, p
  <2>3. CASE j # 1
    <3>1. j - 1 \in 1..(i - 1) /\ Sets(p[j - 1], t)
      BY <1>1, <1>2, <2>1, <2>3
    <3>2. \A k \in ((j - 1) + 1)..(i - 1) : k \in 1..(i - 1) /\ k + 1 \in (j + 1)..i
      BY <1>1, <2>1, <2>3
    <3>3. \A k \in ((j - 1) + 1)..(i - 1) : ~Resets(p[k], t)
      BY <1>2, <2>1, <3>2
    <3> QED BY <3>1, <3>3 DEF Holds, p
  <2> QED BY <2>2, <2>3
<1>4. CASE v /\ \A k \in 1..i : ~Resets(q[k], t)
  <2>1. w
    BY <1>1, <1>4
  <2>2. \A k \in 1..(i - 1) : k + 1 \in 1..i
    BY <1>1
  <2>3. \A k \in 1..(i - 1) : ~Resets(p[k], t)
    BY <1>2, <1>4, <2>2
  <2> QED BY <2>1, <2>3 DEF Holds, p
<1> QED BY <1>3, <1>4 DEF Holds

(* A message is sent.                                                      *)
LEMMA CaughtAppend ==
    ASSUME NEW S, NEW q \in Seq(S), NEW m \in S, NEW joined, NEW names, NEW known, NEW then,
           Caught(joined, names, q, known), known \subseteq Topics, then \subseteq Topics,
           \A t \in Topics : Presumes(m, t) => t \in known,
           \A t \in then : Sets(m, t) \/ (t \in known /\ ~Resets(m, t))
    PROVE  Append(q, m) \in Seq(S) /\ Caught(joined, names, Append(q, m), then)
<1> DEFINE p == Append(q, m)
           V(t) == Value(joined, names, t)
<1>1. p \in Seq(S) /\ DOMAIN p = DOMAIN q \cup {Len(q) + 1} /\ p[Len(q) + 1] = m
      /\ (\A i \in DOMAIN q : p[i] = q[i] /\ i - 1 \in 0..Len(q))
      /\ Len(q) \in 0..Len(q) /\ (Len(q) + 1) - 1 = Len(q)
  OBVIOUS
<1> HIDE DEF p, V
<1>2. \A t \in known : Holds(V(t), q, t, Len(q))
  BY DEF Caught, V
<1>3. \A t \in then : Holds(V(t), p, t, Len(p))
  BY <1>2, HoldsAfter DEF p
<1>4. ASSUME NEW i \in DOMAIN p, NEW t \in Topics, Presumes(p[i], t)
      PROVE  Holds(V(t), p, t, i - 1)
  <2>1. CASE i \in DOMAIN q
    <3>1. Holds(V(t), q, t, i - 1)
      BY <1>1, <1>4, <2>1 DEF Caught, V
    <3> QED BY <1>1, <2>1, <3>1, HoldsAppend DEF p
  <2>2. CASE i = Len(q) + 1
    <3>1. Holds(V(t), q, t, Len(q))
      BY <1>1, <1>2, <1>4, <2>2
    <3> QED BY <1>1, <2>2, <3>1, HoldsAppend DEF p
  <2> QED BY <1>1, <2>1, <2>2
<1> QED BY <1>1, <1>3, <1>4 DEF Caught, V, p

(* A message is handled: it has done to what is known what it says.        *)
LEMMA CaughtTail ==
    ASSUME NEW S, NEW q \in Seq(S), q # <<>>, NEW joined, NEW names,
           NEW joined2, NEW names2, NEW known \in SUBSET Topics,
           Caught(joined, names, q, known),
           \A t \in Topics :
              /\ Sets(Head(q), t) => Value(joined2, names2, t)
              /\ Value(joined, names, t) /\ ~Resets(Head(q), t)
                    => Value(joined2, names2, t)
    PROVE  Caught(joined2, names2, Tail(q), known)
<1> DEFINE p == Tail(q)
           V(t) == Value(joined, names, t)
           U(t) == Value(joined2, names2, t)
<1>1. p \in Seq(S) /\ Len(p) = Len(q) - 1 /\ Len(q) \in 1..Len(q)
      /\ (\A i \in DOMAIN p : /\ i + 1 \in DOMAIN q /\ p[i] = q[i + 1]
                              /\ (i + 1) - 1 = i /\ i \in 1..Len(q) /\ i \in Nat)
  OBVIOUS
<1> HIDE DEF p, V, U
<1>2. \A t \in Topics, i \in 1..Len(q) : Holds(V(t), q, t, i) => Holds(U(t), p, t, i - 1)
  BY HoldsTail DEF p, V, U
<1>3. \A t \in known : Holds(U(t), p, t, Len(p))
  BY <1>1, <1>2 DEF Caught, V
<1>4. ASSUME NEW i \in DOMAIN p, NEW t \in Topics, Presumes(p[i], t)
      PROVE  Holds(U(t), p, t, i - 1)
  <2>1. Holds(V(t), q, t, (i + 1) - 1)
    BY <1>1, <1>4 DEF Caught, V
  <2> QED BY <1>1, <1>2, <2>1
<1> QED BY <1>3, <1>4 DEF Caught, U, p

-----------------------------------------------------------------------------
(* The tick handlers.                                                      *)

CList == Seq({"waitjoin", "waitrejoin", "gone"})

(* A list with w and r registrations of waitjoin and waitrejoin.           *)
Counts(list, w, r) ==
    /\ list \in CList
    /\ Registered(list, "waitjoin") = w /\ w \in Nat
    /\ Registered(list, "waitrejoin") = r /\ r \in Nat

LEMMA CountsOf ==
    ASSUME NEW list \in CList
    PROVE  Counts(list, Registered(list, "waitjoin"), Registered(list, "waitrejoin"))
BY RegisteredType DEF Counts, CList

LEMMA CountsRegister ==
    ASSUME NEW list, NEW w, NEW r, Counts(list, w, r)
    PROVE  /\ Counts(Register(list, "waitjoin"), w + 1, r)
           /\ Counts(Register(list, "waitrejoin"), w, r + 1)
<1> DEFINE S == {"waitjoin", "waitrejoin", "gone"}
<1>1. \A h \in S \ {"gone"} :
         /\ Register(list, h) \in Seq(S)
         /\ \A k \in S \ {"gone"} :
               Registered(Register(list, h), k)
                 = IF k = h THEN Registered(list, k) + 1 ELSE Registered(list, k)
  <2>1. list \in Seq(S)
    BY DEF Counts, CList
  <2> HIDE DEF S
  <2>2. \A h \in S \ {"gone"} :
           /\ Register(list, h) \in Seq(S)
           /\ \A k \in S \ {"gone"} :
                 Registered(Register(list, h), k) = Registered(list, k) + One(h = k)
    BY <2>1, RegisterCounts
  <2>3. \A k : Registered(list, k) \in Nat
    BY <2>1, RegisteredType
  <2> QED BY <2>2, <2>3 DEF One
<1> QED BY <1>1 DEF Counts, CList

Less(n) == IF n > 0 THEN n - 1 ELSE n

LEMMA CountsUnregister ==
    ASSUME NEW list, NEW w, NEW r, Counts(list, w, r)
    PROVE  /\ Counts(Unregister(list, "waitjoin"), Less(w), r)
           /\ Counts(Unregister(list, "waitrejoin"), w, Less(r))
<1> DEFINE S == {"waitjoin", "waitrejoin", "gone"}
<1>1. \A h \in S \ {"gone"} :
         /\ Unregister(list, h) \in Seq(S)
         /\ \A k \in S \ {"gone"} :
               Registered(Unregister(list, h), k)
                 = IF k = h /\ Registered(list, h) > 0
                   THEN Registered(list, k) - 1 ELSE Registered(list, k)
  <2>1. list \in Seq(S) /\ "gone" \in S
    BY DEF Counts, CList
  <2> HIDE DEF S
  <2> QED BY <2>1, UnregisterCounts
<1> QED BY <1>1 DEF Counts, CList, Less

(* Both unregistered, when there is at most one of each.                   *)
LEMMA CountsNone ==
    ASSUME NEW list, NEW w, NEW r, Counts(list, w, r), w <= 1, r <= 1
    PROVE  Counts(Unregister(Unregister(list, "waitjoin"), "waitrejoin"), 0, 0)
<1>1. Less(w) = 0 /\ Less(r) = 0
  BY DEF Counts, Less
<1>2. Counts(Unregister(list, "waitjoin"), 0, r)
  BY <1>1, CountsUnregister
<1> QED BY <1>1, <1>2, CountsUnregister

-----------------------------------------------------------------------------
(* The invariant at the start of a step, and what a step has to show.      *)

LEMMA MessageFields ==
    ASSUME NEW m \in Messages
    PROVE  /\ m.cmd \in {"JOIN", "PART", "KICK"} => m.nick \in Topics
           /\ m.cmd = "NICK" => m.nick \in Nicks /\ m.new \in Nicks
           /\ m.cmd = "NAMES" => m.list \subseteq Entries
BY DEF Messages, Topics

LEMMA NamedType ==
    ASSUME NEW list \in SUBSET Entries
    PROVE  Named(list) \subseteq Nicks /\ Misnamed(list) \subseteq Nicks
BY DEF Named, Misnamed, Entries

LEMMA Facts ==
    ASSUME IndInv
    PROVE  /\ TypeOK /\ Counts(ticks, W, R) /\ W \in Nat /\ R \in Nat /\ onConnect \in Nat
           /\ live = "yes" => W + R + onConnect = IF isJoined THEN 0 ELSE 1
           /\ live # "twice" => W <= 1 /\ R <= 1
           /\ Pursued /\ Silent /\ CatchesUp
<1>1. TypeOK /\ Pursued /\ Silent /\ CatchesUp
  BY DEF IndInv, OnePursuit
<1>2. Counts(ticks, W, R)
  BY <1>1, CountsOf DEF TypeOK, CList, W, R
<1>3. W \in Nat /\ R \in Nat /\ onConnect \in Nat
  BY <1>1, <1>2 DEF Counts, TypeOK
<1>4. live = "yes" => W + R + onConnect = IF isJoined THEN 0 ELSE 1
  BY <1>1 DEF IndInv, OnePursuit, Pursued, W, R
<1>5. live = "not yet" => W = 0 /\ R = 0
  BY <1>1 DEF Silent
<1>6. live \in {"yes", "twice", "not yet"}
  BY <1>1 DEF TypeOK
<1>7. live = "yes" => W <= 1 /\ R <= 1
  BY <1>3, <1>4
<1>8. live # "twice" => W <= 1 /\ R <= 1
  <2>1. live = "not yet" => W <= 1 /\ R <= 1
    <3>1. \A n \in Nat : n = 0 => n <= 1
      OBVIOUS
    <3> QED BY <1>3, <1>5, <3>1
  <2> QED BY <1>6, <1>7, <2>1
<1> QED BY <1>1, <1>2, <1>3, <1>4, <1>8

(* A step that leaves a channel with w and r registrations of waitjoin and *)
(* waitrejoin.                                                             *)
LEMMA StepOK ==
    ASSUME TypeOK', NEW w, NEW r, Counts(ticks', w, r),
           w > 0 => joinsyncticks' >= 1, r > 0 => rejointicks' >= 1,
           live' = "yes" =>
             /\ isJoined' => w + r + onConnect' = 0
             /\ ~isJoined' => w + r + onConnect' = 1
             /\ wantJoined'
             /\ online' => onConnect' = 0 /\ onDisconnect' > 0
             /\ ~online' => onConnect' = 1,
           Silent', CatchesUp'
    PROVE  IndInv'
<1>1. W' = w /\ R' = r
  BY DEF Counts, W, R
<1>2. w \in Nat /\ r \in Nat
  BY DEF Counts
<1>3. live' = "yes" /\ ~online' => ~isJoined'
  BY <1>2
<1>4. Pursued'
  BY <1>1, <1>3 DEF Pursued
<1>5. OnePursuit'
  <2>1. live' = "yes" => W' + R' + onConnect' = IF isJoined' THEN 0 ELSE 1
    BY <1>1
  <2> QED BY <2>1 DEF OnePursuit, W, R
<1> QED BY <1>4, <1>5 DEF IndInv

-----------------------------------------------------------------------------
(* The bot.                                                                *)

LEMMA MoreType == \A n \in 0..2 : More(n) \in 0..2 /\ More(n) > 0
BY DEF More

(* IrcChannel_join leaves the pursuit to waitjoin when there is a          *)
(* connection, and to joinOnConnect when there is none.                    *)
LEMMA JoinEffect ==
    ASSUME TypeOK, NEW list, Counts(list, 0, 0), join(list)
    PROVE  /\ wantJoined' = TRUE
           /\ ticks' \in CList /\ toServer' \in Seq({"JOIN", "PART"})
           /\ joinsyncticks' \in 0..JoinSyncTicks
           /\ onDisconnect' \in 0..2 /\ onConnect' \in Nat
           /\ online' => /\ Counts(ticks', 1, 0) /\ joinsyncticks' >= 1
                         /\ onConnect' = 0 /\ onDisconnect' > 0
           /\ ~online' => /\ Counts(ticks', 0, 0) /\ onConnect' = onConnect + 1
                          /\ toServer' = toServer
<1>1. /\ toServer \in Seq({"JOIN", "PART"}) /\ joinsyncticks \in 0..JoinSyncTicks
      /\ onDisconnect \in 0..2 /\ onConnect \in Nat
  BY DEF TypeOK
<1>2. Counts(Register(list, "waitjoin"), 0 + 1, 0)
  BY CountsRegister
<1>3. CASE online'
  <2>1. /\ wantJoined' = TRUE /\ toServer' = Append(toServer, "JOIN")
        /\ joinsyncticks' = JoinSyncTicks /\ ticks' = Register(list, "waitjoin")
        /\ onDisconnect' = More(onDisconnect) /\ onConnect' = 0
    BY <1>3 DEF join
  <2>2. Counts(ticks', 1, 0)
    BY <1>2, <2>1
  <2>3. ticks' \in CList
    BY <2>2 DEF Counts
  <2>4. toServer' \in Seq({"JOIN", "PART"})
    BY <1>1, <2>1
  <2>5. joinsyncticks' \in 0..JoinSyncTicks /\ joinsyncticks' >= 1
    BY <2>1, TicksAssumption
  <2>6. onDisconnect' \in 0..2 /\ onDisconnect' > 0
    BY <1>1, <2>1, MoreType
  <2> QED BY <1>3, <2>1, <2>2, <2>3, <2>4, <2>5, <2>6
<1>4. CASE ~online'
  <2>1. /\ wantJoined' = TRUE /\ onConnect' = onConnect + 1 /\ ticks' = list
        /\ toServer' = toServer /\ joinsyncticks' = joinsyncticks
        /\ onDisconnect' = onDisconnect
    BY <1>4 DEF join
  <2>2. ticks' \in CList
    BY <2>1 DEF Counts
  <2> QED BY <1>1, <1>4, <2>1, <2>2
<1> QED BY <1>3, <1>4

LEMMA NothingToCatch ==
    \A joined, names : Caught(joined, names, <<>>, {})
BY DEF Caught

LEMMA IrcServerJoinStep ==
    ASSUME IndInv, IrcServer_join
    PROVE  IndInv'
<1>1. /\ Waiting /\ live = "not yet" /\ live' = "yes" /\ online' = online /\ join(ticks)
      /\ isJoined' = isJoined /\ rejointicks' = rejointicks /\ nicks' = nicks
      /\ userHandlers' = userHandlers /\ pos' = pos /\ toBot' = toBot
      /\ member' = member /\ others' = others /\ events' = events
      /\ voiced' = voiced /\ misnamed' = misnamed
  BY DEF IrcServer_join, network
<1>2. /\ TypeOK /\ Silent /\ Counts(ticks, W, R)
      /\ W = 0 /\ R = 0
      /\ onConnect = 0 /\ isJoined = FALSE /\ pos = 0
      /\ toServer = <<>> /\ toBot = <<>> /\ member = FALSE
  BY <1>1, Facts DEF Silent, TypeOK
<1>3. Counts(ticks, 0, 0)
  BY <1>2
<1>4. /\ wantJoined' = TRUE
      /\ ticks' \in CList /\ toServer' \in Seq({"JOIN", "PART"})
      /\ joinsyncticks' \in 0..JoinSyncTicks
      /\ onDisconnect' \in 0..2 /\ onConnect' \in Nat
      /\ online' => /\ Counts(ticks', 1, 0) /\ joinsyncticks' >= 1
                    /\ onConnect' = 0 /\ onDisconnect' > 0
      /\ ~online' => /\ Counts(ticks', 0, 0) /\ onConnect' = onConnect + 1
                     /\ toServer' = toServer
  BY <1>1, <1>2, <1>3, JoinEffect
<1>5. TypeOK'
  BY <1>1, <1>2, <1>4 DEF TypeOK, CList
<1>6. Silent'
  BY <1>1, <1>2, <1>4 DEF Silent
<1>7. CatchesUp'
  <2>1. toBot' = <<>> /\ Known' = {}
    BY <1>1, <1>2 DEF Known
  <2> QED BY <2>1, NothingToCatch DEF CatchesUp
<1>j. ~isJoined'
  BY <1>1, <1>2
<1>8. CASE online'
  <2>1. Counts(ticks', 1, 0) /\ onConnect' = 0
    BY <1>4, <1>8
  <2>2. 1 + 0 + onConnect' = 1
    BY <2>1
  <2> QED BY <1>4, <1>5, <1>6, <1>7, <1>8, <1>j, <2>1, <2>2, StepOK
<1>9. CASE ~online'
  <2>1. Counts(ticks', 0, 0) /\ onConnect' = onConnect + 1
    BY <1>4, <1>9
  <2>2. onConnect' = 1
    BY <1>2, <2>1
  <2>3. 0 + 0 + onConnect' = 1
    BY <2>2
  <2> QED BY <1>4, <1>5, <1>6, <1>7, <1>9, <1>j, <2>1, <2>2, <2>3, StepOK
<1> QED BY <1>8, <1>9

LEMMA IrcServerPartStep ==
    ASSUME IndInv, IrcServer_part
    PROVE  IndInv'
<1>1. /\ Waiting /\ live = "yes" /\ live' = "twice"
      /\ wantJoined' = FALSE /\ isJoined' = FALSE /\ onConnect' = 0 /\ onDisconnect' = 0
      /\ ticks' = Unregister(Unregister(ticks, "waitjoin"), "waitrejoin")
      /\ toServer' = IF isJoined /\ online THEN Append(toServer, "PART") ELSE toServer
      /\ online' = online /\ joinsyncticks' = joinsyncticks /\ rejointicks' = rejointicks
      /\ nicks' = nicks /\ userHandlers' = userHandlers /\ pos' = pos /\ toBot' = toBot
      /\ member' = member /\ others' = others /\ events' = events
      /\ voiced' = voiced /\ misnamed' = misnamed
  BY DEF IrcServer_part, network
<1>2. TypeOK /\ Counts(ticks, W, R) /\ W <= 1 /\ R <= 1
  BY <1>1, Facts
<1>3. Counts(ticks', 0, 0)
  BY <1>1, <1>2, CountsNone
<1>4. TypeOK'
  <2>1. toServer' \in Seq({"JOIN", "PART"})
    BY <1>1, <1>2 DEF TypeOK
  <2>2. ticks' \in CList
    BY <1>3 DEF Counts
  <2>3. onConnect' \in Nat /\ onDisconnect' \in 0..2
    BY <1>1
  <2> QED BY <1>1, <1>2, <2>1, <2>2, <2>3 DEF TypeOK, CList
<1>5. Silent' /\ CatchesUp'
  BY <1>1 DEF Silent, CatchesUp, Waiting
<1> QED BY <1>1, <1>3, <1>4, <1>5, StepOK

LEMMA ConnectStep ==
    ASSUME IndInv, Connect
    PROVE  IndInv'
<1>1. /\ Waiting /\ ~online /\ online' = TRUE
      /\ \/ onConnect > 0 /\ join(ticks)
         \/ /\ onConnect = 0 /\ wantJoined' = wantJoined /\ joinsyncticks' = joinsyncticks
            /\ ticks' = ticks /\ onConnect' = onConnect /\ onDisconnect' = onDisconnect
            /\ toServer' = toServer
      /\ live' = live /\ isJoined' = isJoined /\ rejointicks' = rejointicks /\ nicks' = nicks
      /\ userHandlers' = userHandlers /\ pos' = pos /\ toBot' = toBot
      /\ member' = member /\ others' = others /\ events' = events
      /\ voiced' = voiced /\ misnamed' = misnamed
  BY DEF Connect, network
<1>2. /\ TypeOK /\ Silent /\ Pursued /\ Counts(ticks, W, R) /\ live \in {"yes", "not yet"}
      /\ toServer = <<>> /\ toBot = <<>> /\ ~member /\ pos = 0
      /\ W \in Nat /\ R \in Nat /\ onConnect \in Nat
      /\ live = "yes" => W + R + onConnect = IF isJoined THEN 0 ELSE 1
  BY <1>1, Facts DEF TypeOK, Waiting, Silent
<1>3. CatchesUp'
  <2>1. toBot' = <<>> /\ Known' = {}
    BY <1>1, <1>2 DEF Known
  <2> QED BY <2>1, NothingToCatch DEF CatchesUp
<1>4. CASE live = "yes"
  <2>1. onConnect = 1 /\ ~isJoined /\ W + R + 1 = 1
    BY <1>1, <1>2, <1>4 DEF Pursued
  <2>2. W = 0 /\ R = 0 /\ join(ticks)
    <3>1. join(ticks)
      BY <1>1, <2>1
    <3>2. W \in Nat /\ R \in Nat /\ W + R + 1 = 1
      BY <1>2, <2>1
    <3>3. W = 0 /\ R = 0
      BY <3>2
    <3> QED BY <3>1, <3>3
  <2>3. Counts(ticks, 0, 0)
    BY <1>2, <2>2
  <2>4. /\ wantJoined' = TRUE
        /\ ticks' \in CList /\ toServer' \in Seq({"JOIN", "PART"})
        /\ joinsyncticks' \in 0..JoinSyncTicks
        /\ onDisconnect' \in 0..2 /\ onConnect' \in Nat
        /\ Counts(ticks', 1, 0) /\ joinsyncticks' >= 1
        /\ onConnect' = 0 /\ onDisconnect' > 0
    BY <1>1, <1>2, <2>2, <2>3, JoinEffect
  <2>5. TypeOK'
    BY <1>1, <1>2, <2>4 DEF TypeOK, CList
  <2>6. Silent'
    BY <1>1, <1>2, <1>4 DEF Silent
  <2>7. ~isJoined' /\ 1 + 0 + onConnect' = 1
    BY <1>1, <2>1, <2>4
  <2> QED BY <1>1, <1>3, <2>4, <2>5, <2>6, <2>7, StepOK
<1>5. CASE live = "not yet"
  <2>1. /\ ticks = <<>> /\ W = 0 /\ R = 0 /\ ~isJoined /\ ~wantJoined
        /\ onConnect = 0 /\ onDisconnect = 0
    BY <1>2, <1>5 DEF Silent
  <2>2. /\ wantJoined' = wantJoined /\ joinsyncticks' = joinsyncticks
        /\ ticks' = ticks /\ onConnect' = onConnect /\ onDisconnect' = onDisconnect
        /\ toServer' = toServer
    BY <1>1, <2>1
  <2>3. TypeOK'
    BY <1>1, <1>2, <2>2 DEF TypeOK
  <2>4. Counts(ticks', 0, 0)
    BY <1>2, <2>1, <2>2
  <2>5. W' = 0 /\ R' = 0
    BY <2>4 DEF Counts, W, R
  <2>6. Silent'
    BY <1>1, <1>2, <2>1, <2>2, <2>5 DEF Silent
  <2>7. live' # "yes" /\ ~(0 > 0)
    <3>1. live' # "yes"
      BY <1>1, <1>5
    <3>2. ~(0 > 0)
      OBVIOUS
    <3> QED BY <3>1, <3>2
  <2> QED BY <1>3, <2>3, <2>4, <2>6, <2>7, StepOK
<1> QED BY <1>2, <1>4, <1>5

LEMMA DisconnectStep ==
    ASSUME IndInv, Disconnect
    PROVE  IndInv'
<1>1. /\ Waiting /\ online /\ events < MaxEvents /\ events' = events + 1
      /\ online' = FALSE /\ toServer' = <<>> /\ toBot' = <<>> /\ member' = FALSE
      /\ \/ /\ onDisconnect > 0
            /\ ticks' = Unregister(Unregister(ticks, "waitjoin"), "waitrejoin")
            /\ onDisconnect' = 0 /\ onConnect' = WantedOnConnect /\ isJoined' = FALSE
         \/ /\ onDisconnect = 0 /\ ticks' = ticks /\ onDisconnect' = onDisconnect
            /\ onConnect' = onConnect /\ isJoined' = isJoined
      /\ live' = live /\ wantJoined' = wantJoined /\ joinsyncticks' = joinsyncticks
      /\ rejointicks' = rejointicks /\ nicks' = nicks /\ userHandlers' = userHandlers
      /\ pos' = pos /\ others' = others /\ voiced' = voiced /\ misnamed' = misnamed
  BY DEF Disconnect, Counted
<1>2. /\ TypeOK /\ Silent /\ Pursued /\ Counts(ticks, W, R) /\ live \in {"yes", "not yet"}
      /\ pos = 0 /\ W <= 1 /\ R <= 1
  BY <1>1, Facts DEF TypeOK, Waiting
<1>3. /\ events' \in 0..MaxEvents /\ toServer' \in Seq({"JOIN", "PART"})
      /\ toBot' \in Seq(Messages)
  <2>1. events' \in 0..MaxEvents
    <3>1. events < MaxEvents /\ events' = events + 1 /\ events \in 0..MaxEvents
      BY <1>1, <1>2 DEF TypeOK
    <3> QED BY <3>1, BoundsAssumption
  <2>2. toServer' \in Seq({"JOIN", "PART"}) /\ toBot' \in Seq(Messages)
    BY <1>1
  <2> QED BY <2>1, <2>2
<1>4. CatchesUp'
  <2>1. toBot' = <<>> /\ Known' = {}
    BY <1>1 DEF Known
  <2> QED BY <2>1, NothingToCatch DEF CatchesUp
<1>5. Counts(Unregister(Unregister(ticks, "waitjoin"), "waitrejoin"), 0, 0)
  BY <1>2, CountsNone
<1>6. CASE live = "yes"
  <2>1. onDisconnect > 0 /\ wantJoined
    BY <1>1, <1>2, <1>6 DEF Pursued
  <2>2. /\ ticks' = Unregister(Unregister(ticks, "waitjoin"), "waitrejoin")
        /\ onDisconnect' = 0 /\ onConnect' = 1 /\ isJoined' = FALSE
    <3>1. onDisconnect # 0
      BY <2>1
    <3>2. WantedOnConnect = 1
      BY <2>1 DEF WantedOnConnect
    <3> QED BY <1>1, <3>1, <3>2
  <2>3. Counts(ticks', 0, 0)
    BY <1>5, <2>2
  <2>4. ticks' \in CList
    BY <2>3 DEF Counts
  <2>5. onDisconnect' \in 0..2 /\ onConnect' \in Nat
    BY <2>2
  <2>6. TypeOK'
    BY <1>1, <1>2, <1>3, <2>2, <2>4, <2>5 DEF TypeOK, CList
  <2>7. Silent'
    BY <1>1, <1>2, <1>6 DEF Silent
  <2>8. 0 + 0 + onConnect' = 1
    BY <2>2
  <2> QED BY <1>1, <1>4, <2>1, <2>2, <2>3, <2>6, <2>7, <2>8, StepOK
<1>7. CASE live = "not yet"
  <2>1. /\ ticks = <<>> /\ W = 0 /\ R = 0 /\ ~isJoined /\ ~wantJoined
        /\ onConnect = 0 /\ onDisconnect = 0
    BY <1>2, <1>7 DEF Silent
  <2>2. ~(onDisconnect > 0)
    <3>1. \A n : n = 0 => ~(n > 0)
      OBVIOUS
    <3> QED BY <2>1, <3>1
  <2>3. ticks' = ticks /\ onConnect' = onConnect /\ isJoined' = isJoined
        /\ onDisconnect' = onDisconnect
    BY <1>1, <2>2
  <2>4. Counts(ticks', 0, 0)
    BY <1>2, <2>1, <2>3
  <2>5. W' = 0 /\ R' = 0
    BY <2>4 DEF Counts, W, R
  <2>6. TypeOK'
    BY <1>1, <1>2, <1>3, <2>3 DEF TypeOK
  <2>7. Silent'
    BY <1>1, <1>2, <2>1, <2>3, <2>5 DEF Silent
  <2>8. live' # "yes" /\ ~(0 > 0)
    <3>1. live' # "yes"
      BY <1>1, <1>7
    <3>2. ~(0 > 0)
      OBVIOUS
    <3> QED BY <3>1, <3>2
  <2> QED BY <1>4, <2>4, <2>6, <2>7, <2>8, StepOK
<1> QED BY <1>2, <1>6, <1>7

-----------------------------------------------------------------------------
(* handleMsg.                                                              *)

LEMMA MessageHandled ==
    ASSUME IndInv, NEW cmd, Handling(cmd)
    PROVE  /\ live = "yes" /\ online /\ pos = 0 /\ toBot # <<>> /\ toBot \in Seq(Messages)
           /\ Head(toBot) \in Messages /\ Head(toBot).cmd = cmd
           /\ toBot' = Tail(toBot) /\ toBot' \in Seq(Messages)
           /\ live' = live /\ online' = online /\ wantJoined' = wantJoined
           /\ joinsyncticks' = joinsyncticks /\ onConnect' = onConnect
           /\ onDisconnect' = onDisconnect /\ pos' = pos /\ toServer' = toServer
           /\ member' = member /\ others' = others /\ events' = events
           /\ voiced' = voiced
           /\ TypeOK /\ wantJoined /\ onConnect = 0 /\ onDisconnect > 0
           /\ Counts(ticks, W, R)
           /\ W > 0 => joinsyncticks >= 1
           /\ R > 0 => rejointicks >= 1
           /\ isJoined => W + R = 0
           /\ ~isJoined => W + R = 1
           /\ Caught(isJoined, nicks, toBot, Known) /\ Known \in SUBSET Topics
<1>1. /\ Waiting /\ live = "yes" /\ toBot # <<>> /\ Head(toBot).cmd = cmd
      /\ toBot' = Tail(toBot)
      /\ live' = live /\ online' = online /\ wantJoined' = wantJoined
      /\ joinsyncticks' = joinsyncticks /\ onConnect' = onConnect
      /\ onDisconnect' = onDisconnect /\ pos' = pos /\ toServer' = toServer
      /\ member' = member /\ others' = others /\ events' = events
      /\ voiced' = voiced
  BY DEF Handling, network
<1>2. /\ TypeOK /\ Counts(ticks, W, R) /\ W \in Nat /\ R \in Nat
      /\ W + R + onConnect = IF isJoined THEN 0 ELSE 1
      /\ Pursued /\ Silent /\ CatchesUp
  BY <1>1, Facts
<1>3. toBot \in Seq(Messages)
  BY <1>2 DEF TypeOK
<1>4. Head(toBot) \in Messages /\ Tail(toBot) \in Seq(Messages)
  BY <1>1, <1>3
<1>5. online /\ wantJoined
  BY <1>1, <1>2 DEF Silent, Pursued
<1>6. /\ onConnect = 0 /\ onDisconnect > 0
      /\ W > 0 => joinsyncticks >= 1
      /\ R > 0 => rejointicks >= 1
  BY <1>1, <1>2, <1>5 DEF Pursued
<1>7. (isJoined => W + R = 0) /\ (~isJoined => W + R = 1)
  BY <1>2, <1>6
<1>8. Caught(isJoined, nicks, toBot, Known) /\ Known \in SUBSET Topics
  BY <1>1, <1>2 DEF CatchesUp, Known, Topics, TypeOK
<1> QED BY <1>1, <1>2, <1>3, <1>4, <1>5, <1>6, <1>7, <1>8 DEF Waiting

(* What the handling of a message has to show.                             *)
LEMMA HandleOK ==
    ASSUME IndInv, NEW cmd, Handling(cmd),
           isJoined' \in BOOLEAN, nicks' \subseteq Nicks, userHandlers' \in 0..2,
           misnamed' \subseteq Nicks,
           rejointicks' \in 0..RejoinTicks,
           NEW w, NEW r, Counts(ticks', w, r),
           w > 0 => joinsyncticks >= 1, r > 0 => rejointicks' >= 1,
           isJoined' => w + r = 0, ~isJoined' => w + r = 1,
           \A t \in Topics :
              /\ Sets(Head(toBot), t) => Value(isJoined', nicks', t)
              /\ Value(isJoined, nicks, t) /\ ~Resets(Head(toBot), t)
                    => Value(isJoined', nicks', t)
    PROVE  IndInv'
<1>1. /\ live = "yes" /\ online /\ pos = 0 /\ toBot # <<>> /\ toBot \in Seq(Messages)
      /\ toBot' = Tail(toBot) /\ toBot' \in Seq(Messages)
      /\ live' = live /\ online' = online /\ wantJoined' = wantJoined
      /\ joinsyncticks' = joinsyncticks /\ onConnect' = onConnect
      /\ onDisconnect' = onDisconnect /\ pos' = pos /\ toServer' = toServer
      /\ member' = member /\ others' = others /\ events' = events
      /\ voiced' = voiced
      /\ TypeOK /\ wantJoined /\ onConnect = 0 /\ onDisconnect > 0
      /\ Caught(isJoined, nicks, toBot, Known) /\ Known \in SUBSET Topics
  BY MessageHandled
<1>2. ticks' \in CList /\ w \in Nat /\ r \in Nat
  BY DEF Counts
<1>3. TypeOK'
  BY <1>1, <1>2 DEF TypeOK, CList
<1>4. Silent'
  BY <1>1 DEF Silent
<1>5. CatchesUp'
  <2>1. Known' = Known
    BY <1>1 DEF Known
  <2>2. Caught(isJoined', nicks', Tail(toBot), Known)
    BY <1>1, CaughtTail
  <2> QED BY <1>1, <2>1, <2>2 DEF CatchesUp
<1>6. (isJoined' => w + r + onConnect' = 0) /\ (~isJoined' => w + r + onConnect' = 1)
  <2>1. onConnect' = 0
    BY <1>1
  <2> QED BY <1>2, <2>1
<1> QED BY <1>1, <1>3, <1>4, <1>5, <1>6, StepOK

(* The messages that only tell of other users.                             *)
LEMMA NicksOK ==
    ASSUME IndInv, NEW cmd, Handling(cmd),
           isJoined' = isJoined, rejointicks' = rejointicks, ticks' = ticks,
           userHandlers' = userHandlers, nicks' \subseteq Nicks, misnamed' \subseteq Nicks,
           \A t \in Topics :
              /\ Sets(Head(toBot), t) => t # "own" /\ t \in nicks'
              /\ t # "own" /\ t \in nicks /\ ~Resets(Head(toBot), t) => t \in nicks'
    PROVE  IndInv'
<1>1. /\ TypeOK /\ Counts(ticks, W, R)
      /\ W > 0 => joinsyncticks >= 1
      /\ R > 0 => rejointicks >= 1
      /\ isJoined => W + R = 0
      /\ ~isJoined => W + R = 1
  BY MessageHandled
<1>2. /\ isJoined' \in BOOLEAN /\ userHandlers' \in 0..2 /\ rejointicks' \in 0..RejoinTicks
  BY <1>1 DEF TypeOK
<1>3. /\ Counts(ticks', W, R)
      /\ R > 0 => rejointicks' >= 1
      /\ isJoined' => W + R = 0
      /\ ~isJoined' => W + R = 1
  BY <1>1
<1>4. \A t \in Topics :
         /\ Sets(Head(toBot), t) => Value(isJoined', nicks', t)
         /\ Value(isJoined, nicks, t) /\ ~Resets(Head(toBot), t)
               => Value(isJoined', nicks', t)
  BY DEF Value
<1> QED BY <1>1, <1>2, <1>3, <1>4, HandleOK

LEMMA HandleJoinStep ==
    ASSUME IndInv, HandleJoin
    PROVE  IndInv'
<1>1. /\ Handling("JOIN") /\ nicks' = nicks \cup ({Head(toBot).nick} \ {"own"})
      /\ isJoined' = isJoined /\ rejointicks' = rejointicks /\ ticks' = ticks
      /\ userHandlers' = userHandlers /\ misnamed' = misnamed
  BY DEF HandleJoin
<1>2. Head(toBot) \in Messages /\ Head(toBot).cmd = "JOIN" /\ TypeOK
  BY <1>1, MessageHandled
<1>3. nicks' \subseteq Nicks /\ misnamed' \subseteq Nicks
  BY <1>1, <1>2, MessageFields DEF TypeOK, Topics
<1>4. \A t \in Topics :
         /\ Sets(Head(toBot), t) => t # "own" /\ t \in nicks'
         /\ t # "own" /\ t \in nicks /\ ~Resets(Head(toBot), t) => t \in nicks'
  BY <1>1, <1>2 DEF Sets
<1> QED BY <1>1, <1>3, <1>4, NicksOK

LEMMA HandlePartStep ==
    ASSUME IndInv, HandlePart
    PROVE  IndInv'
<1>1. /\ Handling("PART") /\ nicks' = nicks \ {Head(toBot).nick}
      /\ isJoined' = isJoined /\ rejointicks' = rejointicks /\ ticks' = ticks
      /\ userHandlers' = userHandlers /\ misnamed' = misnamed
  BY DEF HandlePart
<1>2. Head(toBot) \in Messages /\ Head(toBot).cmd = "PART" /\ TypeOK
  BY <1>1, MessageHandled
<1>3. nicks' \subseteq Nicks /\ misnamed' \subseteq Nicks
  BY <1>1, <1>2 DEF TypeOK
<1>4. \A t \in Topics :
         /\ Sets(Head(toBot), t) => t # "own" /\ t \in nicks'
         /\ t # "own" /\ t \in nicks /\ ~Resets(Head(toBot), t) => t \in nicks'
  BY <1>1, <1>2 DEF Sets, Resets
<1> QED BY <1>1, <1>3, <1>4, NicksOK

(* The bot knows the user that is renamed, and so takes over the new name, *)
(* unless the user is one of voiced.                                       *)
LEMMA HandleNickStep ==
    ASSUME IndInv, HandleNick
    PROVE  IndInv'
<1>1. /\ Handling("NICK")
      /\ nicks' = IF Head(toBot).nick \in nicks
                  THEN (nicks \ {Head(toBot).nick}) \cup {Head(toBot).new}
                  ELSE nicks
      /\ isJoined' = isJoined /\ rejointicks' = rejointicks /\ ticks' = ticks
      /\ userHandlers' = userHandlers /\ misnamed' = misnamed
  BY DEF HandleNick
<1>2. /\ Head(toBot) \in Messages /\ Head(toBot).cmd = "NICK" /\ TypeOK
      /\ toBot # <<>> /\ toBot \in Seq(Messages)
      /\ Caught(isJoined, nicks, toBot, Known)
  BY <1>1, MessageHandled
<1>3. Head(toBot).nick \in Nicks /\ Head(toBot).new \in Nicks
  BY <1>2, MessageFields
<1> DEFINE old == Head(toBot).nick
<1>4. ~Head(toBot).voiced => old \in nicks
  <2>1. ~Head(toBot).voiced => old \in Topics /\ old # "own" /\ Presumes(Head(toBot), old)
    BY <1>2, <1>3, NicksAssumption DEF Topics, Presumes
  <2>2. 1 \in DOMAIN toBot /\ Head(toBot) = toBot[1] /\ 1 - 1 = 0
    BY <1>2
  <2>3. ~Head(toBot).voiced => Holds(Value(isJoined, nicks, old), toBot, old, 0)
    BY <1>2, <2>1, <2>2 DEF Caught
  <2>4. \A j \in 1..0 : FALSE
    OBVIOUS
  <2> QED BY <2>1, <2>3, <2>4 DEF Holds, Value
<1>5. \/ old \in nicks /\ nicks' = (nicks \ {old}) \cup {Head(toBot).new}
      \/ old \notin nicks /\ nicks' = nicks /\ Head(toBot).voiced
  BY <1>1, <1>4
<1>6. nicks' \subseteq Nicks /\ misnamed' \subseteq Nicks
  BY <1>1, <1>2, <1>3, <1>5 DEF TypeOK
<1>7. \A t \in Topics :
         /\ Sets(Head(toBot), t) => t # "own" /\ t \in nicks'
         /\ t # "own" /\ t \in nicks /\ ~Resets(Head(toBot), t) => t \in nicks'
  BY <1>2, <1>5 DEF Sets, Resets
<1> QED BY <1>1, <1>6, <1>7, NicksOK

LEMMA HandleNamesStep ==
    ASSUME IndInv, HandleNames
    PROVE  IndInv'
<1>1. /\ Handling("NAMES") /\ nicks' = nicks \cup Named(Head(toBot).list)
      /\ misnamed' = misnamed \cup Misnamed(Head(toBot).list)
      /\ isJoined' = isJoined /\ rejointicks' = rejointicks /\ ticks' = ticks
      /\ userHandlers' = userHandlers
  BY DEF HandleNames
<1>2. Head(toBot) \in Messages /\ Head(toBot).cmd = "NAMES" /\ TypeOK
  BY <1>1, MessageHandled
<1>3. nicks' \subseteq Nicks /\ misnamed' \subseteq Nicks
  <2>1. Head(toBot).list \in SUBSET Entries
    BY <1>2, MessageFields
  <2> QED BY <1>1, <1>2, <2>1, NamedType DEF TypeOK
<1>4. \A t \in Topics :
         /\ Sets(Head(toBot), t) => t # "own" /\ t \in nicks'
         /\ t # "own" /\ t \in nicks /\ ~Resets(Head(toBot), t) => t \in nicks'
  BY <1>1, <1>2 DEF Sets
<1> QED BY <1>1, <1>3, <1>4, NicksOK

(* Neither tick handler is left: there was at most one of them.            *)
LEMMA HandleEndOfNamesStep ==
    ASSUME IndInv, HandleEndOfNames
    PROVE  IndInv'
<1>1. /\ Handling("ENDOFNAMES") /\ isJoined' = TRUE
      /\ ticks' = Unregister(Unregister(ticks, "waitjoin"), "waitrejoin")
      /\ userHandlers' = More(userHandlers) /\ rejointicks' = rejointicks /\ nicks' = nicks
      /\ misnamed' = misnamed
  BY DEF HandleEndOfNames, JoinedHandlers
<1>2. Head(toBot).cmd = "ENDOFNAMES" /\ TypeOK /\ live = "yes"
  BY <1>1, MessageHandled
<1>3. Counts(ticks', 0, 0)
  <2>1. Counts(ticks, W, R) /\ W <= 1 /\ R <= 1
    BY <1>2, Facts
  <2> QED BY <1>1, <2>1, CountsNone
<1>4. /\ isJoined' \in BOOLEAN /\ nicks' \subseteq Nicks /\ rejointicks' \in 0..RejoinTicks
      /\ misnamed' \subseteq Nicks
  BY <1>1, <1>2 DEF TypeOK
<1>5. userHandlers' \in 0..2
  BY <1>1, <1>2, MoreType DEF TypeOK
<1>6. \A t \in Topics :
         /\ Sets(Head(toBot), t) => Value(isJoined', nicks', t)
         /\ Value(isJoined, nicks, t) /\ ~Resets(Head(toBot), t)
               => Value(isJoined', nicks', t)
  BY <1>1, <1>2 DEF Value, Sets
<1>7. ~(0 > 0) /\ 0 + 0 = 0
  OBVIOUS
<1> QED BY <1>1, <1>3, <1>4, <1>5, <1>6, <1>7, HandleOK

(* The bot is joined when it is kicked, so no tick handler pursues the     *)
(* channel yet.                                                            *)
LEMMA HandleKickStep ==
    ASSUME IndInv, HandleKick
    PROVE  IndInv'
<1>1. /\ Handling("KICK") /\ userHandlers' = userHandlers /\ misnamed' = misnamed
      /\ \/ /\ Head(toBot).nick # "own" /\ nicks' = nicks \ {Head(toBot).nick}
            /\ isJoined' = isJoined /\ rejointicks' = rejointicks /\ ticks' = ticks
         \/ /\ Head(toBot).nick = "own" /\ isJoined' = FALSE
            /\ rejointicks' = IF wantJoined THEN RejoinTicks ELSE rejointicks
            /\ ticks' = IF wantJoined THEN Register(ticks, "waitrejoin") ELSE ticks
            /\ nicks' = nicks
  BY DEF HandleKick, KickedSelf
<1>2. /\ Head(toBot) \in Messages /\ Head(toBot).cmd = "KICK" /\ TypeOK
      /\ toBot # <<>> /\ toBot \in Seq(Messages) /\ wantJoined
      /\ Caught(isJoined, nicks, toBot, Known) /\ Counts(ticks, W, R)
      /\ isJoined => W + R = 0
  BY <1>1, MessageHandled
<1>3. CASE Head(toBot).nick # "own"
  <2>1. nicks' \subseteq Nicks /\ misnamed' \subseteq Nicks
    BY <1>1, <1>2, <1>3 DEF TypeOK
  <2>2. \A t \in Topics :
           /\ Sets(Head(toBot), t) => t # "own" /\ t \in nicks'
           /\ t # "own" /\ t \in nicks /\ ~Resets(Head(toBot), t) => t \in nicks'
    BY <1>1, <1>2, <1>3 DEF Sets, Resets
  <2> QED BY <1>1, <1>3, <2>1, <2>2, NicksOK
<1>4. CASE Head(toBot).nick = "own"
  <2>1. isJoined
    <3>1. "own" \in Topics /\ Presumes(Head(toBot), "own")
      BY <1>2, <1>4 DEF Topics, Presumes
    <3>2. 1 \in DOMAIN toBot /\ Head(toBot) = toBot[1] /\ 1 - 1 = 0
      BY <1>2
    <3>3. Holds(Value(isJoined, nicks, "own"), toBot, "own", 0)
      BY <1>2, <3>1, <3>2 DEF Caught
    <3>4. \A j \in 1..0 : FALSE
      OBVIOUS
    <3> QED BY <3>3, <3>4 DEF Holds, Value
  <2>2. /\ isJoined' = FALSE /\ rejointicks' = RejoinTicks
        /\ ticks' = Register(ticks, "waitrejoin") /\ nicks' = nicks
    BY <1>1, <1>2, <1>4
  <2>3. Counts(ticks', 0, 1)
    <3>1. W \in Nat /\ R \in Nat /\ W + R = 0
      BY <1>2, <2>1 DEF Counts
    <3>2. W = 0 /\ R = 0
      BY <3>1
    <3>3. Counts(Register(ticks, "waitrejoin"), 0, 0 + 1)
      BY <1>2, <3>2, CountsRegister
    <3> QED BY <2>2, <3>3
  <2>4. rejointicks' \in 0..RejoinTicks /\ rejointicks' >= 1
    BY <2>2, TicksAssumption
  <2>5. /\ isJoined' \in BOOLEAN /\ nicks' \subseteq Nicks /\ userHandlers' \in 0..2
        /\ misnamed' \subseteq Nicks
    BY <1>1, <1>2, <2>2 DEF TypeOK
  <2>6. \A t \in Topics :
           /\ Sets(Head(toBot), t) => Value(isJoined', nicks', t)
           /\ Value(isJoined, nicks, t) /\ ~Resets(Head(toBot), t)
                 => Value(isJoined', nicks', t)
    BY <1>2, <1>4, <2>2 DEF Value, Sets, Resets
  <2>7. ~(0 > 0) /\ 0 + 1 = 1
    OBVIOUS
  <2> QED BY <1>1, <2>2, <2>3, <2>4, <2>5, <2>6, <2>7, HandleOK
<1> QED BY <1>3, <1>4

-----------------------------------------------------------------------------
(* A tick.                                                                 *)

(* A step that leaves the pursuit alone.                                   *)
LEMMA PursuitKept ==
    ASSUME IndInv, TypeOK', Silent', CatchesUp',
           live' = live, online' = online, isJoined' = isJoined,
           wantJoined' = wantJoined, joinsyncticks' = joinsyncticks,
           rejointicks' = rejointicks, ticks' = ticks, onConnect' = onConnect,
           onDisconnect' = onDisconnect
    PROVE  IndInv'
<1>1. W' = W /\ R' = R
  BY DEF W, R
<1>2. Pursued'
  BY <1>1 DEF IndInv, Pursued
<1>3. OnePursuit'
  BY DEF IndInv, OnePursuit
<1> QED BY <1>2, <1>3 DEF IndInv

LEMMA TickStartStep ==
    ASSUME IndInv, TickStart
    PROVE  IndInv'
<1>1. /\ Waiting /\ ticks # <<>> /\ pos' = 1
      /\ live' = live /\ online' = online /\ isJoined' = isJoined
      /\ wantJoined' = wantJoined /\ joinsyncticks' = joinsyncticks
      /\ rejointicks' = rejointicks /\ nicks' = nicks /\ ticks' = ticks
      /\ onConnect' = onConnect /\ onDisconnect' = onDisconnect
      /\ userHandlers' = userHandlers /\ toServer' = toServer /\ toBot' = toBot
      /\ member' = member /\ others' = others /\ events' = events
      /\ voiced' = voiced /\ misnamed' = misnamed
  BY DEF TickStart, fields, handlers, network
<1>2. TypeOK /\ Silent /\ CatchesUp
  BY Facts
<1>3. live = "yes"
  BY <1>1, <1>2 DEF Silent, TypeOK, Waiting
<1>4. TypeOK'
  <2>1. pos' \in Nat
    BY <1>1
  <2> QED BY <1>1, <1>2, <2>1 DEF TypeOK
<1>5. Silent' /\ CatchesUp'
  BY <1>1, <1>2, <1>3 DEF Silent, CatchesUp, Known
<1> QED BY <1>1, <1>4, <1>5, PursuitKept

LEMMA TickEndStep ==
    ASSUME IndInv, TickEnd
    PROVE  IndInv'
<1>1. /\ pos' = 0
      /\ live' = live /\ online' = online /\ isJoined' = isJoined
      /\ wantJoined' = wantJoined /\ joinsyncticks' = joinsyncticks
      /\ rejointicks' = rejointicks /\ nicks' = nicks /\ ticks' = ticks
      /\ onConnect' = onConnect /\ onDisconnect' = onDisconnect
      /\ userHandlers' = userHandlers /\ toServer' = toServer /\ toBot' = toBot
      /\ member' = member /\ others' = others /\ events' = events
      /\ voiced' = voiced /\ misnamed' = misnamed
  BY DEF TickEnd, fields, handlers, network
<1>2. TypeOK /\ Silent /\ CatchesUp
  BY Facts
<1>3. W' = W /\ R' = R
  BY <1>1 DEF W, R
<1>4. TypeOK'
  <2>1. pos' \in Nat
    BY <1>1
  <2> QED BY <1>1, <1>2, <2>1 DEF TypeOK
<1>5. Silent' /\ CatchesUp'
  BY <1>1, <1>2, <1>3 DEF Silent, CatchesUp, Known
<1> QED BY <1>1, <1>4, <1>5, PursuitKept

(* A handler is called only while the channel exists.                      *)
LEMMA Called ==
    ASSUME IndInv, NEW h, At(h)
    PROVE  /\ live = "yes" /\ pos \in DOMAIN ticks /\ ticks[pos] = h
           /\ TypeOK /\ Silent /\ CatchesUp
           /\ pos' \in Nat /\ live' = live /\ online' = online /\ isJoined' = isJoined
           /\ nicks' = nicks /\ userHandlers' = userHandlers /\ toBot' = toBot
           /\ member' = member /\ others' = others /\ events' = events
           /\ voiced' = voiced /\ misnamed' = misnamed
<1>1. /\ pos \in DOMAIN ticks /\ ticks[pos] = h /\ pos' = pos + 1
      /\ live' = live /\ online' = online /\ isJoined' = isJoined
      /\ nicks' = nicks /\ userHandlers' = userHandlers /\ toBot' = toBot
      /\ member' = member /\ others' = others /\ events' = events
      /\ voiced' = voiced /\ misnamed' = misnamed
  BY DEF At, network
<1>2. TypeOK /\ Silent /\ CatchesUp
  BY Facts
<1>3. pos \in Nat /\ pos # 0
  <2>1. ticks \in CList
    BY <1>2 DEF TypeOK, CList
  <2> QED BY <1>1, <2>1 DEF CList
<1>4. pos' \in Nat
  BY <1>1, <1>3
<1>5. live = "yes"
  BY <1>2, <1>3 DEF Silent
<1> QED BY <1>1, <1>2, <1>4, <1>5

LEMMA TickSkipStep ==
    ASSUME IndInv, TickSkip
    PROVE  IndInv'
<1>1. /\ At("gone")
      /\ wantJoined' = wantJoined /\ joinsyncticks' = joinsyncticks
      /\ rejointicks' = rejointicks /\ ticks' = ticks
      /\ onConnect' = onConnect /\ onDisconnect' = onDisconnect
      /\ toServer' = toServer
  BY DEF TickSkip
<1>2. /\ live = "yes" /\ TypeOK /\ Silent /\ CatchesUp
      /\ pos' \in Nat /\ live' = live /\ online' = online /\ isJoined' = isJoined
      /\ nicks' = nicks /\ userHandlers' = userHandlers /\ toBot' = toBot
      /\ member' = member /\ others' = others /\ events' = events
      /\ voiced' = voiced /\ misnamed' = misnamed
  BY <1>1, Called
<1>3. TypeOK'
  BY <1>1, <1>2 DEF TypeOK
<1>4. Silent' /\ CatchesUp'
  BY <1>1, <1>2 DEF Silent, CatchesUp, Known
<1> QED BY <1>1, <1>2, <1>3, <1>4, PursuitKept

(* A handler that is called is the only pursuit of the channel, and there  *)
(* is a connection.                                                        *)
LEMMA Pursuing ==
    ASSUME IndInv, NEW h \in {"waitjoin", "waitrejoin"}, At(h)
    PROVE  /\ online /\ ~isJoined /\ wantJoined /\ onConnect = 0 /\ onDisconnect > 0
           /\ h = "waitjoin" => Counts(ticks, 1, 0) /\ joinsyncticks >= 1
           /\ h = "waitrejoin" => Counts(ticks, 0, 1) /\ rejointicks >= 1
<1>1. live = "yes" /\ pos \in DOMAIN ticks /\ ticks[pos] = h
  BY Called
<1>2. /\ TypeOK /\ Counts(ticks, W, R) /\ W \in Nat /\ R \in Nat /\ onConnect \in Nat
      /\ W + R + onConnect = IF isJoined THEN 0 ELSE 1
      /\ Pursued
  BY <1>1, Facts
<1>3. Registered(ticks, h) >= 1
  <2>1. ticks \in Seq({"waitjoin", "waitrejoin", "gone"})
    BY <1>2 DEF TypeOK
  <2> QED BY <1>1, <2>1, RegisteredAt
<1>4. (h = "waitjoin" => W >= 1) /\ (h = "waitrejoin" => R >= 1)
  BY <1>3 DEF W, R
<1>5. W + R >= 1
  BY <1>2, <1>4
<1>6. ~isJoined
  BY <1>2, <1>5
<1>7. W + R = 1 /\ onConnect = 0
  <2>1. W + R + onConnect = 1
    BY <1>2, <1>6
  <2> QED BY <1>2, <1>5, <2>1
<1>8. online /\ wantJoined /\ onDisconnect > 0
  BY <1>1, <1>2, <1>7 DEF Pursued
<1>9. ASSUME h = "waitjoin"
      PROVE  Counts(ticks, 1, 0) /\ joinsyncticks >= 1
  <2>1. W = 1 /\ R = 0
    BY <1>2, <1>4, <1>7, <1>9
  <2>2. Counts(ticks, 1, 0)
    BY <1>2, <2>1
  <2>3. W > 0
    BY <2>1
  <2> QED BY <1>2, <2>2, <2>3 DEF Pursued
<1>10. ASSUME h = "waitrejoin"
       PROVE  Counts(ticks, 0, 1) /\ rejointicks >= 1
  <2>1. W = 0 /\ R = 1
    BY <1>2, <1>4, <1>7, <1>10
  <2>2. Counts(ticks, 0, 1)
    BY <1>2, <2>1
  <2>3. R > 0
    BY <2>1
  <2> QED BY <1>2, <2>2, <2>3 DEF Pursued
<1> QED BY <1>6, <1>7, <1>8, <1>9, <1>10

LEMMA WaitjoinStep ==
    ASSUME IndInv, waitjoin
    PROVE  IndInv'
<1>1. /\ At("waitjoin") /\ joinsyncticks' = joinsyncticks - 1
      /\ \/ /\ joinsyncticks' = 0
            /\ toServer' = IF online THEN Append(toServer, "PART") ELSE toServer
            /\ ticks' = Register(Unregister(ticks, "waitjoin"), "waitrejoin")
            /\ rejointicks' = RejoinTicks
         \/ /\ joinsyncticks' # 0 /\ toServer' = toServer /\ ticks' = ticks
            /\ rejointicks' = rejointicks
      /\ wantJoined' = wantJoined /\ onConnect' = onConnect /\ onDisconnect' = onDisconnect
  BY DEF waitjoin, ExpiredHandlers
<1>2. /\ live = "yes" /\ TypeOK /\ Silent /\ CatchesUp
      /\ pos' \in Nat /\ live' = live /\ online' = online /\ isJoined' = isJoined
      /\ nicks' = nicks /\ userHandlers' = userHandlers /\ toBot' = toBot
      /\ member' = member /\ others' = others /\ events' = events
      /\ voiced' = voiced /\ misnamed' = misnamed
  BY <1>1, Called
<1>3. /\ online /\ ~isJoined /\ wantJoined /\ onConnect = 0 /\ onDisconnect > 0
      /\ Counts(ticks, 1, 0) /\ joinsyncticks >= 1
  BY <1>1, Pursuing
<1>4. joinsyncticks' \in 0..JoinSyncTicks
  <2>1. joinsyncticks \in 0..JoinSyncTicks
    BY <1>2 DEF TypeOK
  <2> QED BY <1>1, <1>3, <2>1, TicksAssumption
<1>5. Silent' /\ CatchesUp'
  BY <1>1, <1>2, <1>3 DEF Silent, CatchesUp, Known
<1>6. ~isJoined' /\ onConnect' = 0 /\ online' /\ live' = "yes" /\ wantJoined' /\ onDisconnect' > 0
  BY <1>1, <1>2, <1>3
<1>7. CASE joinsyncticks' = 0
  <2>1. /\ toServer' = Append(toServer, "PART") /\ rejointicks' = RejoinTicks
        /\ ticks' = Register(Unregister(ticks, "waitjoin"), "waitrejoin")
    BY <1>1, <1>3, <1>7
  <2>2. Counts(ticks', 0, 1)
    <3>1. Less(1) = 0 /\ 0 + 1 = 1
      BY DEF Less
    <3>2. Counts(Unregister(ticks, "waitjoin"), 0, 0)
      BY <1>3, <3>1, CountsUnregister
    <3>3. Counts(Register(Unregister(ticks, "waitjoin"), "waitrejoin"), 0, 0 + 1)
      BY <3>2, CountsRegister
    <3> QED BY <2>1, <3>1, <3>3
  <2>3. toServer' \in Seq({"JOIN", "PART"})
    BY <1>2, <2>1 DEF TypeOK
  <2>4. rejointicks' \in 0..RejoinTicks /\ rejointicks' >= 1
    BY <2>1, TicksAssumption
  <2>5. ticks' \in CList
    BY <2>2 DEF Counts
  <2>6. TypeOK'
    BY <1>1, <1>2, <1>4, <2>3, <2>4, <2>5 DEF TypeOK, CList
  <2>7. ~(0 > 0) /\ 0 + 1 + onConnect' = 1
    BY <1>6
  <2> QED BY <1>5, <1>6, <2>2, <2>4, <2>6, <2>7, StepOK
<1>8. CASE joinsyncticks' # 0
  <2>1. toServer' = toServer /\ ticks' = ticks /\ rejointicks' = rejointicks
    BY <1>1, <1>8
  <2>2. Counts(ticks', 1, 0)
    BY <1>3, <2>1
  <2>3. TypeOK'
    BY <1>1, <1>2, <1>4, <2>1 DEF TypeOK
  <2>4. joinsyncticks' >= 1
    BY <1>4, <1>8
  <2>5. ~(0 > 0) /\ 1 + 0 + onConnect' = 1
    BY <1>6
  <2> QED BY <1>5, <1>6, <2>2, <2>3, <2>4, <2>5, StepOK
<1> QED BY <1>7, <1>8

LEMMA WaitrejoinStep ==
    ASSUME IndInv, waitrejoin
    PROVE  IndInv'
<1>1. /\ At("waitrejoin") /\ rejointicks' = rejointicks - 1
      /\ \/ rejointicks' = 0 /\ join(Unregister(ticks, "waitrejoin"))
         \/ /\ rejointicks' # 0 /\ wantJoined' = wantJoined
            /\ joinsyncticks' = joinsyncticks /\ ticks' = ticks /\ onConnect' = onConnect
            /\ onDisconnect' = onDisconnect /\ toServer' = toServer
  BY DEF waitrejoin
<1>2. /\ live = "yes" /\ TypeOK /\ Silent /\ CatchesUp
      /\ pos' \in Nat /\ live' = live /\ online' = online /\ isJoined' = isJoined
      /\ nicks' = nicks /\ userHandlers' = userHandlers /\ toBot' = toBot
      /\ member' = member /\ others' = others /\ events' = events
      /\ voiced' = voiced /\ misnamed' = misnamed
  BY <1>1, Called
<1>3. /\ online /\ ~isJoined /\ wantJoined /\ onConnect = 0 /\ onDisconnect > 0
      /\ Counts(ticks, 0, 1) /\ rejointicks >= 1
  BY <1>1, Pursuing
<1>4. rejointicks' \in 0..RejoinTicks
  <2>1. rejointicks \in 0..RejoinTicks
    BY <1>2 DEF TypeOK
  <2> QED BY <1>1, <1>3, <2>1, TicksAssumption
<1>5. CatchesUp'
  BY <1>1, <1>2, <1>3 DEF CatchesUp, Known
<1>6. ~isJoined' /\ online' /\ live' = "yes"
  BY <1>1, <1>2, <1>3
<1>7. CASE rejointicks' = 0 /\ join(Unregister(ticks, "waitrejoin"))
  <2>1. Counts(Unregister(ticks, "waitrejoin"), 0, 0)
    <3>1. Less(1) = 0
      BY DEF Less
    <3> QED BY <1>3, <3>1, CountsUnregister
  <2>2. /\ wantJoined' = TRUE
        /\ ticks' \in CList /\ toServer' \in Seq({"JOIN", "PART"})
        /\ joinsyncticks' \in 0..JoinSyncTicks
        /\ onDisconnect' \in 0..2 /\ onConnect' \in Nat
        /\ Counts(ticks', 1, 0) /\ joinsyncticks' >= 1
        /\ onConnect' = 0 /\ onDisconnect' > 0
    BY <1>2, <1>6, <1>7, <2>1, JoinEffect
  <2>3. TypeOK'
    BY <1>2, <1>4, <2>2 DEF TypeOK, CList
  <2>4. Silent'
    BY <1>2, <1>3, <1>6 DEF Silent
  <2>5. ~(0 > 0) /\ 1 + 0 + onConnect' = 1
    BY <2>2
  <2> QED BY <1>5, <1>6, <2>2, <2>3, <2>4, <2>5, StepOK
<1>8. CASE /\ rejointicks' # 0 /\ wantJoined' = wantJoined
           /\ joinsyncticks' = joinsyncticks /\ ticks' = ticks /\ onConnect' = onConnect
           /\ onDisconnect' = onDisconnect /\ toServer' = toServer
  <2>1. Counts(ticks', 0, 1)
    BY <1>3, <1>8
  <2>2. TypeOK'
    BY <1>2, <1>4, <1>8 DEF TypeOK
  <2>3. Silent'
    BY <1>2, <1>3, <1>6 DEF Silent
  <2>4. rejointicks' >= 1
    BY <1>4, <1>8
  <2>5. wantJoined' /\ onConnect' = 0 /\ onDisconnect' > 0
    BY <1>3, <1>8
  <2>6. ~(0 > 0) /\ 0 + 1 + onConnect' = 1
    BY <2>5
  <2> QED BY <1>5, <1>6, <2>1, <2>2, <2>3, <2>4, <2>5, <2>6, StepOK
<1> QED BY <1>1, <1>7, <1>8

-----------------------------------------------------------------------------
(* The network.                                                            *)

BotKept ==
    /\ live' = live /\ online' = online /\ isJoined' = isJoined
    /\ wantJoined' = wantJoined /\ joinsyncticks' = joinsyncticks
    /\ rejointicks' = rejointicks /\ nicks' = nicks /\ ticks' = ticks
    /\ onConnect' = onConnect /\ onDisconnect' = onDisconnect
    /\ userHandlers' = userHandlers /\ pos' = pos /\ misnamed' = misnamed

LEMMA BotUnchanged == ASSUME UNCHANGED bot PROVE BotKept
BY DEF bot, fields, handlers, BotKept

LEMMA MessageTypes ==
    /\ \A cmd \in {"JOIN", "PART", "KICK"}, n \in Nicks \cup {"own"} :
          [cmd |-> cmd, nick |-> n] \in Messages
    /\ \A n, new \in Nicks, v \in BOOLEAN :
          [cmd |-> "NICK", nick |-> n, new |-> new, voiced |-> v] \in Messages
    /\ \A list \in SUBSET Entries : [cmd |-> "NAMES", list |-> list] \in Messages
    /\ [cmd |-> "ENDOFNAMES"] \in Messages
BY DEF Messages

(* What a step of the network has to show: that there is a connection if   *)
(* anything goes on, and that what it sends tells the bot what is so then. *)
LEMMA NetworkOK ==
    ASSUME IndInv, BotKept,
           toServer' \in Seq({"JOIN", "PART"}), toBot' \in Seq(Messages),
           member' \in BOOLEAN, others' \subseteq Nicks, voiced' \subseteq others',
           events' \in 0..MaxEvents,
           live = "not yet" \/ (live = "yes" /\ ~online) =>
              toServer' = <<>> /\ toBot' = <<>> /\ ~member',
           live = "yes" => Caught(isJoined, nicks, toBot', Known')
    PROVE  IndInv'
<1>1. TypeOK /\ Silent /\ CatchesUp
  BY Facts
<1>2. TypeOK'
  BY <1>1 DEF TypeOK, BotKept
<1>3. Silent'
  <2>1. W' = W /\ R' = R
    BY DEF W, R, BotKept
  <2> QED BY <1>1, <2>1 DEF Silent, BotKept
<1>4. CatchesUp'
  BY DEF CatchesUp, BotKept
<1> QED BY <1>2, <1>3, <1>4, PursuitKept DEF BotKept

(* While there is neither a channel nor a connection nothing is on its way.*)
LEMMA Connected ==
    ASSUME IndInv, toServer # <<>> \/ member
    PROVE  ~(live = "not yet" \/ (live = "yes" /\ ~online))
BY Facts DEF Silent

LEMMA NetworkFacts ==
    ASSUME IndInv
    PROVE  /\ toServer \in Seq({"JOIN", "PART"}) /\ toBot \in Seq(Messages)
           /\ member \in BOOLEAN /\ others \subseteq Nicks /\ voiced \subseteq others
           /\ events \in 0..MaxEvents
           /\ events < MaxEvents => events + 1 \in 0..MaxEvents
           /\ live = "yes" => Caught(isJoined, nicks, toBot, Known)
           /\ Known \in SUBSET Topics
<1>1. TypeOK /\ CatchesUp
  BY Facts
<1>2. events \in 0..MaxEvents
  BY <1>1 DEF TypeOK
<1>3. events < MaxEvents => events + 1 \in 0..MaxEvents
  BY <1>2, BoundsAssumption
<1> QED BY <1>1, <1>2, <1>3 DEF TypeOK, CatchesUp, Known, Topics

(* The answer to JOIN tells of everyone on the channel who is not voiced,  *)
(* and then of the bot.                                                    *)
LEMMA JoinAnswer ==
    ASSUME NEW q \in Seq(Messages), NEW joined, NEW names, others \subseteq Nicks,
           NEW prefix \in [others -> Prefixes],
           Caught(joined, names, q, {})
    PROVE  LET p == q \o Welcome(prefix)
               known == {n \in others : prefix[n] # "+"} \cup {"own"}
           IN  p \in Seq(Messages) /\ Caught(joined, names, p, known)
<1> DEFINE a == [cmd |-> "JOIN", nick |-> "own"]
           list == {[nick |-> n, prefix |-> prefix[n]] : n \in others}
           b == [cmd |-> "NAMES", list |-> list]
           c == [cmd |-> "ENDOFNAMES"]
           users == {n \in others : prefix[n] # "+"}
<1>0. list \in SUBSET Entries /\ users \subseteq Named(list)
  <2>1. \A n \in others : [nick |-> n, prefix |-> prefix[n]] \in Entries
    BY DEF Entries
  <2>2. \A n \in users : prefix[n] \in Skipped
    BY DEF Prefixes, Skipped
  <2>3. ASSUME NEW n \in users PROVE n \in Named(list)
    <3>1. [nick |-> n, prefix |-> prefix[n]] \in list
      OBVIOUS
    <3>2. [nick |-> n, prefix |-> prefix[n]] \in {e \in list : e.prefix \in Skipped}
      BY <2>2, <3>1
    <3> QED BY <3>2 DEF Named
  <2> QED BY <2>1, <2>3
<1>n. users \subseteq Nicks
  OBVIOUS
<1> HIDE DEF list, users
<1>1. a \in Messages /\ b \in Messages /\ c \in Messages
  BY <1>0, MessageTypes
<1>2. /\ \A t : ~Presumes(a, t) /\ ~Presumes(b, t) /\ ~Presumes(c, t)
      /\ \A t \in users : t # "own" /\ Sets(b, t) /\ ~Resets(c, t)
      /\ Sets(c, "own")
  BY <1>0, <1>n, NicksAssumption DEF Presumes, Sets, Resets
<1>3. {} \subseteq Topics /\ users \subseteq Topics /\ users \cup {"own"} \subseteq Topics
  BY <1>n DEF Topics
<1>4. q \o <<a, b, c>> = Append(Append(Append(q, a), b), c)
  BY <1>1
<1> HIDE DEF a, b, c
<1>5. Append(q, a) \in Seq(Messages) /\ Caught(joined, names, Append(q, a), {})
  BY <1>1, <1>2, <1>3, CaughtAppend
<1> DEFINE q1 == Append(q, a)
<1> HIDE DEF q1
<1>6. Append(q1, b) \in Seq(Messages) /\ Caught(joined, names, Append(q1, b), users)
  <2>1. q1 \in Seq(Messages) /\ Caught(joined, names, q1, {})
    BY <1>5 DEF q1
  <2>2. \A t \in Topics : Presumes(b, t) => t \in {}
    BY <1>2
  <2>3. \A t \in users : Sets(b, t) \/ (t \in {} /\ ~Resets(b, t))
    BY <1>2
  <2> QED BY <1>1, <1>3, <2>1, <2>2, <2>3, CaughtAppend
<1> DEFINE q2 == Append(q1, b)
<1> HIDE DEF q2
<1>7. Append(q2, c) \in Seq(Messages)
      /\ Caught(joined, names, Append(q2, c), users \cup {"own"})
  BY <1>1, <1>2, <1>3, <1>6, CaughtAppend DEF q2
<1>8. Welcome(prefix) = <<a, b, c>>
  BY DEF Welcome, a, b, c, list
<1> QED BY <1>4, <1>7, <1>8 DEF q1, q2, users

LEMMA NetworkJoinStep ==
    ASSUME IndInv, NetworkJoin
    PROVE  IndInv'
<1>1. /\ toServer # <<>> /\ toServer' = Tail(toServer) /\ BotKept /\ others' = others
      /\ \/ /\ ~member /\ member' = TRUE /\ events' = events
            /\ \E prefix \in [others -> Prefixes] :
                  /\ toBot' = toBot \o Welcome(prefix)
                  /\ voiced' = {n \in others : prefix[n] = "+"}
         \/ /\ ~member /\ events < MaxEvents /\ events' = events + 1
            /\ member' = member /\ toBot' = toBot /\ voiced' = voiced
         \/ /\ member /\ member' = member /\ toBot' = toBot /\ events' = events
            /\ voiced' = voiced
  BY BotUnchanged DEF NetworkJoin, Tell, Counted
<1>2. /\ toServer \in Seq({"JOIN", "PART"}) /\ toBot \in Seq(Messages)
      /\ member \in BOOLEAN /\ others \subseteq Nicks /\ voiced \subseteq others
      /\ events \in 0..MaxEvents
      /\ events < MaxEvents => events + 1 \in 0..MaxEvents
      /\ live = "yes" => Caught(isJoined, nicks, toBot, Known)
  BY NetworkFacts
<1>3. ~(live = "not yet" \/ (live = "yes" /\ ~online))
  BY <1>1, Connected
<1>4. toServer' \in Seq({"JOIN", "PART"})
  BY <1>1, <1>2
<1>5. ASSUME ~member, member' = TRUE, events' = events,
             NEW prefix \in [others -> Prefixes], toBot' = toBot \o Welcome(prefix),
             voiced' = {n \in others : prefix[n] = "+"}
      PROVE  IndInv'
  <2> DEFINE known == {n \in others : prefix[n] # "+"} \cup {"own"}
  <2>1. Known = {} /\ Known' = known
    BY <1>1, <1>5 DEF Known
  <2> HIDE DEF known
  <2>2. /\ toBot \o Welcome(prefix) \in Seq(Messages)
        /\ live = "yes" => Caught(isJoined, nicks, toBot \o Welcome(prefix), known)
    <3>1. \A joined, names : Caught(joined, names, toBot, {}) =>
             Caught(joined, names, toBot \o Welcome(prefix), known)
      BY <1>2, JoinAnswer DEF known
    <3>2. toBot \o Welcome(prefix) \in Seq(Messages)
      <4>1. Welcome(prefix) \in Seq(Messages)
        <5>1. {[nick |-> n, prefix |-> prefix[n]] : n \in others} \in SUBSET Entries
          BY <1>2 DEF Entries
        <5> QED BY <5>1, MessageTypes DEF Welcome
      <4> QED BY <1>2, <4>1
    <3> QED BY <1>2, <2>1, <3>1, <3>2
  <2>3. voiced' \subseteq others' /\ toBot' \in Seq(Messages)
    BY <1>1, <1>5, <2>2
  <2>4. live = "yes" => Caught(isJoined, nicks, toBot', Known')
    BY <1>5, <2>1, <2>2
  <2> QED BY <1>1, <1>2, <1>3, <1>4, <1>5, <2>3, <2>4, NetworkOK
<1>6. CASE /\ member' = member /\ toBot' = toBot /\ voiced' = voiced
           /\ events' = events \/ (events < MaxEvents /\ events' = events + 1)
  <2>1. Known' = Known
    BY <1>1, <1>6 DEF Known
  <2> QED BY <1>1, <1>2, <1>3, <1>4, <1>6, <2>1, NetworkOK
<1> QED BY <1>1, <1>5, <1>6

(* The bot is told that something ends on the channel: of the members that *)
(* are left it need not know more than before.                             *)
LEMMA NetworkPartStep ==
    ASSUME IndInv, NetworkPart
    PROVE  IndInv'
<1>1. /\ toServer # <<>> /\ toServer' = Tail(toServer) /\ BotKept /\ others' = others
      /\ member' = FALSE /\ events' = events /\ voiced' = voiced
      /\ \/ member /\ toBot' = Append(toBot, [cmd |-> "PART", nick |-> "own"])
         \/ ~member /\ toBot' = toBot
  <2>1. toBot \in Seq(Messages)
    BY NetworkFacts
  <2>2. \A m : toBot \o <<m>> = Append(toBot, m)
    BY <2>1
  <2> QED BY <2>2, BotUnchanged DEF NetworkPart, Tell
<1>2. /\ toServer \in Seq({"JOIN", "PART"}) /\ toBot \in Seq(Messages)
      /\ member \in BOOLEAN /\ others \subseteq Nicks /\ voiced \subseteq others
      /\ events \in 0..MaxEvents
      /\ live = "yes" => Caught(isJoined, nicks, toBot, Known)
      /\ Known \in SUBSET Topics
  BY NetworkFacts
<1>3. ~(live = "not yet" \/ (live = "yes" /\ ~online))
  BY <1>1, Connected
<1>4. toServer' \in Seq({"JOIN", "PART"}) /\ Known' = {}
  BY <1>1, <1>2 DEF Known
<1>5. CASE toBot' = Append(toBot, [cmd |-> "PART", nick |-> "own"])
  <2> DEFINE m == [cmd |-> "PART", nick |-> "own"]
  <2>1. m \in Messages /\ \A t : ~Presumes(m, t)
    BY MessageTypes DEF Presumes
  <2> HIDE DEF m
  <2>2. ASSUME live = "yes"
        PROVE  Caught(isJoined, nicks, Append(toBot, m), {})
    <3>1. {} \subseteq Topics
      OBVIOUS
    <3> QED BY <1>2, <2>1, <2>2, <3>1, CaughtAppend
  <2>3. toBot' = Append(toBot, m)
    BY <1>5 DEF m
  <2>4. toBot' \in Seq(Messages)
    BY <1>2, <2>1, <2>3
  <2> QED BY <1>1, <1>2, <1>3, <1>4, <2>2, <2>3, <2>4, NetworkOK
<1>6. CASE ~member /\ toBot' = toBot
  <2>1. Known = {}
    BY <1>6 DEF Known
  <2> QED BY <1>1, <1>2, <1>3, <1>4, <1>6, <2>1, NetworkOK
<1> QED BY <1>1, <1>5, <1>6

(* The bot is on the channel when it is kicked, and told so before.        *)
LEMMA KickStep ==
    ASSUME IndInv, Kick
    PROVE  IndInv'
<1>1. /\ member /\ member' = FALSE /\ events < MaxEvents /\ events' = events + 1
      /\ BotKept /\ toServer' = toServer /\ others' = others /\ voiced' = voiced
      /\ toBot' = Append(toBot, [cmd |-> "KICK", nick |-> "own"])
  <2>1. toBot \in Seq(Messages)
    BY NetworkFacts
  <2>2. \A m : toBot \o <<m>> = Append(toBot, m)
    BY <2>1
  <2> QED BY <2>2, BotUnchanged DEF Kick, Tell, Counted
<1>2. /\ toServer \in Seq({"JOIN", "PART"}) /\ toBot \in Seq(Messages)
      /\ others \subseteq Nicks /\ voiced \subseteq others
      /\ events < MaxEvents => events + 1 \in 0..MaxEvents
      /\ live = "yes" => Caught(isJoined, nicks, toBot, Known)
      /\ Known \in SUBSET Topics
  BY NetworkFacts
<1>3. ~(live = "not yet" \/ (live = "yes" /\ ~online))
  BY <1>1, Connected
<1>4. "own" \in Known /\ Known' = {}
  BY <1>1 DEF Known
<1> DEFINE m == [cmd |-> "KICK", nick |-> "own"]
<1>5. m \in Messages /\ \A t \in Topics : Presumes(m, t) => t \in Known
  BY <1>4, MessageTypes DEF Presumes
<1> HIDE DEF m
<1>6. ASSUME live = "yes"
      PROVE  Caught(isJoined, nicks, Append(toBot, m), {})
  <2>1. {} \subseteq Topics
    OBVIOUS
  <2> QED BY <1>2, <1>5, <1>6, <2>1, CaughtAppend
<1>7. toBot' = Append(toBot, m)
  BY <1>1 DEF m
<1>8. toBot' \in Seq(Messages) /\ events' \in 0..MaxEvents
  BY <1>1, <1>2, <1>5, <1>7
<1> QED BY <1>1, <1>2, <1>3, <1>4, <1>6, <1>7, <1>8, NetworkOK

-----------------------------------------------------------------------------
(* The moves of other users.                                               *)

(* What another user's move has to show of the message it sends.           *)
LEMMA OtherOK ==
    ASSUME IndInv, BotKept, NEW m \in Messages, TellMember(m), Counted,
           toServer' = toServer, member' = member, others' \subseteq Nicks,
           voiced' \subseteq others',
           \A t \in Topics : Presumes(m, t) => t \in others \ voiced,
           \A t \in (others' \ voiced') \cup {"own"} :
              Sets(m, t) \/ (t \in (others \ voiced) \cup {"own"} /\ ~Resets(m, t))
    PROVE  IndInv'
<1>1. /\ toServer \in Seq({"JOIN", "PART"}) /\ toBot \in Seq(Messages)
      /\ member \in BOOLEAN /\ others \subseteq Nicks
      /\ events < MaxEvents => events + 1 \in 0..MaxEvents
      /\ live = "yes" => Caught(isJoined, nicks, toBot, Known)
      /\ Known \in SUBSET Topics
  BY NetworkFacts
<1>2. events' \in 0..MaxEvents
  BY <1>1 DEF Counted
<1>3. CASE member
  <2>1. toBot' = Append(toBot, m)
    <3>1. toBot \o <<m>> = Append(toBot, m)
      BY <1>1
    <3> QED BY <1>3, <3>1 DEF TellMember, Tell
  <2>2. Known = (others \ voiced) \cup {"own"} /\ Known' = (others' \ voiced') \cup {"own"}
    BY <1>3 DEF Known
  <2>3. (others' \ voiced') \cup {"own"} \subseteq Topics
    BY DEF Topics
  <2>4. ASSUME live = "yes"
        PROVE  Caught(isJoined, nicks, Append(toBot, m), (others' \ voiced') \cup {"own"})
    BY <1>1, <2>2, <2>3, <2>4, CaughtAppend
  <2>5. toBot' \in Seq(Messages)
    BY <1>1, <2>1
  <2>6. ~(live = "not yet" \/ (live = "yes" /\ ~online))
    BY <1>3, Connected
  <2> QED BY <1>1, <1>2, <2>1, <2>2, <2>4, <2>5, <2>6, NetworkOK
<1>4. CASE ~member
  <2>1. toBot' = toBot /\ Known = {} /\ Known' = {}
    BY <1>4 DEF TellMember, Known
  <2>2. live = "not yet" \/ (live = "yes" /\ ~online) =>
           toServer = <<>> /\ toBot = <<>> /\ ~member
    BY Facts DEF Silent
  <2> QED BY <1>1, <1>2, <2>1, <2>2, NetworkOK
<1> QED BY <1>3, <1>4

LEMMA OtherJoinsStep ==
    ASSUME IndInv, NEW n \in Nicks, OtherJoins(n)
    PROVE  IndInv'
<1> DEFINE m == [cmd |-> "JOIN", nick |-> n]
<1>1. /\ Counted /\ others' = others \cup {n} /\ TellMember(m) /\ BotKept
      /\ toServer' = toServer /\ member' = member /\ voiced' = voiced
  BY BotUnchanged DEF OtherJoins
<1>2. m \in Messages /\ others \subseteq Nicks /\ voiced \subseteq others
  BY MessageTypes, NetworkFacts
<1>3. \A t \in Topics : Presumes(m, t) => t \in others \ voiced
  BY DEF Presumes
<1>4. \A t \in (others' \ voiced') \cup {"own"} :
         Sets(m, t) \/ (t \in (others \ voiced) \cup {"own"} /\ ~Resets(m, t))
  BY <1>1, <1>2, NicksAssumption DEF Sets, Resets
<1> HIDE DEF m
<1> QED BY <1>1, <1>2, <1>3, <1>4, OtherOK

LEMMA OtherLeavesStep ==
    ASSUME IndInv, NEW n \in Nicks, OtherLeaves(n)
    PROVE  IndInv'
<1>1. PICK cmd \in {"PART", "KICK"} : TellMember([cmd |-> cmd, nick |-> n])
  BY DEF OtherLeaves
<1> DEFINE m == [cmd |-> cmd, nick |-> n]
<1>2. /\ Counted /\ others' = others \ {n} /\ TellMember(m) /\ BotKept
      /\ toServer' = toServer /\ member' = member /\ voiced' = voiced \ {n}
  BY <1>1, BotUnchanged DEF OtherLeaves
<1>3. m \in Messages /\ others \subseteq Nicks /\ voiced \subseteq others
  BY MessageTypes, NetworkFacts
<1>4. \A t \in Topics : Presumes(m, t) => t \in others \ voiced
  BY NicksAssumption DEF Presumes
<1>5. \A t \in (others' \ voiced') \cup {"own"} :
         Sets(m, t) \/ (t \in (others \ voiced) \cup {"own"} /\ ~Resets(m, t))
  BY <1>2, <1>3, NicksAssumption DEF Sets, Resets
<1> HIDE DEF m
<1> QED BY <1>2, <1>3, <1>4, <1>5, OtherOK

LEMMA OtherRenamesStep ==
    ASSUME IndInv, NEW n \in Nicks, NEW new \in Nicks, OtherRenames(n, new)
    PROVE  IndInv'
<1> DEFINE m == [cmd |-> "NICK", nick |-> n, new |-> new, voiced |-> n \in voiced]
<1>1. /\ Counted /\ n \in others /\ others' = (others \ {n}) \cup {new}
      /\ TellMember(m) /\ BotKept /\ toServer' = toServer /\ member' = member
      /\ new \notin others
      /\ voiced' = IF n \in voiced THEN (voiced \ {n}) \cup {new} ELSE voiced
  BY BotUnchanged DEF OtherRenames
<1>2. m \in Messages /\ others \subseteq Nicks /\ voiced \subseteq others
  <2>1. (n \in voiced) \in BOOLEAN
    OBVIOUS
  <2> QED BY <2>1, MessageTypes, NetworkFacts
<1>3. \A t \in Topics : Presumes(m, t) => t \in others \ voiced
  BY <1>1 DEF Presumes
<1>4. \A t \in (others' \ voiced') \cup {"own"} :
         Sets(m, t) \/ (t \in (others \ voiced) \cup {"own"} /\ ~Resets(m, t))
  BY <1>1, <1>2, NicksAssumption DEF Sets, Resets
<1> HIDE DEF m
<1> QED BY <1>1, <1>2, <1>3, <1>4, OtherOK

-----------------------------------------------------------------------------
(* The invariant.                                                          *)

LEMMA InitInv == Init => IndInv
<1> SUFFICES ASSUME Init PROVE IndInv
  OBVIOUS
<1>1. W = 0 /\ R = 0
  <2>1. ticks = <<>>
    BY DEF Init
  <2>2. \A h : {i \in DOMAIN <<>> : <<>>[i] = h} = {}
    OBVIOUS
  <2>3. \A h : {i \in DOMAIN ticks : ticks[i] = h} = {}
    BY <2>1, <2>2
  <2>4. Cardinality({}) = 0
    BY FS_EmptySet
  <2> QED BY <2>3, <2>4 DEF W, R, Registered
<1>2. TypeOK
  <2>1. /\ live = "not yet" /\ online = FALSE /\ isJoined = FALSE /\ wantJoined = FALSE
        /\ nicks = {} /\ misnamed = {} /\ member = FALSE /\ others \subseteq Nicks
        /\ voiced = {}
    BY DEF Init
  <2>2. /\ joinsyncticks \in 0..JoinSyncTicks /\ rejointicks \in 0..RejoinTicks
        /\ pos \in Nat /\ onConnect \in Nat /\ onDisconnect \in 0..2
        /\ userHandlers \in 0..2 /\ events \in 0..MaxEvents
    <3>1. /\ joinsyncticks = 0 /\ rejointicks = 0 /\ pos = 0 /\ onConnect = 0
          /\ onDisconnect = 0 /\ userHandlers = 0 /\ events = 0
      BY DEF Init
    <3> QED BY <3>1, TicksAssumption, BoundsAssumption
  <2>3. /\ ticks \in Seq({"waitjoin", "waitrejoin", "gone"})
        /\ toServer \in Seq({"JOIN", "PART"}) /\ toBot \in Seq(Messages)
    <3>1. ticks = <<>> /\ toServer = <<>> /\ toBot = <<>>
      BY DEF Init
    <3> QED BY <3>1
  <2> QED BY <2>1, <2>2, <2>3 DEF TypeOK
<1>3. OnePursuit
  BY <1>2 DEF Init, OnePursuit
<1>4. live = "not yet" /\ ~(0 > 0)
  <2>1. ~(0 > 0)
    OBVIOUS
  <2> QED BY <2>1 DEF Init
<1>5. Pursued /\ CatchesUp
  BY <1>1, <1>4 DEF Pursued, CatchesUp
<1>6. Silent
  BY <1>1 DEF Init, Silent
<1> QED BY <1>3, <1>5, <1>6 DEF IndInv

LEMMA Stutter ==
    ASSUME IndInv, UNCHANGED vars
    PROVE  IndInv'
<1>1. BotKept /\ toServer' = toServer /\ toBot' = toBot /\ member' = member
      /\ others' = others /\ events' = events
      /\ voiced' = voiced /\ misnamed' = misnamed
  BY DEF vars, fields, handlers, network, BotKept
<1>2. TypeOK /\ Silent /\ CatchesUp
  BY Facts
<1>3. W' = W /\ R' = R
  BY <1>1 DEF W, R, BotKept
<1>4. TypeOK'
  BY <1>1, <1>2 DEF TypeOK, BotKept
<1>5. Silent' /\ CatchesUp'
  BY <1>1, <1>2, <1>3 DEF Silent, CatchesUp, Known, BotKept
<1> QED BY <1>1, <1>4, <1>5, PursuitKept DEF BotKept

LEMMA StepInv == IndInv /\ [Next]_vars => IndInv'
<1> SUFFICES ASSUME IndInv, [Next]_vars PROVE IndInv'
  OBVIOUS
<1>1. CASE IrcServer_join BY <1>1, IrcServerJoinStep
<1>2. CASE IrcServer_part BY <1>2, IrcServerPartStep
<1>3. CASE Connect BY <1>3, ConnectStep
<1>4. CASE Disconnect BY <1>4, DisconnectStep
<1>5. CASE Handle
  BY <1>5, HandleJoinStep, HandlePartStep, HandleNickStep, HandleKickStep,
     HandleNamesStep, HandleEndOfNamesStep DEF Handle
<1>6. CASE Tick
  BY <1>6, TickStartStep, TickSkipStep, TickEndStep, WaitjoinStep, WaitrejoinStep DEF Tick
<1>7. CASE Answer BY <1>7, NetworkJoinStep, NetworkPartStep DEF Answer
<1>8. CASE Kick BY <1>8, KickStep
<1>9. CASE \E n \in Nicks : OtherJoins(n) \/ OtherLeaves(n)
  BY <1>9, OtherJoinsStep, OtherLeavesStep
<1>10. CASE \E n, new \in Nicks : OtherRenames(n, new)
  BY <1>10, OtherRenamesStep
<1>11. CASE UNCHANGED vars BY <1>11, Stutter
<1> QED BY <1>1, <1>2, <1>3, <1>4, <1>5, <1>6, <1>7, <1>8, <1>9, <1>10, <1>11 DEF Next

(* IndInv is an invariant of every run, for every set of nicks and every   *)
(* length of the two timeouts.                                             *)
THEOREM Invariance == Spec => []IndInv
<1>1. Init => IndInv
  BY InitInv
<1>2. IndInv /\ [Next]_vars => IndInv'
  BY StepInv
<1> QED BY <1>1, <1>2, PTL DEF Spec

(* A wanted channel that is not joined is pursued by exactly one of        *)
(* waitjoin, waitrejoin and joinOnConnect, a joined one by none; every     *)
(* variable has its type.                                                  *)
THEOREM AlwaysOnePursuit == Spec => []OnePursuit
<1>1. IndInv => OnePursuit
  BY DEF IndInv
<1> QED BY <1>1, Invariance, PTL

(* What is so on the network is known once nothing is on its way, apart    *)
(* from the users that are voiced.                                         *)
LEMMA CaughtUp ==
    ASSUME IndInv, Quiet, member
    PROVE  isJoined /\ others \ voiced \subseteq nicks
<1>1. Caught(isJoined, nicks, <<>>, (others \ voiced) \cup {"own"})
  BY DEF IndInv, CatchesUp, Quiet, Known
<1>2. \A t \in (others \ voiced) \cup {"own"} : Holds(Value(isJoined, nicks, t), <<>>, t, 0)
  BY <1>1 DEF Caught
<1>3. \A t \in (others \ voiced) \cup {"own"} : Value(isJoined, nicks, t)
  <2>1. \A j \in 1..0 : FALSE
    OBVIOUS
  <2> QED BY <1>2, <2>1 DEF Holds
<1>4. others \subseteq Nicks
  BY DEF IndInv, OnePursuit, TypeOK
<1> QED BY <1>3, <1>4, NicksAssumption DEF Value

(* Once nothing is on its way, the bot knows that it is on the channel.    *)
THEOREM MembershipGetsKnown == Spec => []MembershipKnown
<1>1. IndInv => MembershipKnown
  BY CaughtUp DEF MembershipKnown
<1> QED BY <1>1, Invariance, PTL

(* Once nothing is on its way, no user of a channel the bot is on is       *)
(* missing in its table of nicks, except those listed with a prefix that   *)
(* handleMsg does not skip.                                                *)
THEOREM NicksAreComplete == Spec => []NicksComplete
<1>1. IndInv => NicksComplete
  BY CaughtUp DEF NicksComplete
<1> QED BY <1>1, Invariance, PTL
=============================================================================
