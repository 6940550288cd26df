-------------------------- MODULE IrcServerProofs --------------------------
(***************************************************************************)
(* Proofs about IrcServer: the session and the tick handlers of a server   *)
(* stay consistent, no connection is opened during a shutdown, and what    *)
(* the bot sees of a server is a session of ServerSessions.                *)
(***************************************************************************)
EXTENDS IrcServer, EventListProofs

-----------------------------------------------------------------------------
(* The inductive invariant.                                                *)

(* A handler that is registered still has something to count.              *)
Counting ==
    /\ Count("reconn") > 0 => reconnticks >= 1
    /\ Count("login") > 0 => loginticks >= 1
    /\ Count("active") > 0 /\ ~out.crashed => idleticks > -PingTicks

(* The position of a handler.                                              *)
IsAt(list, i, h) == i \in DOMAIN list /\ list[i] = h

(* A connection that a tick handler closed still exists when the walk of   *)
(* Event_raise ends: connWaitReconn, which may run in the same tick, has   *)
(* to wait longer than that.                                               *)
ClosesFirst ==
    /\ conn \in {"handshake", "up"} => connecting = 0
    /\ conn = "dying" /\ pos > 0 =>
         \A i \in DOMAIN ticks :
            IsAt(ticks, i, "reconn") /\ pos <= i => reconnticks >= 2

(* connWaitReconn has not run in this tick.                                *)
Ahead(i) == IF 0 < pos /\ pos <= i THEN 1 ELSE 0

(* A shutdown ends before connWaitReconn is through with waiting.          *)
StopsFirst ==
    /\ pos > 0 /\ quits > 0 => stopticks < ShutdownTicks
    /\ quits > 0 => stopticks >= 1 \/ (stopped /\ pos = 0)
    /\ quits > 0 => \A i \in DOMAIN ticks :
                        IsAt(ticks, i, "reconn") => reconnticks >= stopticks + Ahead(i)

(* activeTick of a connection that is gone, with a command unwritten: the  *)
(* server sends nothing any more, and no login completes.                  *)
Muted ==
    /\ out.sending
    /\ conn = "up" => out.nrecs = 0
    /\ connst = -2 => todo > 0

(* The same without one: activeTick uses the null sendQueue before         *)
(* connWaitReconn makes a new connection.                                  *)
Between(i, j) == IF i < pos /\ pos <= j THEN 1 ELSE 0
Doomed ==
    /\ conn = "none" \/ (conn = "dying" /\ pos = 0)
    /\ \A i, j \in DOMAIN ticks :
          IsAt(ticks, i, "active") /\ IsAt(ticks, j, "reconn") =>
            /\ i < j
            /\ out.credit + reconnticks >= 2 + Between(i, j)
            /\ i < pos => out.credit <= 1

(* An activeTick that outlived its session.                                *)
Leftover ==
    connst # 1 /\ Count("active") > 0 /\ ~out.crashed => Muted \/ Doomed

IndInv == /\ SessionConsistent /\ HandlersMatch /\ Counting /\ ClosesFirst
          /\ StopsFirst /\ Leftover

-----------------------------------------------------------------------------
(* What the operators of the model do.                                     *)

LEMMA Constants ==
    /\ ReconnTicks \in Nat /\ ReconnTicks >= ShutdownTicks
    /\ QuickReconnTicks \in Nat /\ QuickReconnTicks >= ShutdownTicks
    /\ QuickReconnTicks >= 2 /\ ReconnTicks >= 2
    /\ ShutdownTicks \in Nat /\ ShutdownTicks >= 1
    /\ LoginTicks \in Nat /\ LoginTicks >= 1
    /\ IdleTicks \in Nat /\ IdleTicks >= 1
    /\ PingTicks \in Nat /\ PingTicks >= 1
    /\ ConnTicks \in Nat /\ ConnTicks >= 1
    /\ BlacklistHits \in Nat /\ BlacklistHits >= 1
    /\ FullCredit \in Nat /\ FullCredit >= 2
    /\ MaxQuit \in Nat /\ Channels \in Nat /\ MaxQueue \in Nat
BY TicksAssumption, CreditAssumption, SetupAssumption, QuickAssumption

HList == Seq(Handlers \cup {"gone"})

(* A list with p, t, g, r and a registrations of the five handlers.        *)
Counts(list, p, t, g, r, a) ==
    /\ list \in HList
    /\ Registered(list, "pending") = p /\ p \in Nat
    /\ Registered(list, "tls") = t /\ t \in Nat
    /\ Registered(list, "login") = g /\ g \in Nat
    /\ Registered(list, "reconn") = r /\ r \in Nat
    /\ Registered(list, "active") = a /\ a \in Nat

LEMMA CountsOf ==
    ASSUME NEW list \in HList
    PROVE  Counts(list, Registered(list, "pending"), Registered(list, "tls"),
                  Registered(list, "login"), Registered(list, "reconn"),
                  Registered(list, "active"))
BY RegisteredType DEF Counts, HList

LEMMA CountsRegister ==
    ASSUME NEW list, NEW p, NEW t, NEW g, NEW r, NEW a,
           Counts(list, p, t, g, r, a)
    PROVE  /\ Counts(Register(list, "pending"), p + 1, t, g, r, a)
           /\ Counts(Register(list, "tls"), p, t + 1, g, r, a)
           /\ Counts(Register(list, "login"), p, t, g + 1, r, a)
           /\ Counts(Register(list, "reconn"), p, t, g, r + 1, a)
           /\ Counts(Register(list, "active"), p, t, g, r, a + 1)
<1> DEFINE S == Handlers \cup {"gone"}
<1>1. \A h \in Handlers : /\ Register(list, h) \in Seq(S)
                          /\ \A k \in Handlers : Registered(Register(list, h), k)
                                = IF k = h THEN Registered(list, k) + 1 ELSE Registered(list, k)
  <2>1. list \in Seq(S)
    BY DEF Counts, HList
  <2>2. Handlers \in SUBSET (S \ {"gone"})
    BY DEF Handlers
  <2> HIDE DEF S
  <2>3. \A h \in Handlers : /\ Register(list, h) \in Seq(S)
                            /\ \A k \in Handlers : Registered(Register(list, h), k) = Registered(list, k) + One(h = k)
    BY <2>1, <2>2, RegisterCounts
  <2>4. \A k : Registered(list, k) \in Nat
    BY <2>1, RegisteredType
  <2>5. ASSUME NEW h \in Handlers, NEW k \in Handlers
        PROVE  Registered(Register(list, h), k) = IF k = h THEN Registered(list, k) + 1 ELSE Registered(list, k)
    <3>1. Registered(Register(list, h), k) = Registered(list, k) + One(h = k)
      BY <2>3
    <3>2. Registered(list, k) \in Nat
      BY <2>4
    <3>3. CASE k = h
      <4>1. One(h = k) = 1
        BY <3>3 DEF One
      <4> QED BY <3>1, <3>3, <4>1
    <3>4. CASE k # h
      <4>1. One(h = k) = 0
        BY <3>4 DEF One
      <4> QED BY <3>1, <3>2, <3>4, <4>1
    <3> QED BY <3>3, <3>4
  <2> QED BY <2>3, <2>5
<1> HIDE DEF S
<1>3. Counts(Register(list, "pending"), p + 1, t, g, r, a)
  BY <1>1 DEF Counts, HList, Handlers, S
<1>4. Counts(Register(list, "tls"), p, t + 1, g, r, a)
  BY <1>1 DEF Counts, HList, Handlers, S
<1>5. Counts(Register(list, "login"), p, t, g + 1, r, a)
  BY <1>1 DEF Counts, HList, Handlers, S
<1>6. Counts(Register(list, "reconn"), p, t, g, r + 1, a)
  BY <1>1 DEF Counts, HList, Handlers, S
<1>7. Counts(Register(list, "active"), p, t, g, r, a + 1)
  BY <1>1 DEF Counts, HList, Handlers, S
<1> QED BY <1>3, <1>4, <1>5, <1>6, <1>7

Less(n) == IF n > 0 THEN n - 1 ELSE n

LEMMA CountsUnregister ==
    ASSUME NEW list, NEW p, NEW t, NEW g, NEW r, NEW a,
           Counts(list, p, t, g, r, a)
    PROVE  /\ Counts(Unregister(list, "pending"), Less(p), t, g, r, a)
           /\ Counts(Unregister(list, "tls"), p, Less(t), g, r, a)
           /\ Counts(Unregister(list, "login"), p, t, Less(g), r, a)
           /\ Counts(Unregister(list, "reconn"), p, t, g, Less(r), a)
           /\ Counts(Unregister(list, "active"), p, t, g, r, Less(a))
<1> DEFINE S == Handlers \cup {"gone"}
<1>1. \A h \in Handlers : /\ Unregister(list, h) \in Seq(S)
                          /\ \A k \in Handlers : Registered(Unregister(list, h), k)
                                = IF k = h /\ Registered(list, h) > 0
                                  THEN Registered(list, k) - 1 ELSE Registered(list, k)
  <2>1. list \in Seq(S) /\ "gone" \in S
    BY DEF Counts, HList
  <2>2. Handlers \in SUBSET (S \ {"gone"})
    BY DEF Handlers
  <2> HIDE DEF S
  <2> QED BY <2>1, <2>2, UnregisterCounts
<1> HIDE DEF S
<1>3. Counts(Unregister(list, "pending"), Less(p), t, g, r, a)
  BY <1>1 DEF Counts, HList, Handlers, S, Less
<1>4. Counts(Unregister(list, "tls"), p, Less(t), g, r, a)
  BY <1>1 DEF Counts, HList, Handlers, S, Less
<1>5. Counts(Unregister(list, "login"), p, t, Less(g), r, a)
  BY <1>1 DEF Counts, HList, Handlers, S, Less
<1>6. Counts(Unregister(list, "reconn"), p, t, g, Less(r), a)
  BY <1>1 DEF Counts, HList, Handlers, S, Less
<1>7. Counts(Unregister(list, "active"), p, t, g, r, Less(a))
  BY <1>1 DEF Counts, HList, Handlers, S, Less
<1> QED BY <1>3, <1>4, <1>5, <1>6, <1>7

(* t is s after commands were queued and at most one of them was given to  *)
(* the connection.                                                         *)
Sends(s, t) ==
    /\ t \in OutType
    /\ t.queue = Null <=> s.queue = Null
    /\ s.queue = Null => /\ t.credit = s.credit /\ t.sending = s.sending
                         /\ t.nrecs = s.nrecs
    /\ s.sending => t.sending /\ t.nrecs = s.nrecs
    /\ t.nrecs = s.nrecs \/ (t.nrecs = s.nrecs + 1 /\ ~s.sending /\ t.sending)

LEMMA OutFields ==
    ASSUME NEW s \in OutType
    PROVE  /\ s.queue \in Nat \cup {Null} /\ s.sending \in BOOLEAN
           /\ s.credit \in 0..FullCredit /\ s.nrecs \in Nat
           /\ s.crashed \in BOOLEAN
BY DEF OutType

LEMMA SetQueue ==
    ASSUME NEW s \in OutType, NEW q \in Nat \cup {Null}
    PROVE  LET u == [s EXCEPT !.queue = q]
           IN  /\ u \in OutType
               /\ u.queue = q /\ u.sending = s.sending /\ u.credit = s.credit
               /\ u.nrecs = s.nrecs /\ u.crashed = s.crashed
BY DEF OutType

LEMMA SetSending ==
    ASSUME NEW s \in OutType
    PROVE  LET u == [s EXCEPT !.sending = FALSE]
           IN  /\ u \in OutType
               /\ u.queue = s.queue /\ u.sending = FALSE /\ u.credit = s.credit
               /\ u.nrecs = s.nrecs /\ u.crashed = s.crashed
BY DEF OutType

LEMMA SetNrecs ==
    ASSUME NEW s \in OutType, NEW n \in Nat
    PROVE  LET u == [s EXCEPT !.nrecs = n]
           IN  /\ u \in OutType
               /\ u.queue = s.queue /\ u.sending = s.sending /\ u.credit = s.credit
               /\ u.nrecs = n /\ u.crashed = s.crashed
BY DEF OutType

LEMMA SetCredit ==
    ASSUME NEW s \in OutType, NEW c \in 0..FullCredit
    PROVE  LET u == [s EXCEPT !.credit = c]
           IN  /\ u \in OutType
               /\ u.queue = s.queue /\ u.sending = s.sending /\ u.credit = c
               /\ u.nrecs = s.nrecs /\ u.crashed = s.crashed
BY DEF OutType

LEMMA SetCrashed ==
    ASSUME NEW s \in OutType
    PROVE  LET u == [s EXCEPT !.crashed = TRUE]
           IN  /\ u \in OutType
               /\ u.queue = s.queue /\ u.sending = s.sending /\ u.credit = s.credit
               /\ u.nrecs = s.nrecs /\ u.crashed
BY DEF OutType

LEMMA PumpSends ==
    ASSUME NEW s \in OutType
    PROVE  /\ Sends(s, pump(s))
           /\ s.sending => pump(s) = s
           /\ s.queue = Null => (pump(s).crashed <=> s.crashed \/ MaySend(s))
<1> USE OutFields, CreditAssumption
<1>1. CASE ~MaySend(s) \/ s.queue = 0
  <2>1. pump(s) = s
    BY <1>1 DEF pump
  <2>2. Sends(s, s)
    BY DEF Sends
  <2>3. s.queue = Null => ~MaySend(s)
    BY <1>1 DEF Null
  <2> QED BY <2>1, <2>2, <2>3
<1>2. CASE MaySend(s) /\ s.queue = Null
  BY <1>2, SetCrashed DEF pump, Sends, MaySend, Null
<1>3. CASE MaySend(s) /\ s.queue # 0 /\ s.queue # Null
  <2>1. /\ s.queue - 1 \in Nat /\ s.credit - 2 \in 0..FullCredit
        /\ s.nrecs + 1 \in Nat
    BY <1>3 DEF MaySend
  <2>2. pump(s) = [s EXCEPT !.queue = s.queue - 1, !.sending = TRUE,
                            !.credit = s.credit - 2, !.nrecs = s.nrecs + 1]
    BY <1>3 DEF pump
  <2> DEFINE q == s.queue - 1
             c == s.credit - 2
             n == s.nrecs + 1
  <2>3. s.queue - 1 # Null
    BY <2>1 DEF Null
  <2>6. q \in Nat \cup {Null} /\ c \in 0..FullCredit /\ n \in Nat
    BY <2>1
  <2> HIDE DEF q, c, n
  <2>4. LET m == [s EXCEPT !.queue = q, !.sending = TRUE, !.credit = c, !.nrecs = n]
        IN /\ m \in OutType /\ m.queue = q /\ m.sending = TRUE
           /\ m.credit = c /\ m.nrecs = n /\ m.crashed = s.crashed
    BY <2>6 DEF OutType
  <2>5. /\ pump(s) \in OutType /\ pump(s).queue = s.queue - 1 /\ pump(s).sending
        /\ pump(s).nrecs = s.nrecs + 1
    BY <2>2, <2>4 DEF q, c, n
  <2> QED BY <1>3, <2>3, <2>5 DEF Sends, MaySend
<1> QED BY <1>1, <1>2, <1>3 DEF MaySend

LEMMA SendRawSends ==
    ASSUME NEW s \in OutType, NEW n \in Nat
    PROVE  /\ Sends(s, sendRaw(s, n))
           /\ s.sending /\ s.queue # Null => sendRaw(s, n).queue = s.queue + n
<1> USE OutFields
<1>1. CASE n = 0
  BY <1>1 DEF sendRaw, Sends, Null
<1>2. CASE n # 0 /\ s.queue = Null
  BY <1>2, SetCrashed DEF sendRaw, Sends, Null
<1>3. CASE n # 0 /\ s.queue # Null
  <2> DEFINE q == s.queue + n
             u == [s EXCEPT !.queue = q]
  <2>1. q \in Nat /\ q # Null
    BY <1>3 DEF Null
  <2>2. sendRaw(s, n) = pump(u)
    BY <1>3 DEF sendRaw
  <2> HIDE DEF q
  <2>3. /\ u \in OutType /\ u.queue = q /\ u.sending = s.sending
        /\ u.credit = s.credit /\ u.nrecs = s.nrecs /\ u.crashed = s.crashed
    BY <2>1, SetQueue
  <2> HIDE DEF u
  <2>4. Sends(u, pump(u)) /\ (u.sending => pump(u) = u)
    BY <2>3, PumpSends
  <2> QED BY <1>3, <2>1, <2>2, <2>3, <2>4 DEF Sends, q
<1> QED BY <1>1, <1>2, <1>3

LEMMA SendsTwice ==
    ASSUME NEW s \in OutType, NEW t, NEW u, Sends(s, t), Sends(t, u)
    PROVE  Sends(s, u)
BY OutFields DEF Sends

(* Sending on a connection that is up.                                     *)
Usable(s) == /\ s \in OutType /\ s.queue # Null /\ s.nrecs <= 1
             /\ s.nrecs = 1 => s.sending
Stuck(s) == s.sending /\ s.nrecs = 0

LEMMA SendsUsable ==
    ASSUME NEW s, NEW t, Usable(s), Sends(s, t)
    PROVE  Usable(t) /\ (Stuck(s) => Stuck(t))
BY OutFields DEF Usable, Stuck, Sends

-----------------------------------------------------------------------------
(* Positions.                                                              *)

LEMMA NoneAt ==
    ASSUME NEW list \in HList, NEW h, Registered(list, h) = 0
    PROVE  \A i : ~IsAt(list, i, h)
BY RegisteredAt DEF HList, IsAt

LEMMA OneAt ==
    ASSUME NEW list \in HList, NEW h, Registered(list, h) <= 1,
           NEW i, NEW j, IsAt(list, i, h), IsAt(list, j, h)
    PROVE  i = j
BY RegisteredOnce DEF HList, IsAt

LEMMA SomeAt ==
    ASSUME NEW list \in HList, NEW i, NEW h, IsAt(list, i, h)
    PROVE  Registered(list, h) >= 1 /\ i \in Nat \ {0}
BY RegisteredAt DEF HList, IsAt

LEMMA ExistsAt ==
    ASSUME NEW list \in HList, NEW h, Registered(list, h) # 0
    PROVE  \E i \in DOMAIN list : IsAt(list, i, h)
BY FS_EmptySet DEF Registered, IsAt

(* Unregistering puts no handler anywhere.                                 *)
LEMMA UnregisterAt ==
    ASSUME NEW list \in HList, NEW h, NEW i, NEW k, k # "gone",
           IsAt(Unregister(list, h), i, k)
    PROVE  IsAt(list, i, k)
BY UnregisterKeeps DEF HList, IsAt

(* A handler that was just registered, and was not before, is behind the   *)
(* others.                                                                 *)
LEMMA LastAt ==
    ASSUME NEW list \in HList, NEW h \in Handlers, NEW k, k # h, NEW i, NEW j,
           Registered(Register(list, h), h) <= 1,
           IsAt(Register(list, h), i, k), IsAt(Register(list, h), j, h)
    PROVE  i < j
<1> DEFINE m == Register(list, h)
           n == Len(m)
<1>1. m \in HList
  BY RegisterCounts DEF HList
<1>2. n \in DOMAIN m /\ m[n] = h /\ (\A x \in DOMAIN m : x <= n)
  BY RegisterLast DEF HList
<1> HIDE DEF m, n
<1>3. j = n
  BY <1>1, <1>2, OneAt DEF IsAt, m
<1>4. i <= n /\ i # n /\ i \in Nat /\ n \in Nat
  <2>1. i \in Nat
    BY <1>1, SomeAt DEF m
  <2>2. IsAt(m, n, h)
    BY <1>2 DEF IsAt
  <2>3. n \in Nat
    BY <1>1, <2>2, SomeAt
  <2> QED BY <1>2, <2>1, <2>3 DEF IsAt, m
<1> QED BY <1>3, <1>4

-----------------------------------------------------------------------------
(* The invariant in terms of the handlers' counts.                         *)

LEMMA CountsNow ==
    ASSUME TypeOK
    PROVE  Counts(ticks, Count("pending"), Count("tls"), Count("login"),
                  Count("reconn"), Count("active"))
BY CountsOf DEF TypeOK, HList, Count

LEMMA CountsThen ==
    ASSUME NEW p, NEW t, NEW g, NEW r, NEW a, Counts(ticks', p, t, g, r, a)
    PROVE  /\ Count("pending")' = p /\ p \in Nat
           /\ Count("tls")' = t /\ t \in Nat
           /\ Count("login")' = g /\ g \in Nat
           /\ Count("reconn")' = r /\ r \in Nat
           /\ Count("active")' = a /\ a \in Nat
           /\ ticks' \in Seq(Handlers \cup {"gone"})
BY DEF Counts, Count, HList

(* The end of a connection, wherever it is noticed.                        *)
LEMMA CloseStep ==
    ASSUME IndInv, NEW list, NEW o, NEW c, \E b : Close(list, o, c, b),
           NEW p, NEW t, NEW g, NEW a, Counts(list, p, t, g, 0, a),
           p <= 1, t <= 1, g <= 1, a <= 1,
           o \in OutType, o.nrecs <= 1,
           quits' \in 0..MaxQuit, stopticks' \in (-1)..ShutdownTicks,
           pos' \in Nat, connecting' \in 0..ConnTicks,
           tlsticks' \in 0..ConnTicks, loginticks' \in 0..LoginTicks,
           idleticks' \in (-PingTicks)..IdleTicks,
           pos' > 0 /\ quits' > 0 => stopticks' < ShutdownTicks,
           quits' > 0 => stopticks' >= 1,
           a > 0 /\ ~o.crashed =>
              /\ idleticks' > -PingTicks
              /\ o.sending \/ (c = 0 /\ pos' = 0)
    PROVE  IndInv'
<1> USE Constants
<1>1. /\ conn' = "dying" /\ connst' = 0 /\ todo' = todo
      /\ hits' \in {hits, BlacklistHits}
      /\ reconnticks' = IF c # 0 THEN ReconnTicks ELSE QuickReconnTicks
      /\ stopped' \in BOOLEAN
      /\ out' = [o EXCEPT !.queue = Null]
      /\ ticks' = Register(Unregister(list, "login"), "reconn")
  BY DEF Close, connClosed, ClosedHandlers, shutdownok, blacklistAddress, IndInv, SessionConsistent, TypeOK
<1>2. Counts(ticks', p, t, 0, 1, a)
  <2>1. Counts(Unregister(list, "login"), p, t, Less(g), 0, a)
    BY CountsUnregister
  <2>2. Counts(ticks', p, t, Less(g), 0 + 1, a)
    BY <1>1, <2>1, CountsRegister
  <2>3. Less(g) = 0
    BY DEF Counts, Less
  <2> QED BY <2>2, <2>3
<1>3. /\ Count("pending")' = p /\ p \in Nat
      /\ Count("tls")' = t /\ t \in Nat
      /\ Count("login")' = 0 /\ Count("reconn")' = 1
      /\ Count("active")' = a /\ a \in Nat
      /\ ticks' \in Seq(Handlers \cup {"gone"})
  BY <1>2 DEF Counts, Count, HList
<1>4. /\ out' \in OutType
      /\ out'.queue = Null /\ out'.sending = o.sending /\ out'.credit = o.credit
      /\ out'.nrecs = o.nrecs /\ out'.crashed = o.crashed
  BY <1>1, SetQueue
<1>5. TypeOK'
  <2>1. hits' \in 0..BlacklistHits /\ todo' \in Nat
    <3>1. hits \in 0..BlacklistHits /\ todo \in Nat
      BY DEF IndInv, SessionConsistent, TypeOK
    <3>2. todo' = todo /\ (hits' = hits \/ hits' = BlacklistHits)
      BY <1>1
    <3> QED BY <3>1, <3>2
  <2>2. reconnticks' \in 0..ReconnTicks \/ reconnticks' \in 0..QuickReconnTicks
    BY <1>1
  <2> QED BY <1>1, <1>3, <1>4, <2>1, <2>2 DEF TypeOK
<1>6. SessionConsistent'
  BY <1>1, <1>4, <1>5 DEF SessionConsistent
<1>7. HandlersMatch'
  BY <1>1, <1>3 DEF HandlersMatch
<1>8. Counting'
  <2>1. reconnticks' >= 1
    BY <1>1
  <2>2. Count("active")' > 0 /\ ~out'.crashed => idleticks' > -PingTicks
    <3>1. ~out'.crashed => ~o.crashed
      BY <1>4
    <3> QED BY <1>3, <3>1
  <2>3. ~(Count("login")' > 0)
    BY <1>3
  <2> QED BY <2>1, <2>2, <2>3 DEF Counting
<1>9. ClosesFirst'
  BY <1>1, <1>3 DEF ClosesFirst
<1>10. StopsFirst'
  <2>1. \A i : Ahead(i)' \in {0, 1} /\ (pos' = 0 => Ahead(i)' = 0)
    BY DEF Ahead
  <2>2. reconnticks' >= ShutdownTicks /\ reconnticks' \in Nat
    BY <1>1
  <2> HIDE DEF Ahead
  <2>3. quits' > 0 => \A i : reconnticks' >= stopticks' + Ahead(i)'
    BY <2>1, <2>2
  <2> QED BY <2>3 DEF StopsFirst
<1>11. Leftover'
  <2>1. SUFFICES ASSUME a > 0, ~o.crashed PROVE Muted' \/ Doomed'
    BY <1>3, <1>4 DEF Leftover
  <2>2. CASE o.sending
    BY <1>1, <1>4, <2>2 DEF Muted
  <2>3. CASE c = 0 /\ pos' = 0
    <3>1. Unregister(list, "login") \in HList
      BY CountsUnregister DEF Counts
    <3>2. Registered(ticks', "reconn") <= 1
      BY <1>3 DEF Count
    <3>3. "reconn" \in Handlers /\ "active" # "reconn"
      BY DEF Handlers
    <3>4. \A i, j : IsAt(ticks', i, "active") /\ IsAt(ticks', j, "reconn") => i < j
      BY <1>1, <3>1, <3>2, <3>3, LastAt
    <3>5. out'.credit \in Nat /\ reconnticks' >= 2 /\ reconnticks' \in Nat
      BY <1>1, <1>4, <2>3, OutFields
    <3>6. \A i \in DOMAIN ticks' : i \in Nat
      <4>1. ticks' \in Seq(Handlers \cup {"gone"})
        BY <1>3
      <4>2. Len(ticks') \in Nat /\ DOMAIN ticks' = 1..Len(ticks')
        BY <4>1
      <4> QED BY <4>2
    <3>7. \A i, j \in DOMAIN ticks' : ~(i < pos') /\ Between(i, j)' = 0
      BY <2>3, <3>6 DEF Between
    <3> QED BY <1>1, <2>3, <3>4, <3>5, <3>7 DEF Doomed
  <2> QED BY <2>1, <2>2, <2>3
<1> QED BY <1>6, <1>7, <1>8, <1>9, <1>10, <1>11 DEF IndInv

(* The connection can be used.                                             *)
LEMMA ConnectedStep ==
    ASSUME IndInv, NEW list, connConnected(list), Waiting,
           conn \in {"connecting", "handshake"},
           Counts(list, 0, 0, 0, 0, Count("active")),
           connecting' = 0, tlsticks' \in 0..ConnTicks,
           UNCHANGED <<pos, service>>
    PROVE  IndInv'
<1> USE Constants
<1>1. /\ conn' = "up" /\ connst' = -1 /\ todo' = 0 /\ loginticks' = LoginTicks
      /\ reconnticks' = reconnticks /\ idleticks' = idleticks /\ hits' = hits
      /\ stopped' = stopped
      /\ out' = [out EXCEPT !.queue = 0, !.credit = FullCredit]
      /\ ticks' = Register(list, "login")
      /\ pos' = pos /\ stopticks' = stopticks /\ quits' = quits /\ pos = 0
  BY DEF connConnected, service, Waiting
<1>2. TypeOK /\ SessionConsistent /\ Counting /\ StopsFirst /\ Leftover
  BY DEF IndInv, SessionConsistent
<1>3. Counts(ticks', 0, 0, 1, 0, Count("active"))
  BY <1>1, CountsRegister
<1>4. /\ Count("pending")' = 0 /\ Count("tls")' = 0 /\ Count("login")' = 1
      /\ Count("reconn")' = 0 /\ Count("active")' = Count("active")
      /\ Count("active") \in Nat /\ ticks' \in Seq(Handlers \cup {"gone"})
  BY <1>3 DEF Counts, Count, HList
<1>5. /\ out' \in OutType
      /\ out'.queue = 0 /\ out'.sending = out.sending /\ out'.credit = FullCredit
      /\ out'.nrecs = out.nrecs /\ out'.crashed = out.crashed
  <2>1. out \in OutType /\ FullCredit \in 0..FullCredit /\ 0 \in Nat \cup {Null}
    BY <1>2 DEF TypeOK
  <2> QED BY <1>1, <2>1 DEF OutType
<1>6. out.nrecs = 0 /\ connst = 0
  BY <1>2, OutFields DEF SessionConsistent, TypeOK
<1>7. TypeOK'
  BY <1>1, <1>2, <1>4, <1>5 DEF TypeOK
<1>8. SessionConsistent'
  BY <1>1, <1>5, <1>6, <1>7 DEF SessionConsistent, Null
<1>9. HandlersMatch'
  BY <1>1, <1>4 DEF HandlersMatch, IndInv
<1>10. Counting'
  <2>1. Count("active")' > 0 /\ ~out'.crashed => idleticks' > -PingTicks
    <3>1. ~out'.crashed => ~out.crashed
      BY <1>5
    <3> QED BY <1>1, <1>2, <1>4, <3>1 DEF Counting
  <2> QED BY <1>1, <1>4, <2>1 DEF Counting
<1>11. ClosesFirst'
  BY <1>1 DEF ClosesFirst
<1>12. StopsFirst'
  <2>1. \A i : ~IsAt(ticks', i, "reconn")
    BY <1>4, NoneAt DEF HList, Count
  <2> QED BY <1>1, <1>2, <2>1 DEF StopsFirst
<1>13. Leftover'
  <2>1. SUFFICES ASSUME Count("active") > 0, ~out.crashed PROVE Muted'
    BY <1>4, <1>5 DEF Leftover
  <2>2. Muted
    BY <1>2, <1>6, <2>1 DEF Leftover, Doomed
  <2> QED BY <1>1, <1>5, <1>6, <2>2 DEF Muted
<1> QED BY <1>8, <1>9, <1>10, <1>11, <1>12, <1>13 DEF IndInv

(* A connection that is being made or is up: what the counts are.          *)
LEMMA CountsLive ==
    ASSUME IndInv, conn \in {"connecting", "handshake", "up"}
    PROVE  /\ Counts(ticks, Count("pending"), Count("tls"), Count("login"), 0,
                     Count("active"))
           /\ Count("pending") = IF conn = "connecting" THEN 1 ELSE 0
           /\ Count("tls") = IF conn = "handshake" THEN 1 ELSE 0
           /\ Count("login") = IF connst < 0 THEN 1 ELSE 0
           /\ Count("active") \in {0, 1}
           /\ connst < 0 => conn = "up"
<1>1. Counts(ticks, Count("pending"), Count("tls"), Count("login"), Count("reconn"), Count("active"))
  BY CountsNow DEF IndInv, SessionConsistent
<1>2. /\ Count("pending") \in Nat /\ Count("tls") \in Nat /\ Count("reconn") \in Nat
      /\ Count("active") \in Nat
  BY <1>1 DEF Counts
<1>3. Count("reconn") = 0
  BY <1>2 DEF IndInv, HandlersMatch
<1>4. connst < 0 => conn = "up"
  BY DEF IndInv, SessionConsistent, TypeOK
<1> QED BY <1>1, <1>2, <1>3, <1>4 DEF IndInv, HandlersMatch

(* What holds while the loop waits.                                        *)
LEMMA AtRest ==
    ASSUME IndInv, Waiting
    PROVE  /\ pos = 0 /\ ~out.crashed
           /\ quits > 0 => stopticks >= 1
           /\ TypeOK /\ out.nrecs \in Nat /\ out.nrecs <= 1
BY OutFields DEF IndInv, SessionConsistent, TypeOK, Waiting, StopsFirst

(* An activeTick that is left over from a session with a command           *)
(* unwritten.                                                              *)
LEMMA LeftoverSends ==
    ASSUME IndInv, conn \in {"connecting", "handshake", "up"}, connst # 1,
           Count("active") > 0, ~out.crashed
    PROVE  out.sending /\ (conn = "up" => out.nrecs = 0)
BY DEF IndInv, Leftover, Muted, Doomed

(* A connection ends while the loop waits.                                 *)
LEMMA CloseAtRest ==
    ASSUME IndInv, Waiting, NEW list, NEW c, \E b : Close(list, out, c, b),
           NEW p, NEW t, NEW g, Counts(list, p, t, g, 0, Count("active")),
           p <= 1, t <= 1, g <= 1, connst = 1 => c = 0,
           conn \in {"connecting", "handshake", "up"},
           connecting' \in 0..ConnTicks, tlsticks' \in 0..ConnTicks,
           loginticks' = loginticks, idleticks' = idleticks, pos' = pos,
           quits' \in 0..MaxQuit, stopticks' \in (-1)..ShutdownTicks,
           quits' > 0 => stopticks' >= 1
    PROVE  IndInv'
<1>1. pos' = 0 /\ ~out.crashed /\ TypeOK /\ out.nrecs <= 1
  BY AtRest
<1>2. Count("active") \in {0, 1}
  BY CountsLive
<1>3. Count("active") > 0 => idleticks > -PingTicks
  BY <1>1 DEF IndInv, Counting
<1>4. Count("active") > 0 => out.sending \/ c = 0
  BY <1>1, LeftoverSends
<1>5. out \in OutType /\ loginticks' \in 0..LoginTicks /\ idleticks' \in (-PingTicks)..IdleTicks
      /\ idleticks' = idleticks
  BY <1>1 DEF TypeOK
<1> QED BY <1>1, <1>2, <1>3, <1>4, <1>5, CloseStep

LEMMA ConnectFailedStep ==
    ASSUME IndInv, ConnectFailed
    PROVE  IndInv'
<1>1. /\ Waiting /\ conn = "connecting"
      /\ connecting' = connecting /\ tlsticks' = tlsticks /\ loginticks' = loginticks
      /\ idleticks' = idleticks /\ pos' = pos /\ service' = service
      /\ \E b : Close(Unregister(ticks, "pending"), out, connecting, b)
  BY DEF ConnectFailed
<1>2. /\ Counts(ticks, 1, 0, 0, 0, Count("active")) /\ connst # 1
  BY <1>1, CountsLive DEF IndInv, SessionConsistent
<1>3. Counts(Unregister(ticks, "pending"), 0, 0, 0, 0, Count("active"))
  BY <1>2, CountsUnregister DEF Less
<1>4. /\ TypeOK /\ quits' = quits /\ stopticks' = stopticks /\ (quits > 0 => stopticks >= 1)
  BY <1>1, AtRest DEF service
<1>5. /\ connecting' \in 0..ConnTicks /\ tlsticks' \in 0..ConnTicks
      /\ quits' \in 0..MaxQuit /\ stopticks' \in (-1)..ShutdownTicks
  BY <1>1, <1>4 DEF TypeOK
<1> QED BY <1>1, <1>2, <1>3, <1>4, <1>5, CloseAtRest

LEMMA RemoteGoneStep ==
    ASSUME IndInv, RemoteGone
    PROVE  IndInv'
<1>1. /\ Waiting /\ conn = "up"
      /\ connecting' = connecting /\ tlsticks' = tlsticks /\ loginticks' = loginticks
      /\ idleticks' = idleticks /\ pos' = pos /\ service' = service
      /\ \E b : Close(ticks, out, 0, b)
  BY DEF RemoteGone
<1>2. /\ Counts(ticks, 0, 0, Count("login"), 0, Count("active"))
      /\ Count("login") <= 1
  BY <1>1, CountsLive
<1>4. /\ TypeOK /\ quits' = quits /\ stopticks' = stopticks /\ (quits > 0 => stopticks >= 1)
  BY <1>1, AtRest DEF service
<1>5. /\ connecting' \in 0..ConnTicks /\ tlsticks' \in 0..ConnTicks
      /\ quits' \in 0..MaxQuit /\ stopticks' \in (-1)..ShutdownTicks
  BY <1>1, <1>4 DEF TypeOK
<1> QED BY <1>1, <1>2, <1>4, <1>5, CloseAtRest

(* The handshake goes on: nothing but its timeout is set.                  *)
LEMMA HandshakeGoesOn ==
    ASSUME IndInv, Waiting, NEW list, conn \in {"connecting", "handshake"},
           Counts(list, 0, 1, 0, 0, Count("active")),
           conn' = "handshake", ticks' = list,
           connecting' = 0, tlsticks' \in 0..ConnTicks,
           UNCHANGED <<hits, connst, loginticks, reconnticks, idleticks, out,
                       todo, stopped>>,
           pos' = pos, service' = service
    PROVE  IndInv'
<1> USE Constants
<1>1. /\ hits' = hits /\ connst' = connst /\ loginticks' = loginticks
      /\ reconnticks' = reconnticks /\ idleticks' = idleticks /\ out' = out
      /\ todo' = todo /\ stopped' = stopped /\ stopticks' = stopticks /\ quits' = quits
  BY DEF service
<1>2. /\ TypeOK /\ SessionConsistent /\ Counting /\ StopsFirst /\ Leftover
      /\ HandlersMatch /\ pos = 0
  BY DEF IndInv, SessionConsistent, Waiting
<1>3. /\ Count("pending")' = 0 /\ Count("tls")' = 1 /\ Count("login")' = 0
      /\ Count("reconn")' = 0 /\ Count("active")' = Count("active")
      /\ Count("active") \in Nat /\ ticks' \in Seq(Handlers \cup {"gone"})
  BY DEF Counts, Count, HList
<1>4. connst = 0 /\ out.queue = Null /\ ~(out.nrecs > 0)
  BY <1>2 DEF SessionConsistent
<1>5. TypeOK'
  BY <1>1, <1>2, <1>3 DEF TypeOK
<1>6. SessionConsistent'
  BY <1>1, <1>2, <1>4, <1>5 DEF SessionConsistent
<1>7. HandlersMatch'
  BY <1>1, <1>2, <1>3, <1>4 DEF HandlersMatch
<1>8. Counting'
  BY <1>1, <1>2, <1>3 DEF Counting
<1>9. ClosesFirst'
  BY DEF ClosesFirst
<1>10. StopsFirst'
  <2>1. \A i : ~IsAt(ticks', i, "reconn")
    BY <1>3, NoneAt DEF HList, Count
  <2> QED BY <1>1, <1>2, <2>1 DEF StopsFirst
<1>11. Leftover'
  <2>1. SUFFICES ASSUME Count("active") > 0, ~out.crashed PROVE Muted'
    BY <1>1, <1>3 DEF Leftover
  <2>2. Muted
    BY <1>2, <1>4, <2>1 DEF Leftover, Doomed
  <2> QED BY <1>1, <1>4, <2>2 DEF Muted
<1> QED BY <1>6, <1>7, <1>8, <1>9, <1>10, <1>11 DEF IndInv

LEMMA DohandshakeStep ==
    ASSUME IndInv, Waiting, NEW list, NEW t \in 0..ConnTicks,
           dohandshake(list, t), conn \in {"connecting", "handshake"},
           Counts(list, 0, 1, 0, 0, Count("active")),
           connecting' = 0, pos' = pos, service' = service
    PROVE  IndInv'
<1> USE Constants
<1>1. Counts(Unregister(list, "tls"), 0, 0, 0, 0, Count("active"))
  BY CountsUnregister DEF Less
<1>2. CASE tlsticks' = 0 /\ connConnected(Unregister(list, "tls"))
  BY <1>1, <1>2, ConnectedStep
<1>3. CASE /\ tlsticks' = t
           /\ Close(Unregister(list, "tls"), out, 0, TRUE)
           /\ UNCHANGED <<loginticks, idleticks>>
  <2>1. /\ TypeOK /\ quits' = quits /\ stopticks' = stopticks /\ (quits > 0 => stopticks >= 1)
    BY AtRest DEF service
  <2>2. /\ quits' \in 0..MaxQuit /\ stopticks' \in (-1)..ShutdownTicks
        /\ connecting' \in 0..ConnTicks /\ tlsticks' \in 0..ConnTicks
        /\ loginticks' = loginticks /\ idleticks' = idleticks
    BY <1>3, <2>1 DEF TypeOK
  <2>3. \E b : Close(Unregister(list, "tls"), out, 0, b)
    BY <1>3
  <2> QED BY <1>1, <2>1, <2>2, <2>3, CloseAtRest
<1>4. CASE /\ tlsticks' = t /\ conn' = "handshake" /\ ticks' = list
           /\ UNCHANGED <<hits, connst, loginticks, reconnticks, idleticks, out,
                          todo, stopped>>
  BY <1>4, HandshakeGoesOn
<1> QED BY <1>2, <1>3, <1>4 DEF dohandshake

LEMMA ConnectedActionStep ==
    ASSUME IndInv, Connected
    PROVE  IndInv'
<1> USE Constants
<1>1. /\ Waiting /\ conn = "connecting" /\ connecting' = 0
      /\ pos' = pos /\ service' = service
      /\ \/ dohandshake(TlsHandlers(ticks), ConnTicks)
         \/ connConnected(Unregister(ticks, "pending")) /\ tlsticks' = tlsticks
  BY DEF Connected
<1>2. Counts(ticks, 1, 0, 0, 0, Count("active"))
  BY <1>1, CountsLive
<1>3. Counts(Unregister(ticks, "pending"), 0, 0, 0, 0, Count("active"))
  BY <1>2, CountsUnregister DEF Less
<1>4. Counts(TlsHandlers(ticks), 0, 1, 0, 0, Count("active"))
  BY <1>3, CountsRegister DEF TlsHandlers
<1>5. CASE dohandshake(TlsHandlers(ticks), ConnTicks)
  BY <1>1, <1>4, <1>5, DohandshakeStep
<1>6. CASE connConnected(Unregister(ticks, "pending")) /\ tlsticks' = tlsticks
  <2>1. tlsticks' \in 0..ConnTicks
    BY <1>6 DEF IndInv, SessionConsistent, TypeOK
  <2> QED BY <1>1, <1>3, <1>6, <2>1, ConnectedStep
<1> QED BY <1>1, <1>5, <1>6

LEMMA HandshakeStep ==
    ASSUME IndInv, Handshake
    PROVE  IndInv'
<1>1. /\ Waiting /\ conn = "handshake" /\ connecting' = connecting
      /\ pos' = pos /\ service' = service
      /\ dohandshake(ticks, tlsticks)
  BY DEF Handshake
<1>2. connecting = 0 /\ tlsticks \in 0..ConnTicks
  BY <1>1 DEF IndInv, ClosesFirst, SessionConsistent, TypeOK
<1>3. Counts(ticks, 0, 1, 0, 0, Count("active"))
  BY <1>1, CountsLive
<1> QED BY <1>1, <1>2, <1>3, DohandshakeStep

(* Commands are received, queued or written on a connection that is up.    *)
LEMMA UpStep ==
    ASSUME IndInv, Waiting, conn = "up", conn' = conn, ticks' = ticks,
           connecting' = connecting, tlsticks' = tlsticks, hits' = hits,
           loginticks' = loginticks, reconnticks' = reconnticks, pos' = pos,
           service' = service, stopped' = stopped,
           idleticks' \in {idleticks, IdleTicks},
           Usable(out'), todo' \in Nat,
           connst' = connst \/ (connst = -1 /\ connst' = -2),
           Count("active") > 0 /\ connst # 1 /\ Muted =>
                Stuck(out') /\ (connst' = -2 => todo' > 0)
    PROVE  IndInv'
<1> USE Constants
<1>1. /\ TypeOK /\ SessionConsistent /\ Counting /\ StopsFirst /\ Leftover
      /\ HandlersMatch /\ ClosesFirst /\ pos = 0 /\ ~out.crashed
  BY DEF IndInv, SessionConsistent, Waiting
<1>2. stopticks' = stopticks /\ quits' = quits
  BY DEF service
<1>3. \A h : Count(h)' = Count(h)
  BY DEF Count
<1>4. /\ out' \in OutType /\ out'.queue # Null /\ out'.nrecs \in Nat /\ out'.nrecs <= 1
      /\ out'.nrecs = 1 => out'.sending
  BY OutFields DEF Usable
<1>5. TypeOK'
  <2>1. idleticks' \in (-PingTicks)..IdleTicks
    BY <1>1 DEF TypeOK
  <2>2. connst' \in {0, -1, -2, 1}
    BY <1>1 DEF TypeOK
  <2> QED BY <1>1, <1>2, <1>4, <2>1, <2>2 DEF TypeOK
<1>6. SessionConsistent'
  BY <1>1, <1>4, <1>5 DEF SessionConsistent
<1>7. HandlersMatch'
  BY <1>1, <1>2, <1>3 DEF HandlersMatch
<1>8. Counting'
  <2>1. Count("active") > 0 => idleticks' > -PingTicks
    BY <1>1 DEF Counting, TypeOK
  <2> QED BY <1>1, <1>3, <2>1 DEF Counting
<1>9. ClosesFirst'
  BY <1>1, <1>3 DEF ClosesFirst
<1>10. StopsFirst'
  BY <1>1, <1>2 DEF StopsFirst, Ahead, IsAt
<1>11. Leftover'
  <2>1. SUFFICES ASSUME Count("active") > 0, connst # 1 PROVE Muted'
    BY <1>3 DEF Leftover
  <2>2. Muted
    BY <1>1, <2>1 DEF Leftover, Doomed
  <2> QED BY <2>1, <2>2 DEF Muted, Stuck
<1> QED BY <1>6, <1>7, <1>8, <1>9, <1>10, <1>11 DEF IndInv

(* A connection that is up has a queue.                                    *)
LEMMA UpUsable ==
    ASSUME IndInv, conn = "up"
    PROVE  Usable(out) /\ (Muted => Stuck(out)) /\ connst # 0
BY DEF IndInv, SessionConsistent, TypeOK, Usable, Stuck, Muted

LEMMA SendCmdStep ==
    ASSUME IndInv, SendCmd
    PROVE  IndInv'
<1>1. /\ Waiting /\ connst > 0 /\ out' = sendRaw(out, 1)
      /\ conn' = conn /\ timers' = timers /\ hits' = hits /\ connst' = connst
      /\ todo' = todo /\ ticks' = ticks /\ pos' = pos /\ service' = service
      /\ stopped' = stopped
  BY DEF SendCmd
<1>2. conn = "up" /\ TypeOK /\ connst = 1
  BY <1>1 DEF IndInv, SessionConsistent, TypeOK
<1>3. Usable(out) /\ out \in OutType
  BY <1>2, UpUsable DEF TypeOK
<1>4. Usable(out')
  BY <1>1, <1>3, SendRawSends, SendsUsable
<1>5. /\ connecting' = connecting /\ tlsticks' = tlsticks /\ loginticks' = loginticks
      /\ reconnticks' = reconnticks /\ idleticks' = idleticks
  BY <1>1 DEF timers
<1> QED BY <1>1, <1>2, <1>4, <1>5, UpStep DEF TypeOK

LEMMA DataSentStep ==
    ASSUME IndInv, DataSent
    PROVE  IndInv'
<1>1. /\ Waiting /\ conn = "up" /\ out.nrecs > 0
      /\ todo' = IF todo > 0 THEN todo - 1 ELSE 0
      /\ out' = connDataSent([out EXCEPT !.nrecs = @ - 1])
      /\ conn' = conn /\ timers' = timers /\ hits' = hits /\ connst' = connst
      /\ ticks' = ticks /\ pos' = pos /\ service' = service
      /\ stopped' = stopped
  BY DEF DataSent
<1>2. TypeOK /\ Usable(out) /\ out \in OutType
  BY <1>1, UpUsable DEF IndInv, SessionConsistent, TypeOK
<1>3. Usable(out')
  <2> DEFINE n == out.nrecs - 1
             u == [out EXCEPT !.nrecs = n]
             v == [u EXCEPT !.sending = FALSE]
  <2>1. n \in Nat /\ n = 0
    BY <1>1, <1>2, OutFields DEF Usable
  <2>2. u \in OutType /\ u.queue = out.queue /\ u.nrecs = n
    BY <1>2, <2>1, SetNrecs
  <2>3. out' = pump(v)
    BY <1>1 DEF connDataSent
  <2> HIDE DEF n, u
  <2>4. v \in OutType /\ v.queue = out.queue /\ v.nrecs = 0
    BY <2>1, <2>2, SetSending
  <2> HIDE DEF v
  <2>5. Usable(v)
    BY <1>2, <2>4 DEF Usable
  <2> QED BY <2>3, <2>4, <2>5, PumpSends, SendsUsable
<1>4. /\ connecting' = connecting /\ tlsticks' = tlsticks /\ loginticks' = loginticks
      /\ reconnticks' = reconnticks /\ idleticks' = idleticks
  BY <1>1 DEF timers
<1>5. todo' \in Nat /\ ~Muted
  BY <1>1, <1>2 DEF TypeOK, Muted
<1> QED BY <1>1, <1>3, <1>4, <1>5, UpStep

LEMMA ReceiveStep ==
    ASSUME IndInv, NEW cmd, Receive(cmd)
    PROVE  IndInv'
<1> DEFINE k == IF cmd = "other" THEN 0 ELSE 1
           s == sendRaw(out, k)
           t == sendRaw(s, 2)
<1>1. /\ Waiting /\ conn = "up" /\ idleticks' = IdleTicks
      /\ out' = IF connst = -1 THEN t ELSE s
      /\ connst' = IF connst = -1 THEN -2 ELSE connst
      /\ todo' = IF connst = -1 \/ cmd = "nickinuse"
                 THEN out'.queue + out'.nrecs ELSE todo
      /\ conn' = conn /\ connecting' = connecting /\ tlsticks' = tlsticks
      /\ hits' = hits /\ loginticks' = loginticks /\ reconnticks' = reconnticks
      /\ ticks' = ticks /\ pos' = pos /\ service' = service
      /\ stopped' = stopped
  BY DEF Receive, Login, handleMessage
<1>2. TypeOK /\ Usable(out) /\ out \in OutType /\ (Muted => Stuck(out))
  BY <1>1, UpUsable DEF IndInv, SessionConsistent, TypeOK
<1>3. k \in Nat /\ (cmd = "nickinuse" => k = 1)
  OBVIOUS
<1> HIDE DEF k
<1>4. /\ Usable(s) /\ (Stuck(out) => Stuck(s))
      /\ Stuck(out) => s.queue = out.queue + k
  BY <1>2, <1>3, SendRawSends, SendsUsable DEF Stuck, Usable
<1>5. s \in OutType
  BY <1>4 DEF Usable
<1> HIDE DEF s
<1>6. /\ Usable(t) /\ (Stuck(s) => Stuck(t))
      /\ Stuck(s) => t.queue = s.queue + 2
  BY <1>4, <1>5, SendRawSends, SendsUsable DEF Stuck, Usable
<1> HIDE DEF t
<1>7. Usable(out')
  BY <1>1, <1>4, <1>6
<1>8. /\ out.queue \in Nat /\ s.queue \in Nat /\ t.queue \in Nat
      /\ out'.queue \in Nat /\ out'.nrecs \in Nat
  BY <1>2, <1>4, <1>6, <1>7, OutFields DEF Usable
<1>9. todo' \in Nat
  <2>1. todo \in Nat
    BY <1>2 DEF TypeOK
  <2>2. out'.queue + out'.nrecs \in Nat
    BY <1>8
  <2> QED BY <1>1, <2>1, <2>2
<1>10. ASSUME Muted PROVE Stuck(out') /\ (connst' = -2 => todo' > 0)
  <2>1. Stuck(out) /\ Stuck(s) /\ Stuck(t)
    BY <1>2, <1>4, <1>6, <1>10
  <2>2. Stuck(out')
    BY <1>1, <2>1
  <2>3. CASE connst = -1
    BY <1>1, <1>6, <1>8, <2>1, <2>2, <2>3 DEF Stuck
  <2>4. CASE connst # -1 /\ cmd = "nickinuse"
    BY <1>1, <1>3, <1>4, <1>8, <2>1, <2>2, <2>4 DEF Stuck
  <2>5. CASE connst # -1 /\ cmd # "nickinuse"
    BY <1>1, <1>10, <2>2, <2>5 DEF Muted
  <2> QED BY <2>3, <2>4, <2>5
<1> QED BY <1>1, <1>7, <1>9, <1>10, UpStep

LEMMA ReceiveMyInfoStep ==
    ASSUME IndInv, ReceiveMyInfo
    PROVE  IndInv'
<1> USE Constants
<1> DEFINE u == [out EXCEPT !.credit = FullCredit]
<1>1. /\ Waiting /\ connst = -2 /\ todo = 0 /\ idleticks' = IdleTicks /\ connst' = 1
      /\ ticks' = Register(Unregister(ticks, "login"), "active")
      /\ out' = sendRaw(u, Channels)
      /\ conn' = conn /\ connecting' = connecting /\ tlsticks' = tlsticks
      /\ hits' = hits /\ loginticks' = loginticks /\ reconnticks' = reconnticks
      /\ todo' = todo /\ pos' = pos /\ service' = service /\ stopped' = stopped
  BY DEF ReceiveMyInfo
<1>2. /\ TypeOK /\ SessionConsistent /\ StopsFirst /\ Leftover
      /\ ClosesFirst /\ pos = 0 /\ ~out.crashed
  BY <1>1 DEF IndInv, SessionConsistent, Waiting
<1>3. stopticks' = stopticks /\ quits' = quits /\ conn = "up"
  BY <1>1, <1>2 DEF service, SessionConsistent, TypeOK
<1>4. Counts(ticks, 0, 0, 1, 0, Count("active")) /\ Count("active") \in {0, 1}
  BY <1>1, <1>3, CountsLive
<1>5. Count("active") = 0
  BY <1>1, <1>2, <1>3, <1>4 DEF Leftover, Muted, Doomed
<1>6. Counts(ticks', 0, 0, 0, 0, 1)
  <2>1. Counts(ticks, 0, 0, 1, 0, 0)
    BY <1>4, <1>5
  <2>2. Counts(Unregister(ticks, "login"), 0, 0, 0, 0, 0)
    BY <2>1, CountsUnregister DEF Less
  <2>3. Counts(ticks', 0, 0, 0, 0, 0 + 1)
    BY <1>1, <2>2, CountsRegister
  <2> QED BY <2>3
<1>7. /\ Count("pending")' = 0 /\ Count("tls")' = 0 /\ Count("login")' = 0
      /\ Count("reconn")' = 0 /\ Count("active")' = 1
      /\ ticks' \in Seq(Handlers \cup {"gone"})
  BY <1>6 DEF Counts, Count, HList
<1>8. /\ out' \in OutType /\ out'.queue # Null /\ out'.nrecs \in Nat /\ out'.nrecs <= 1
      /\ out'.nrecs = 1 => out'.sending
  <2>1. Usable(out) /\ out \in OutType /\ FullCredit \in 0..FullCredit
    BY <1>2, <1>3, UpUsable DEF TypeOK
  <2>2. /\ u \in OutType /\ u.queue = out.queue /\ u.nrecs = out.nrecs
        /\ u.sending = out.sending
    BY <2>1, SetCredit
  <2> HIDE DEF u
  <2>3. Usable(u)
    BY <2>1, <2>2 DEF Usable
  <2>4. Usable(out')
    BY <1>1, <2>2, <2>3, SendRawSends, SendsUsable
  <2> QED BY <2>4, OutFields DEF Usable
<1>9. TypeOK'
  <2>1. idleticks' \in (-PingTicks)..IdleTicks /\ connst' \in {0, -1, -2, 1}
    BY <1>1
  <2> QED BY <1>1, <1>2, <1>3, <1>7, <1>8, <2>1 DEF TypeOK
<1>10. SessionConsistent'
  BY <1>1, <1>3, <1>8, <1>9 DEF SessionConsistent
<1>11. HandlersMatch'
  BY <1>1, <1>3, <1>7 DEF HandlersMatch
<1>12. Counting'
  <2>1. ~(Count("login")' > 0) /\ ~(Count("reconn")' > 0)
    BY <1>7
  <2>2. idleticks' > -PingTicks
    BY <1>1
  <2> QED BY <2>1, <2>2 DEF Counting
<1>13. ClosesFirst'
  BY <1>1, <1>2, <1>3 DEF ClosesFirst
<1>14. StopsFirst'
  <2>1. \A i : ~IsAt(ticks', i, "reconn")
    BY <1>7, NoneAt DEF HList, Count
  <2> QED BY <1>1, <1>2, <1>3, <2>1 DEF StopsFirst
<1>15. Leftover'
  BY <1>1 DEF Leftover
<1> QED BY <1>10, <1>11, <1>12, <1>13, <1>14, <1>15 DEF IndInv

LEMMA EventsDoneStep ==
    ASSUME IndInv, EventsDone
    PROVE  IndInv'
<1> USE Constants
<1>1. /\ conn = "dying" /\ pos = 0 /\ conn' = "none"
      /\ out' = [out EXCEPT !.nrecs = 0]
      /\ ticks' = Unregister(Unregister(ticks, "tls"), "pending")
      /\ connecting' = connecting /\ tlsticks' = tlsticks /\ loginticks' = loginticks
      /\ reconnticks' = reconnticks /\ idleticks' = idleticks
      /\ hits' = hits /\ connst' = connst /\ todo' = todo /\ pos' = pos
      /\ stopticks' = stopticks /\ quits' = quits /\ stopped' = stopped
  BY DEF EventsDone, timers, service
<1>2. /\ TypeOK /\ SessionConsistent /\ StopsFirst /\ Leftover /\ Counting
      /\ HandlersMatch
  BY DEF IndInv, SessionConsistent
<1>3. Counts(ticks, Count("pending"), Count("tls"), Count("login"), Count("reconn"), Count("active"))
  BY <1>2, CountsNow
<1>4. Less(Count("pending")) = 0 /\ Less(Count("tls")) = 0
  BY <1>1, <1>2, <1>3 DEF Counts, HandlersMatch, Less
<1>5. Counts(ticks', 0, 0, Count("login"), Count("reconn"), Count("active"))
  BY <1>1, <1>3, <1>4, CountsUnregister
<1>6. /\ Count("pending")' = 0 /\ Count("tls")' = 0 /\ Count("login")' = Count("login")
      /\ Count("reconn")' = Count("reconn") /\ Count("active")' = Count("active")
      /\ ticks' \in Seq(Handlers \cup {"gone"})
  BY <1>5 DEF Counts, Count, HList
<1>7. /\ out' \in OutType
      /\ out'.queue = out.queue /\ out'.sending = out.sending /\ out'.credit = out.credit
      /\ out'.nrecs = 0 /\ out'.crashed = out.crashed
  BY <1>1, <1>2, SetNrecs DEF TypeOK
<1>8. \A i : /\ IsAt(ticks', i, "reconn") => IsAt(ticks, i, "reconn")
             /\ IsAt(ticks', i, "active") => IsAt(ticks, i, "active")
  <2>1. ticks \in HList /\ Unregister(ticks, "tls") \in HList
    BY <1>3, CountsUnregister DEF Counts
  <2> QED BY <1>1, <2>1, UnregisterAt
<1>9. TypeOK'
  BY <1>1, <1>2, <1>6, <1>7 DEF TypeOK
<1>10. SessionConsistent'
  BY <1>1, <1>2, <1>7, <1>9 DEF SessionConsistent
<1>11. HandlersMatch'
  BY <1>1, <1>2, <1>6 DEF HandlersMatch
<1>12. Counting'
  BY <1>1, <1>2, <1>6, <1>7 DEF Counting
<1>13. ClosesFirst'
  BY <1>1 DEF ClosesFirst
<1>14. StopsFirst'
  <2>1. \A i : Ahead(i)' = Ahead(i)
    BY <1>1 DEF Ahead
  <2> QED BY <1>1, <1>2, <1>8, <2>1 DEF StopsFirst, IsAt
<1>15. Leftover'
  <2>1. SUFFICES ASSUME connst # 1, Count("active") > 0, ~out.crashed PROVE Muted' \/ Doomed'
    BY <1>1, <1>6, <1>7 DEF Leftover
  <2>2. CASE Muted
    BY <1>1, <1>7, <2>2 DEF Muted
  <2>3. CASE Doomed
    <3>1. \A i, j : Between(i, j)' = Between(i, j)
      BY <1>1 DEF Between
    <3>2. \A i, j : IsAt(ticks', i, "active") /\ IsAt(ticks', j, "reconn") =>
            /\ i < j
            /\ out.credit + reconnticks >= 2 + Between(i, j)
            /\ i < pos => out.credit <= 1
      BY <1>8, <2>3 DEF Doomed, IsAt
    <3> QED BY <1>1, <1>7, <3>1, <3>2 DEF Doomed
  <2> QED BY <1>2, <2>1, <2>2, <2>3 DEF Leftover
<1> QED BY <1>10, <1>11, <1>12, <1>13, <1>14, <1>15 DEF IndInv

LEMMA ShutdownStep ==
    ASSUME IndInv, Shutdown
    PROVE  IndInv'
<1> USE Constants
<1> DEFINE list == QuitHandlers(ticks)
<1>1. /\ Waiting /\ quits < MaxQuit /\ quits' = quits + 1 /\ stopticks' = ShutdownTicks
      /\ connecting' = connecting /\ tlsticks' = tlsticks /\ loginticks' = loginticks
      /\ idleticks' = idleticks /\ pos' = pos
      /\ IrcServer_disconnect(list)
  BY DEF Shutdown, StopTicks
<1>2. /\ TypeOK /\ SessionConsistent /\ StopsFirst /\ Leftover /\ Counting
      /\ HandlersMatch /\ ClosesFirst /\ pos = 0 /\ ~out.crashed /\ conn # "dying"
  BY <1>1 DEF IndInv, SessionConsistent, Waiting
<1>3. Counts(ticks, Count("pending"), Count("tls"), Count("login"), Count("reconn"), Count("active"))
  BY <1>2, CountsNow
<1>4. Less(Count("login")) = 0 /\ Less(Count("reconn")) = 0
  BY <1>1, <1>2, <1>3 DEF Counts, HandlersMatch, Less
<1>5. Counts(list, Count("pending"), Count("tls"), 0, 0, Count("active"))
  BY <1>3, <1>4, CountsUnregister DEF QuitHandlers
<1>6. /\ quits' \in 0..MaxQuit /\ quits' > 0 /\ stopticks' \in (-1)..ShutdownTicks
      /\ connecting' \in 0..ConnTicks /\ tlsticks' \in 0..ConnTicks /\ stopticks' >= 1
  BY <1>1, <1>2 DEF TypeOK
<1> HIDE DEF list
<1>7. CASE connst <= 0 /\ conn # "none" /\ Close(list, out, connecting, FALSE)
  <2>1. conn \in {"connecting", "handshake", "up"} /\ connst # 1
    BY <1>2, <1>7 DEF TypeOK
  <2>2. Count("pending") <= 1 /\ Count("tls") <= 1
    BY <2>1, CountsLive
  <2>3. \E b : Close(list, out, connecting, b)
    BY <1>7
  <2> QED BY <1>1, <1>5, <1>6, <2>1, <2>2, <2>3, CloseAtRest
<1>8. CASE /\ ticks' = list /\ Sends(out, out') /\ (connst > 0 \/ out' = out)
           /\ connst > 0 \/ conn = "none"
           /\ conn' = conn /\ hits' = hits /\ connst' = connst
           /\ reconnticks' = reconnticks /\ todo' = todo /\ stopped' = stopped
  <2>1. /\ Count("pending")' = Count("pending") /\ Count("tls")' = Count("tls")
        /\ Count("login")' = 0 /\ Count("reconn")' = 0
        /\ Count("active")' = Count("active")
        /\ ticks' \in Seq(Handlers \cup {"gone"})
    BY <1>5, <1>8 DEF Counts, Count, HList
  <2>2. connst \in {0, 1} /\ conn \in {"up", "none"}
    <3>1. connst \in {0, -1, -2, 1}
      BY <1>2 DEF TypeOK
    <3> QED BY <1>2, <1>8, <3>1 DEF SessionConsistent
  <2>3. out' \in OutType
    BY <1>8 DEF Sends
  <2>4. TypeOK'
    BY <1>1, <1>2, <1>6, <1>8, <2>1, <2>3 DEF TypeOK
  <2>5. SessionConsistent'
    <3>1. CASE conn = "up"
      <4>1. Usable(out')
        BY <1>8, <3>1, UpUsable, SendsUsable
      <4> QED BY <1>2, <1>8, <2>4, <3>1, <4>1 DEF SessionConsistent, Usable
    <3>2. CASE conn # "up"
      <4>1. out' = out
        BY <1>2, <1>8, <3>2 DEF SessionConsistent
      <4> QED BY <1>2, <1>8, <2>4, <3>2, <4>1 DEF SessionConsistent
    <3> QED BY <3>1, <3>2
  <2>6. HandlersMatch'
    <3>1. quits' # 0 /\ connst' = connst /\ conn' = conn /\ ~(connst < 0)
      BY <1>6, <1>8, <2>2
    <3> QED BY <1>2, <2>1, <2>2, <3>1 DEF HandlersMatch
  <2>7. Counting'
    BY <1>1, <1>2, <2>1 DEF Counting
  <2>8. ClosesFirst'
    BY <1>1, <1>2, <1>8 DEF ClosesFirst
  <2>9. StopsFirst'
    <3>1. \A i : ~IsAt(ticks', i, "reconn")
      BY <2>1, NoneAt DEF HList, Count
    <3> QED BY <1>1, <1>2, <1>6, <3>1 DEF StopsFirst
  <2>10. Leftover'
    <3>1. SUFFICES ASSUME connst # 1, Count("active") > 0 PROVE Muted' \/ Doomed'
      BY <1>8, <2>1 DEF Leftover
    <3>2. conn = "none" /\ out' = out
      BY <1>2, <1>8, <3>1 DEF TypeOK
    <3>3. \A i : ~IsAt(ticks', i, "reconn")
      BY <2>1, NoneAt DEF HList, Count
    <3> QED BY <1>8, <3>2, <3>3 DEF Doomed
  <2> QED BY <2>5, <2>6, <2>7, <2>8, <2>9, <2>10 DEF IndInv
<1>9. ASSUME /\ connst > 0 /\ out' = sendRaw(out, 1) /\ ticks' = list
             /\ UNCHANGED <<conn, hits, connst, reconnticks, todo, stopped>>
      PROVE  IndInv'
  <2>1. Sends(out, out')
    BY <1>2, <1>9, SendRawSends DEF TypeOK
  <2> QED BY <1>8, <1>9, <2>1
<1>10. ASSUME /\ conn = "none" /\ ticks' = list
              /\ UNCHANGED <<conn, hits, connst, out, reconnticks, todo, stopped>>
       PROVE  IndInv'
  <2>1. Sends(out, out')
    BY <1>2, <1>10, OutFields DEF TypeOK, Sends
  <2> QED BY <1>8, <1>10, <2>1
<1> QED BY <1>1, <1>7, <1>9, <1>10 DEF IrcServer_disconnect

LEMMA TickStartStep ==
    ASSUME IndInv, TickStart
    PROVE  IndInv'
<1> USE Constants
<1>1. /\ Waiting
      /\ stopticks' = IF stopticks > 0 THEN stopticks - 1 ELSE stopticks
      /\ IF stopticks = 1 THEN stopped' = TRUE /\ pos' = pos
                          ELSE pos' = 1 /\ stopped' = stopped
      /\ conn' = conn /\ connecting' = connecting /\ tlsticks' = tlsticks
      /\ hits' = hits /\ connst' = connst /\ loginticks' = loginticks
      /\ reconnticks' = reconnticks /\ idleticks' = idleticks /\ out' = out
      /\ todo' = todo /\ ticks' = ticks /\ quits' = quits
  BY DEF TickStart, timers
<1>2. /\ TypeOK /\ SessionConsistent /\ StopsFirst /\ Leftover /\ Counting
      /\ HandlersMatch /\ ClosesFirst /\ pos = 0 /\ ~out.crashed /\ conn # "dying"
      /\ ~stopped
  BY <1>1 DEF IndInv, SessionConsistent, Waiting
<1>3. \A h : Count(h)' = Count(h)
  BY <1>1 DEF Count
<1>4. pos' \in {0, 1} /\ stopped' \in BOOLEAN /\ stopticks' \in (-1)..ShutdownTicks
  <2>1. stopped \in BOOLEAN /\ stopticks \in (-1)..ShutdownTicks
    BY <1>2 DEF TypeOK
  <2>2. stopped' \in BOOLEAN
    BY <1>1, <2>1
  <2>3. pos' \in {0, 1}
    BY <1>1, <1>2
  <2>4. stopticks' \in (-1)..ShutdownTicks
    BY <1>1, <2>1
  <2> QED BY <2>2, <2>3, <2>4
<1>5. TypeOK'
  BY <1>1, <1>2, <1>4 DEF TypeOK
<1>6. SessionConsistent'
  BY <1>1, <1>2, <1>5 DEF SessionConsistent
<1>7. HandlersMatch'
  BY <1>1, <1>2, <1>3 DEF HandlersMatch
<1>8. Counting'
  BY <1>1, <1>2, <1>3 DEF Counting
<1>9. ClosesFirst'
  BY <1>1, <1>2 DEF ClosesFirst
<1>10. StopsFirst'
  <2>1. SUFFICES ASSUME quits > 0 PROVE StopsFirst'
    BY <1>1 DEF StopsFirst
  <2>2. stopticks \in 1..ShutdownTicks /\ stopticks' = stopticks - 1
    BY <1>1, <1>2, <2>1 DEF StopsFirst, TypeOK
  <2>3. \A i : Ahead(i) = 0 /\ Ahead(i)' \in {0, 1} /\ reconnticks \in Nat
    BY <1>2 DEF Ahead, TypeOK
  <2>4. \A i \in DOMAIN ticks : IsAt(ticks, i, "reconn") => reconnticks' >= stopticks' + Ahead(i)'
    BY <1>1, <1>2, <2>1, <2>2, <2>3 DEF StopsFirst
  <2>5. stopticks' >= 1 \/ (stopped' /\ pos' = 0)
    BY <1>1, <1>2, <2>2
  <2> QED BY <1>1, <2>2, <2>4, <2>5 DEF StopsFirst
<1>11. Leftover'
  <2>1. SUFFICES ASSUME connst # 1, Count("active") > 0 PROVE Muted' \/ Doomed'
    BY <1>1, <1>3 DEF Leftover
  <2>2. CASE Muted
    BY <1>1, <2>2 DEF Muted
  <2>3. CASE Doomed
    <3>1. \A i, j \in DOMAIN ticks : Between(i, j)' = Between(i, j) /\ ~(i < pos')
      <4>1. \A i \in DOMAIN ticks : i \in Nat \ {0}
        BY <1>2 DEF TypeOK
      <4> QED BY <1>2, <1>4, <4>1 DEF Between
    <3> QED BY <1>1, <1>2, <2>3, <3>1 DEF Doomed
  <2> QED BY <1>2, <2>1, <2>2, <2>3 DEF Leftover
<1> QED BY <1>6, <1>7, <1>8, <1>9, <1>10, <1>11 DEF IndInv

LEMMA TickEndStep ==
    ASSUME IndInv, TickEnd
    PROVE  IndInv'
<1>1. /\ pos > Len(ticks) /\ pos' = 0
      /\ conn' = conn /\ connecting' = connecting /\ tlsticks' = tlsticks
      /\ hits' = hits /\ connst' = connst /\ loginticks' = loginticks
      /\ reconnticks' = reconnticks /\ idleticks' = idleticks /\ out' = out
      /\ todo' = todo /\ ticks' = ticks /\ quits' = quits /\ stopticks' = stopticks
      /\ stopped' = stopped
  BY DEF TickEnd, timers, service
<1>2. /\ TypeOK /\ SessionConsistent /\ StopsFirst /\ Leftover /\ Counting
      /\ HandlersMatch /\ ClosesFirst
  BY DEF IndInv, SessionConsistent
<1>3. \A h : Count(h)' = Count(h)
  BY <1>1 DEF Count
<1>4. \A i \in DOMAIN ticks : i \in Nat /\ 0 < i /\ i < pos
  BY <1>1, <1>2 DEF TypeOK
<1>5. TypeOK'
  BY <1>1, <1>2 DEF TypeOK
<1>6. SessionConsistent'
  BY <1>1, <1>2, <1>5 DEF SessionConsistent
<1>7. HandlersMatch'
  BY <1>1, <1>2, <1>3 DEF HandlersMatch
<1>8. Counting'
  BY <1>1, <1>2, <1>3 DEF Counting
<1>9. ClosesFirst'
  BY <1>1, <1>2 DEF ClosesFirst
<1>10. StopsFirst'
  <2>1. \A i \in DOMAIN ticks : Ahead(i) = 0 /\ Ahead(i)' = 0
    BY <1>1, <1>2, <1>4 DEF Ahead, TypeOK
  <2>2. pos > 0
    BY <1>1, <1>2 DEF TypeOK
  <2> QED BY <1>1, <1>2, <2>1, <2>2 DEF StopsFirst
<1>11. Leftover'
  <2>1. SUFFICES ASSUME connst # 1, Count("active") > 0, ~out.crashed PROVE Muted' \/ Doomed'
    BY <1>1, <1>3 DEF Leftover
  <2>2. CASE Muted
    BY <1>1, <2>2 DEF Muted
  <2>3. CASE Doomed
    <3>1. \A i, j \in DOMAIN ticks : Between(i, j) = 0 /\ Between(i, j)' = 0 /\ ~(i < pos')
      BY <1>1, <1>2, <1>4 DEF Between, TypeOK
    <3> QED BY <1>1, <1>2, <2>3, <3>1 DEF Doomed
  <2> QED BY <1>2, <2>1, <2>2, <2>3 DEF Leftover
<1> QED BY <1>6, <1>7, <1>8, <1>9, <1>10, <1>11 DEF IndInv

-----------------------------------------------------------------------------
(* Event_raise walks the tick handlers.                                    *)

LEMMA AtFacts ==
    ASSUME IndInv, NEW h, At(h)
    PROVE  /\ ~out.crashed /\ IsAt(ticks, pos, h) /\ Count(h) >= 1 /\ Count(h) \in Nat
           /\ pos \in Nat \ {0} /\ pos' = pos + 1 /\ pos' > 0
           /\ stopticks' = stopticks /\ quits' = quits
           /\ quits > 0 => stopticks >= 1 /\ stopticks < ShutdownTicks
           /\ TypeOK
<1>1. /\ ~out.crashed /\ IsAt(ticks, pos, h) /\ pos' = pos + 1
      /\ stopticks' = stopticks /\ quits' = quits
  BY DEF At, IsAt, service
<1>2. TypeOK /\ ticks \in HList
  BY DEF IndInv, SessionConsistent, TypeOK, HList
<1>3. Count(h) >= 1 /\ pos \in Nat \ {0}
  BY <1>1, <1>2, SomeAt DEF Count
<1>4. Count(h) \in Nat
  BY <1>2, RegisteredType DEF Count, HList
<1> QED BY <1>1, <1>2, <1>3, <1>4 DEF IndInv, StopsFirst

(* A handler that only counts, or an entry that is skipped.                *)
LEMMA WalkStep ==
    ASSUME IndInv, NEW h, At(h), h # "active",
           conn' = conn, hits' \in {hits, BlacklistHits}, connst' = connst,
           reconnticks' = reconnticks, out' = out, todo' = todo,
           ticks' = ticks, stopped' = stopped, idleticks' = idleticks,
           connecting' \in 0..ConnTicks, connecting = 0 => connecting' = 0,
           tlsticks' \in 0..ConnTicks, tlsticks = 0 => tlsticks' = 0,
           loginticks' \in 0..LoginTicks,
           loginticks' >= 1 \/ loginticks' = loginticks
    PROVE  IndInv'
<1> USE Constants
<1>1. /\ IsAt(ticks, pos, h) /\ pos \in Nat \ {0} /\ pos' = pos + 1 /\ pos' > 0
      /\ stopticks' = stopticks /\ quits' = quits
  BY AtFacts
<1>2. /\ TypeOK /\ SessionConsistent /\ StopsFirst /\ Leftover /\ Counting
      /\ HandlersMatch /\ ClosesFirst
  BY DEF IndInv, SessionConsistent
<1>3. \A k : Count(k)' = Count(k)
  BY DEF Count
<1>4. \A i \in DOMAIN ticks : i \in Nat
  BY <1>2 DEF TypeOK
<1>5. hits' \in 0..BlacklistHits
  BY <1>2 DEF TypeOK
<1>6. TypeOK'
  BY <1>1, <1>2, <1>5 DEF TypeOK
<1>7. SessionConsistent'
  BY <1>2, <1>6 DEF SessionConsistent
<1>8. HandlersMatch'
  BY <1>1, <1>2, <1>3 DEF HandlersMatch
<1>9. Counting'
  BY <1>2, <1>3 DEF Counting
<1>10. ClosesFirst'
  <2>1. \A i \in DOMAIN ticks : pos' <= i => pos <= i
    BY <1>1, <1>4
  <2> QED BY <1>1, <1>2, <1>3, <2>1 DEF ClosesFirst
<1>11. StopsFirst'
  <2>1. \A i \in DOMAIN ticks : Ahead(i) \in {0, 1} /\ Ahead(i)' \in {0, 1} /\ Ahead(i)' <= Ahead(i)
    BY <1>1, <1>4 DEF Ahead
  <2>2. quits > 0 => \A i \in DOMAIN ticks :
            IsAt(ticks, i, "reconn") => reconnticks >= stopticks + Ahead(i)'
    BY <1>2, <2>1 DEF StopsFirst, TypeOK
  <2> QED BY <1>1, <1>2, <2>2 DEF StopsFirst
<1>12. Leftover'
  <2>1. SUFFICES ASSUME connst # 1, Count("active") > 0, ~out.crashed PROVE Muted' \/ Doomed'
    BY <1>3 DEF Leftover
  <2>2. CASE Muted
    BY <2>2 DEF Muted
  <2>3. CASE Doomed
    <3>1. \A i, j \in DOMAIN ticks : IsAt(ticks, i, "active") =>
             /\ i < pos' <=> i < pos
             /\ Between(i, j) \in {0, 1} /\ Between(i, j)' \in {0, 1}
             /\ Between(i, j)' <= Between(i, j)
      <4>1. \A i \in DOMAIN ticks : IsAt(ticks, i, "active") => i # pos
        BY <1>1 DEF IsAt
      <4> QED BY <1>1, <1>4, <4>1 DEF Between
    <3>2. reconnticks \in Nat /\ out.credit \in Nat
      BY <1>2, OutFields DEF TypeOK
    <3>3. conn = "none"
      BY <1>1, <2>3 DEF Doomed
    <3>4. \A i, j \in DOMAIN ticks :
             IsAt(ticks, i, "active") /\ IsAt(ticks, j, "reconn") =>
               /\ i < j /\ out.credit + reconnticks >= 2 + Between(i, j)'
               /\ i < pos' => out.credit <= 1
      <4>1. SUFFICES ASSUME NEW i \in DOMAIN ticks, NEW j \in DOMAIN ticks,
                            IsAt(ticks, i, "active"), IsAt(ticks, j, "reconn")
                     PROVE  /\ i < j /\ out.credit + reconnticks >= 2 + Between(i, j)'
                            /\ i < pos' => out.credit <= 1
        OBVIOUS
      <4>2. /\ i < j /\ out.credit + reconnticks >= 2 + Between(i, j)
            /\ i < pos => out.credit <= 1
        BY <2>3, <4>1 DEF Doomed
      <4> QED BY <3>1, <3>2, <4>1, <4>2
    <3> QED BY <3>3, <3>4 DEF Doomed
  <2> QED BY <1>2, <2>1, <2>2, <2>3 DEF Leftover
<1> QED BY <1>7, <1>8, <1>9, <1>10, <1>11, <1>12 DEF IndInv

LEMMA TickSkipStep ==
    ASSUME IndInv, TickSkip
    PROVE  IndInv'
<1>1. /\ At("gone") /\ "gone" # "active"
      /\ conn' = conn /\ connecting' = connecting /\ tlsticks' = tlsticks
      /\ hits' = hits /\ connst' = connst /\ loginticks' = loginticks
      /\ reconnticks' = reconnticks /\ idleticks' = idleticks /\ out' = out
      /\ todo' = todo /\ ticks' = ticks /\ stopped' = stopped
  BY DEF TickSkip, timers
<1>2. /\ loginticks \in 0..LoginTicks /\ connecting \in 0..ConnTicks
      /\ tlsticks \in 0..ConnTicks
  BY DEF IndInv, SessionConsistent, TypeOK
<1> QED BY <1>1, <1>2, WalkStep

(* A tick handler closes a connection that is being made or is up.         *)
LEMMA CloseInWalk ==
    ASSUME IndInv, NEW h, At(h), NEW list, NEW o, NEW c,
           \E b : Close(list, o, c, b),
           NEW p, NEW t, NEW g, NEW a, Counts(list, p, t, g, 0, a),
           p <= 1, t <= 1, g <= 1, a <= 1, o \in OutType, o.nrecs <= 1,
           connecting' \in 0..ConnTicks, tlsticks' \in 0..ConnTicks,
           loginticks' \in 0..LoginTicks,
           idleticks' \in (-PingTicks)..IdleTicks,
           a > 0 /\ ~o.crashed => idleticks' > -PingTicks /\ o.sending
    PROVE  IndInv'
<1>1. /\ pos' \in Nat /\ stopticks' = stopticks /\ quits' = quits
      /\ quits > 0 => stopticks >= 1 /\ stopticks < ShutdownTicks
      /\ TypeOK
  BY AtFacts
<1>2. /\ quits' \in 0..MaxQuit /\ stopticks' \in (-1)..ShutdownTicks
      /\ pos' > 0 /\ quits' > 0 => stopticks' < ShutdownTicks
      /\ quits' > 0 => stopticks' >= 1
  BY <1>1 DEF TypeOK
<1> QED BY <1>1, <1>2, CloseStep

LEMMA CheckPendingConnectionStep ==
    ASSUME IndInv, checkPendingConnection
    PROVE  IndInv'
<1> USE Constants
<1>1. /\ At("pending")
      /\ connecting' = IF connecting > 0 THEN connecting - 1 ELSE 0
      /\ tlsticks' = tlsticks /\ loginticks' = loginticks /\ idleticks' = idleticks
      /\ \/ connecting = 1 /\ conn # "dying" /\ \E b : Close(ticks, out, 0, b)
         \/ /\ conn' = conn /\ hits' \in {hits, BlacklistHits} /\ connst' = connst
            /\ reconnticks' = reconnticks /\ out' = out /\ todo' = todo
            /\ ticks' = ticks /\ stopped' = stopped
  BY DEF checkPendingConnection, CloseAgain, blacklistAddress
<1>2. TypeOK /\ Count("pending") >= 1 /\ Count("pending") \in Nat /\ pos > 0 /\ ~out.crashed
  BY <1>1, AtFacts
<1>3. loginticks' \in 0..LoginTicks /\ idleticks' \in (-PingTicks)..IdleTicks
      /\ tlsticks' \in 0..ConnTicks /\ out \in OutType
  BY <1>1, <1>2 DEF TypeOK
<1>4. CASE connecting = 1 /\ conn # "dying" /\ \E b : Close(ticks, out, 0, b)
  <2>1. connecting' = 0
    BY <1>1, <1>4
  <2>2. conn = "connecting"
    BY <1>2, <1>4 DEF IndInv, HandlersMatch
  <2>3. /\ Counts(ticks, 1, 0, 0, 0, Count("active")) /\ Count("active") \in {0, 1}
    BY <2>2, CountsLive
  <2>4. connst # 1 /\ out.nrecs <= 1
    BY <2>2 DEF IndInv, SessionConsistent
  <2>5. Count("active") > 0 => idleticks' > -PingTicks /\ out.sending
    BY <1>1, <1>2, <2>2, <2>4, LeftoverSends DEF IndInv, Counting
  <2>6. connecting' \in 0..ConnTicks
    BY <2>1
  <2> QED BY <1>1, <1>3, <1>4, <2>1, <2>3, <2>4, <2>5, <2>6, CloseInWalk
<1>5. CASE /\ conn' = conn /\ hits' \in {hits, BlacklistHits} /\ connst' = connst
           /\ reconnticks' = reconnticks /\ out' = out /\ todo' = todo
           /\ ticks' = ticks /\ stopped' = stopped
  <2>1. connecting' \in 0..ConnTicks /\ (connecting = 0 => connecting' = 0)
    BY <1>1, <1>2 DEF TypeOK
  <2> QED BY <1>1, <1>3, <1>5, <2>1, WalkStep
<1> QED BY <1>1, <1>4, <1>5

LEMMA CheckPendingTlsStep ==
    ASSUME IndInv, checkPendingTls
    PROVE  IndInv'
<1> USE Constants
<1>1. /\ At("tls")
      /\ tlsticks' = IF tlsticks > 0 THEN tlsticks - 1 ELSE 0
      /\ connecting' = connecting /\ loginticks' = loginticks /\ idleticks' = idleticks
      /\ \/ tlsticks = 1 /\ conn # "dying" /\ \E b : Close(ticks, out, 0, b)
         \/ /\ conn' = conn /\ hits' \in {hits, BlacklistHits} /\ connst' = connst
            /\ reconnticks' = reconnticks /\ out' = out /\ todo' = todo
            /\ ticks' = ticks /\ stopped' = stopped
  BY DEF checkPendingTls, CloseAgain, blacklistAddress
<1>2. TypeOK /\ Count("tls") >= 1 /\ Count("tls") \in Nat /\ pos > 0 /\ ~out.crashed
  BY <1>1, AtFacts
<1>3. loginticks' \in 0..LoginTicks /\ idleticks' \in (-PingTicks)..IdleTicks
      /\ connecting' \in 0..ConnTicks /\ out \in OutType
  BY <1>1, <1>2 DEF TypeOK
<1>4. CASE tlsticks = 1 /\ conn # "dying" /\ \E b : Close(ticks, out, 0, b)
  <2>1. tlsticks' = 0
    BY <1>1, <1>4
  <2>2. conn = "handshake"
    BY <1>2, <1>4 DEF IndInv, HandlersMatch
  <2>3. /\ Counts(ticks, 0, 1, 0, 0, Count("active")) /\ Count("active") \in {0, 1}
    BY <2>2, CountsLive
  <2>4. connst # 1 /\ out.nrecs <= 1
    BY <2>2 DEF IndInv, SessionConsistent
  <2>5. Count("active") > 0 => idleticks' > -PingTicks /\ out.sending
    BY <1>1, <1>2, <2>2, <2>4, LeftoverSends DEF IndInv, Counting
  <2>6. tlsticks' \in 0..ConnTicks
    BY <2>1
  <2> QED BY <1>1, <1>3, <1>4, <2>1, <2>3, <2>4, <2>5, <2>6, CloseInWalk
<1>5. CASE /\ conn' = conn /\ hits' \in {hits, BlacklistHits} /\ connst' = connst
           /\ reconnticks' = reconnticks /\ out' = out /\ todo' = todo
           /\ ticks' = ticks /\ stopped' = stopped
  <2>1. tlsticks' \in 0..ConnTicks /\ (tlsticks = 0 => tlsticks' = 0)
    BY <1>1, <1>2 DEF TypeOK
  <2> QED BY <1>1, <1>3, <1>5, <2>1, WalkStep
<1> QED BY <1>1, <1>4, <1>5

LEMMA ConnWaitLoginStep ==
    ASSUME IndInv, connWaitLogin
    PROVE  IndInv'
<1> USE Constants
<1>1. /\ At("login") /\ loginticks' = loginticks - 1
      /\ connecting' = connecting /\ tlsticks' = tlsticks /\ idleticks' = idleticks
      /\ \/ \E b : Close(Unregister(ticks, "login"), out, 0, b)
         \/ /\ ~(loginticks' <= 0)
            /\ conn' = conn /\ hits' = hits /\ connst' = connst
            /\ reconnticks' = reconnticks /\ out' = out /\ todo' = todo
            /\ ticks' = ticks /\ stopped' = stopped
  BY DEF connWaitLogin
<1>2. TypeOK /\ Count("login") >= 1 /\ pos > 0 /\ ~out.crashed
  BY <1>1, AtFacts
<1>3. tlsticks' \in 0..ConnTicks /\ idleticks' \in (-PingTicks)..IdleTicks
      /\ connecting' \in 0..ConnTicks /\ out \in OutType
      /\ loginticks \in 0..LoginTicks
  BY <1>1, <1>2 DEF TypeOK
<1>4. loginticks >= 1 /\ connst < 0 /\ Count("login") = 1
  BY <1>2 DEF IndInv, Counting, HandlersMatch
<1>5. loginticks' \in 0..LoginTicks
  BY <1>1, <1>3, <1>4
<1>6. CASE \E b : Close(Unregister(ticks, "login"), out, 0, b)
  <2>1. conn = "up" /\ connst # 1 /\ out.nrecs <= 1
    BY <1>2, <1>4 DEF IndInv, SessionConsistent, TypeOK
  <2>2. /\ Counts(ticks, 0, 0, 1, 0, Count("active")) /\ Count("active") \in {0, 1}
    BY <1>4, <2>1, CountsLive
  <2>3. Counts(Unregister(ticks, "login"), 0, 0, 0, 0, Count("active"))
    BY <2>2, CountsUnregister DEF Less
  <2>4. Count("active") > 0 => idleticks' > -PingTicks /\ out.sending
    BY <1>1, <1>2, <2>1, LeftoverSends DEF IndInv, Counting
  <2> QED BY <1>1, <1>3, <1>5, <1>6, <2>1, <2>2, <2>3, <2>4, CloseInWalk
<1>7. CASE /\ ~(loginticks' <= 0)
           /\ conn' = conn /\ hits' = hits /\ connst' = connst
           /\ reconnticks' = reconnticks /\ out' = out /\ todo' = todo
           /\ ticks' = ticks /\ stopped' = stopped
  <2>1. "login" # "active" /\ loginticks' >= 1
    BY <1>5, <1>7
  <2> QED BY <1>1, <1>3, <1>5, <1>7, <2>1, WalkStep
<1> QED BY <1>1, <1>6, <1>7

(* What makes a leftover activeTick harmless: while it is Doomed, the      *)
(* server does not get to the end of waiting.                              *)
LEMMA ReconnLate ==
    ASSUME IndInv, At("reconn"), Count("active") > 0, Doomed
    PROVE  reconnticks >= 2 /\ conn = "none"
<1>1. /\ IsAt(ticks, pos, "reconn") /\ pos \in Nat \ {0} /\ TypeOK
  BY AtFacts
<1>2. PICK i \in DOMAIN ticks : IsAt(ticks, i, "active")
  <2>1. Registered(ticks, "active") # 0 /\ ticks \in HList
    BY <1>1 DEF Count, TypeOK, HList
  <2> QED BY <2>1, ExistsAt
<1>3. pos \in DOMAIN ticks /\ i \in Nat
  BY <1>1 DEF IsAt, TypeOK
<1>4. /\ i < pos /\ out.credit + reconnticks >= 2 + Between(i, pos)
      /\ out.credit <= 1
  BY <1>1, <1>2, <1>3 DEF Doomed
<1>5. Between(i, pos) = 1
  BY <1>1, <1>3, <1>4 DEF Between
<1>6. out.credit \in Nat /\ reconnticks \in Nat
  BY <1>1, OutFields, Constants DEF TypeOK
<1>7. conn = "none"
  BY <1>1 DEF Doomed
<1> QED BY <1>4, <1>5, <1>6, <1>7

(* connWaitReconn goes on waiting.                                         *)
LEMMA ReconnWaits ==
    ASSUME IndInv, At("reconn"), conn' = conn, connecting' = connecting,
           tlsticks' = tlsticks, hits' \in 0..BlacklistHits, connst' = connst,
           loginticks' = loginticks, idleticks' = idleticks, out' = out,
           todo' = todo, ticks' = ticks, stopped' = stopped,
           \/ reconnticks > 1 /\ reconnticks' = reconnticks - 1
           \/ reconnticks <= 1 /\ reconnticks' = ReconnTicks
    PROVE  IndInv'
<1> USE Constants
<1>1. /\ IsAt(ticks, pos, "reconn") /\ pos \in Nat \ {0} /\ pos' = pos + 1 /\ pos' > 0
      /\ stopticks' = stopticks /\ quits' = quits
      /\ quits > 0 => stopticks >= 1 /\ stopticks < ShutdownTicks
      /\ Count("reconn") >= 1 /\ Count("reconn") \in Nat
  BY AtFacts
<1>2. /\ TypeOK /\ SessionConsistent /\ StopsFirst /\ Leftover /\ Counting
      /\ HandlersMatch /\ ClosesFirst
  BY DEF IndInv, SessionConsistent
<1>3. \A k : Count(k)' = Count(k)
  BY DEF Count
<1>4. \A i \in DOMAIN ticks : i \in Nat
  BY <1>2 DEF TypeOK
<1>5. reconnticks \in Nat /\ reconnticks' \in Nat /\ reconnticks' >= 1
  BY <1>2 DEF TypeOK
<1>6. Count("reconn") = 1 /\ \A i : IsAt(ticks, i, "reconn") => i = pos
  <2>1. Count("reconn") <= 1
    BY <1>1, <1>2 DEF HandlersMatch
  <2>2. ticks \in HList /\ Registered(ticks, "reconn") <= 1
    BY <1>2, <2>1 DEF TypeOK, HList, Count
  <2> QED BY <1>1, <2>1, <2>2, OneAt
<1>7. TypeOK'
  <2>1. reconnticks' \in 0..ReconnTicks \/ reconnticks' \in 0..QuickReconnTicks
    BY <1>2 DEF TypeOK
  <2> QED BY <1>1, <1>2, <2>1 DEF TypeOK
<1>8. SessionConsistent'
  BY <1>2, <1>7 DEF SessionConsistent
<1>9. HandlersMatch'
  BY <1>1, <1>2, <1>3 DEF HandlersMatch
<1>10. Counting'
  BY <1>2, <1>3, <1>5 DEF Counting
<1>11. ClosesFirst'
  <2>1. \A i \in DOMAIN ticks : ~(IsAt(ticks, i, "reconn") /\ pos' <= i)
    BY <1>1, <1>6
  <2> QED BY <1>1, <1>2, <1>3, <2>1 DEF ClosesFirst
<1>12. StopsFirst'
  <2>1. SUFFICES ASSUME quits > 0 PROVE StopsFirst'
    BY <1>1 DEF StopsFirst
  <2>2. Ahead(pos) = 1 /\ stopticks \in Nat
    BY <1>1, <1>2, <2>1 DEF Ahead, TypeOK
  <2>3. reconnticks >= stopticks + 1
    BY <1>1, <1>2, <2>1, <2>2 DEF StopsFirst, IsAt
  <2>4. reconnticks' >= stopticks
    BY <1>1, <1>5, <2>1, <2>2, <2>3
  <2>5. \A i \in DOMAIN ticks : IsAt(ticks, i, "reconn") => reconnticks' >= stopticks + Ahead(i)'
    <3>1. \A i \in DOMAIN ticks : IsAt(ticks, i, "reconn") => Ahead(i)' = 0
      BY <1>1, <1>6 DEF Ahead
    <3> QED BY <2>2, <2>4, <3>1
  <2> QED BY <1>1, <1>2, <2>1, <2>5 DEF StopsFirst
<1>13. Leftover'
  <2>1. SUFFICES ASSUME connst # 1, Count("active") > 0, ~out.crashed PROVE Muted' \/ Doomed'
    BY <1>3 DEF Leftover
  <2>2. CASE Muted
    BY <2>2 DEF Muted
  <2>3. CASE Doomed
    <3>1. reconnticks >= 2 /\ conn = "none" /\ reconnticks' = reconnticks - 1
      BY <1>5, <2>1, <2>3, ReconnLate
    <3>2. SUFFICES ASSUME NEW i \in DOMAIN ticks, NEW j \in DOMAIN ticks,
                          IsAt(ticks, i, "active"), IsAt(ticks, j, "reconn")
                   PROVE  /\ i < j
                          /\ out.credit + reconnticks' >= 2 + Between(i, j)'
                          /\ i < pos' => out.credit <= 1
      BY <3>1 DEF Doomed
    <3>3. j = pos /\ i \in Nat
      BY <1>4, <1>6, <3>2
    <3>4. /\ i < j /\ out.credit + reconnticks >= 2 + Between(i, j)
          /\ i < pos => out.credit <= 1
      BY <2>3, <3>2 DEF Doomed
    <3>5. Between(i, j) = 1 /\ Between(i, j)' = 0
      BY <1>1, <3>3, <3>4 DEF Between
    <3>6. out.credit \in Nat
      BY <1>2, OutFields DEF TypeOK
    <3> QED BY <1>5, <3>1, <3>3, <3>4, <3>5, <3>6
  <2> QED BY <1>2, <2>1, <2>2, <2>3 DEF Leftover
<1> QED BY <1>8, <1>9, <1>10, <1>11, <1>12, <1>13 DEF IndInv

(* connWaitReconn makes a new connection.                                  *)
LEMMA Reconnects ==
    ASSUME IndInv, At("reconn"), reconnticks <= 1,
           reconnticks' = reconnticks - 1, Connection_create,
           ticks' = Unregister(CreateHandlers(ticks), "reconn"),
           tlsticks' = tlsticks, hits' = hits, connst' = connst,
           loginticks' = loginticks, idleticks' = idleticks, out' = out,
           todo' = todo, stopped' = stopped
    PROVE  IndInv' /\ quits = 0
<1> USE Constants
<1>1. /\ IsAt(ticks, pos, "reconn") /\ pos \in Nat \ {0} /\ pos' = pos + 1 /\ pos' > 0
      /\ stopticks' = stopticks /\ quits' = quits
      /\ quits > 0 => stopticks >= 1 /\ stopticks < ShutdownTicks
      /\ Count("reconn") >= 1 /\ Count("reconn") \in Nat
  BY AtFacts
<1>2. /\ TypeOK /\ SessionConsistent /\ StopsFirst /\ Leftover /\ Counting
      /\ HandlersMatch /\ ClosesFirst /\ conn' = "connecting" /\ connecting' = ConnTicks
  BY DEF IndInv, SessionConsistent, Connection_create
<1>3. reconnticks = 1 /\ reconnticks' = 0
  BY <1>1, <1>2 DEF Counting, TypeOK
<1>4. conn = "none"
  <2>1. conn \in {"dying", "none"}
    BY <1>1, <1>2 DEF HandlersMatch
  <2>2. conn # "dying"
    BY <1>1, <1>2, <1>3 DEF ClosesFirst, IsAt
  <2> QED BY <2>1, <2>2
<1>5. connst = 0 /\ out.queue = Null /\ ~(out.nrecs > 0)
  BY <1>2, <1>4 DEF SessionConsistent
<1>6. quits = 0
  <2>1. ASSUME quits > 0 PROVE FALSE
    <3>1. Ahead(pos) = 1 /\ stopticks \in Nat
      BY <1>1, <1>2, <2>1 DEF Ahead, TypeOK
    <3>2. reconnticks >= stopticks + 1
      BY <1>1, <1>2, <2>1, <3>1 DEF StopsFirst, IsAt
    <3> QED BY <1>1, <1>3, <2>1, <3>1, <3>2
  <2> QED BY <1>2, <2>1 DEF TypeOK
<1>7. Counts(ticks', 1, 0, 0, 0, Count("active"))
  <2>1. Counts(ticks, Count("pending"), Count("tls"), Count("login"), Count("reconn"), Count("active"))
    BY <1>2, CountsNow
  <2>2. Counts(ticks, 0, 0, 0, 1, Count("active"))
    BY <1>1, <1>2, <1>4, <1>5, <2>1 DEF Counts, HandlersMatch
  <2>3. Counts(CreateHandlers(ticks), 0 + 1, 0, 0, 1, Count("active"))
    BY <2>2, CountsRegister DEF CreateHandlers
  <2>4. Counts(ticks', 0 + 1, 0, 0, Less(1), Count("active"))
    BY <2>3, CountsUnregister
  <2> QED BY <2>4 DEF Less
<1>8. /\ Count("pending")' = 1 /\ Count("tls")' = 0 /\ Count("login")' = 0
      /\ Count("reconn")' = 0 /\ Count("active")' = Count("active")
      /\ Count("active") \in Nat /\ ticks' \in Seq(Handlers \cup {"gone"})
  BY <1>7 DEF Counts, Count, HList
<1>9. TypeOK'
  BY <1>1, <1>2, <1>3, <1>8 DEF TypeOK
<1>10. SessionConsistent'
  BY <1>2, <1>4, <1>5, <1>9 DEF SessionConsistent
<1>11. HandlersMatch'
  BY <1>2, <1>5, <1>8 DEF HandlersMatch
<1>12. Counting'
  BY <1>2, <1>8 DEF Counting
<1>13. ClosesFirst'
  BY <1>2 DEF ClosesFirst
<1>14. StopsFirst'
  BY <1>1, <1>6 DEF StopsFirst
<1>15. Leftover'
  <2>1. SUFFICES ASSUME Count("active") > 0, ~out.crashed PROVE Muted'
    BY <1>8 DEF Leftover
  <2>2. Muted
    BY <1>2, <1>3, <1>5, <2>1, ReconnLate DEF Leftover
  <2> QED BY <1>2, <1>5, <2>2 DEF Muted
<1> QED BY <1>6, <1>10, <1>11, <1>12, <1>13, <1>14, <1>15 DEF IndInv

LEMMA ConnWaitReconnStep ==
    ASSUME IndInv, connWaitReconn
    PROVE  IndInv'
<1> USE Constants
<1>1. /\ At("reconn") /\ tlsticks' = tlsticks /\ connst' = connst
      /\ loginticks' = loginticks /\ idleticks' = idleticks /\ out' = out
      /\ todo' = todo /\ stopped' = stopped
      /\ \/ /\ reconnticks > 1 /\ reconnticks' = reconnticks - 1
            /\ conn' = conn /\ connecting' = connecting /\ hits' = hits /\ ticks' = ticks
         \/ /\ reconnticks <= 1 /\ reconnticks' = reconnticks - 1
            /\ Connection_create
            /\ ticks' = Unregister(CreateHandlers(ticks), "reconn")
            /\ hits' = hits
         \/ /\ reconnticks <= 1 /\ reconnticks' = ReconnTicks
            /\ hits' = IF hits > 0 THEN hits - 1 ELSE 0
            /\ conn' = conn /\ connecting' = connecting /\ ticks' = ticks
  BY DEF connWaitReconn, blacklistcheck
<1>2. hits \in 0..BlacklistHits
  BY DEF IndInv, SessionConsistent, TypeOK
<1>3. (IF hits > 0 THEN hits - 1 ELSE 0) \in 0..BlacklistHits
  BY <1>2
<1>4. CASE /\ reconnticks <= 1 /\ reconnticks' = reconnticks - 1
           /\ Connection_create
           /\ ticks' = Unregister(CreateHandlers(ticks), "reconn")
           /\ hits' = hits
  BY <1>1, <1>4, Reconnects
<1>5. CASE /\ reconnticks <= 1 /\ reconnticks' = ReconnTicks
           /\ hits' = IF hits > 0 THEN hits - 1 ELSE 0
           /\ conn' = conn /\ connecting' = connecting /\ ticks' = ticks
  <2>1. hits' \in 0..BlacklistHits
    BY <1>3, <1>5
  <2> QED BY <1>1, <1>5, <2>1, ReconnWaits
<1>6. CASE /\ reconnticks > 1 /\ reconnticks' = reconnticks - 1
           /\ conn' = conn /\ connecting' = connecting /\ hits' = hits /\ ticks' = ticks
  <2>1. hits' \in 0..BlacklistHits
    BY <1>2, <1>6
  <2> QED BY <1>1, <1>6, <2>1, ReconnWaits
<1> QED BY <1>1, <1>4, <1>5, <1>6

(* activeTick, unless it gives up on the remote.                           *)
LEMMA ActiveGoesOn ==
    ASSUME IndInv, At("active"), Sends(MoreCredit(out), out'),
           idleticks' = idleticks - 1,
           out'.crashed \/ idleticks' > -PingTicks,
           out.queue = Null /\ MaySend(MoreCredit(out)) => out'.crashed,
           conn' = conn, connecting' = connecting, tlsticks' = tlsticks,
           hits' = hits, connst' = connst, loginticks' = loginticks,
           reconnticks' = reconnticks, todo' = todo, ticks' = ticks,
           stopped' = stopped
    PROVE  IndInv'
<1> USE Constants
<1>1. /\ IsAt(ticks, pos, "active") /\ pos \in Nat \ {0} /\ pos' = pos + 1 /\ pos' > 0
      /\ stopticks' = stopticks /\ quits' = quits /\ ~out.crashed
      /\ Count("active") >= 1 /\ Count("active") \in Nat
  BY AtFacts
<1>2. /\ TypeOK /\ SessionConsistent /\ StopsFirst /\ Leftover /\ Counting
      /\ HandlersMatch /\ ClosesFirst
  BY DEF IndInv, SessionConsistent
<1>3. \A k : Count(k)' = Count(k)
  BY DEF Count
<1>4. \A i \in DOMAIN ticks : i \in Nat
  BY <1>2 DEF TypeOK
<1>5. idleticks' \in (-PingTicks)..IdleTicks
  <2>1. idleticks \in (-PingTicks)..IdleTicks /\ idleticks > -PingTicks
    BY <1>1, <1>2 DEF TypeOK, Counting
  <2> QED BY <2>1
<1> DEFINE m == MoreCredit(out)
<1>6. /\ m \in OutType /\ m.queue = out.queue /\ m.sending = out.sending
      /\ m.nrecs = out.nrecs
      /\ m.credit = IF out.credit < FullCredit THEN out.credit + 1 ELSE out.credit
  <2>1. out \in OutType
    BY <1>2 DEF TypeOK
  <2>2. CASE out.credit < FullCredit
    <3> DEFINE c == out.credit + 1
    <3>1. c \in 0..FullCredit
      BY <2>1, <2>2, OutFields
    <3>2. m = [out EXCEPT !.credit = c]
      BY <2>2 DEF MoreCredit
    <3> HIDE DEF c, m
    <3>3. /\ m \in OutType /\ m.queue = out.queue /\ m.sending = out.sending
          /\ m.nrecs = out.nrecs /\ m.credit = c
      BY <2>1, <3>1, <3>2, SetCredit
    <3> QED BY <2>2, <3>3 DEF c
  <2>3. CASE ~(out.credit < FullCredit)
    BY <2>1, <2>3 DEF MoreCredit
  <2> QED BY <2>2, <2>3
<1>7. Sends(m, out') /\ (out.queue = Null /\ MaySend(m) => out'.crashed)
  OBVIOUS
<1> HIDE DEF m
<1>8. out' \in OutType /\ (out'.queue = Null <=> out.queue = Null)
  BY <1>6, <1>7 DEF Sends
<1>9. TypeOK'
  BY <1>1, <1>2, <1>5, <1>8 DEF TypeOK
<1>10. SessionConsistent'
  <2>1. out.queue = Null => out'.nrecs = out.nrecs
    BY <1>6, <1>7 DEF Sends
  <2>2. conn = "up" => Usable(out')
    BY <1>6, <1>7, UpUsable, SendsUsable DEF Usable
  <2>3. conn = "up" => out'.nrecs <= 1 /\ (out'.nrecs = 1 => out'.sending)
    BY <2>2 DEF Usable
  <2> QED BY <1>2, <1>8, <1>9, <2>1, <2>3 DEF SessionConsistent
<1>11. HandlersMatch'
  BY <1>1, <1>2, <1>3 DEF HandlersMatch
<1>12. Counting'
  BY <1>2, <1>3 DEF Counting
<1>13. ClosesFirst'
  <2>1. \A i \in DOMAIN ticks : pos' <= i => pos <= i
    BY <1>1, <1>4
  <2> QED BY <1>1, <1>2, <1>3, <2>1 DEF ClosesFirst
<1>14. StopsFirst'
  <2>1. \A i \in DOMAIN ticks : Ahead(i) \in {0, 1} /\ Ahead(i)' \in {0, 1} /\ Ahead(i)' <= Ahead(i)
    BY <1>1, <1>4 DEF Ahead
  <2>2. quits > 0 => \A i \in DOMAIN ticks :
            IsAt(ticks, i, "reconn") => reconnticks >= stopticks + Ahead(i)'
    BY <1>2, <2>1 DEF StopsFirst, TypeOK
  <2> QED BY <1>1, <1>2, <2>2 DEF StopsFirst
<1>15. Leftover'
  <2>1. SUFFICES ASSUME connst # 1, ~out'.crashed PROVE Muted' \/ Doomed'
    BY DEF Leftover
  <2>2. CASE Muted
    BY <1>2, <1>6, <1>7, <2>2 DEF Muted, Sends
  <2>3. CASE Doomed /\ ~Muted
    <3>1. conn = "none" /\ out.queue = Null /\ connst = 0
      BY <1>1, <1>2, <2>3 DEF Doomed, SessionConsistent
    <3>2. ~out.sending /\ m.credit < 2
      <4>1. ~out.sending
        BY <2>3, <3>1 DEF Muted
      <4>2. ~MaySend(m) /\ m.credit \in Nat
        BY <1>6, <1>7, <2>1, <3>1, OutFields
      <4> QED BY <1>6, <4>1, <4>2 DEF MaySend
    <3>3. out'.credit = 1 /\ out.credit = 0
      <4>1. out.credit \in Nat
        BY <1>2, OutFields DEF TypeOK
      <4>2. out'.credit = m.credit
        BY <1>6, <1>7, <3>1 DEF Sends
      <4> QED BY <1>6, <3>2, <4>1, <4>2
    <3>4. \A i : IsAt(ticks, i, "active") => i = pos
      <4>1. Count("active") <= 1
        BY <1>2 DEF HandlersMatch
      <4>2. ticks \in HList /\ Registered(ticks, "active") <= 1
        BY <1>2, <4>1 DEF TypeOK, HList, Count
      <4> QED BY <1>1, <4>2, OneAt
    <3>5. SUFFICES ASSUME NEW i \in DOMAIN ticks, NEW j \in DOMAIN ticks,
                          IsAt(ticks, i, "active"), IsAt(ticks, j, "reconn")
                   PROVE  /\ i < j
                          /\ out'.credit + reconnticks >= 2 + Between(i, j)'
      BY <3>1, <3>3 DEF Doomed
    <3>6. /\ i < j /\ out.credit + reconnticks >= 2 + Between(i, j)
      BY <2>3, <3>5 DEF Doomed
    <3>7. Between(i, j) = 0 /\ Between(i, j)' \in {0, 1}
      BY <1>1, <3>4, <3>5 DEF Between
    <3>8. reconnticks \in Nat
      BY <1>2 DEF TypeOK
    <3> QED BY <3>3, <3>6, <3>7, <3>8
  <2> QED BY <1>1, <1>2, <2>1, <2>2, <2>3 DEF Leftover
<1> QED BY <1>10, <1>11, <1>12, <1>13, <1>14, <1>15 DEF IndInv

LEMMA ActiveTickStep ==
    ASSUME IndInv, activeTick
    PROVE  IndInv'
<1> USE Constants
<1> DEFINE m == MoreCredit(out)
           sent == pump(m)
<1>1. /\ At("active") /\ idleticks' = idleticks - 1 /\ connecting' = connecting
      /\ tlsticks' = tlsticks /\ loginticks' = loginticks
      /\ \/ /\ idleticks' > -PingTicks \/ sent.crashed
            /\ out' = IF idleticks' = 0 /\ ~sent.crashed THEN sendRaw(sent, 1) ELSE sent
            /\ conn' = conn /\ hits' = hits /\ connst' = connst
            /\ reconnticks' = reconnticks /\ todo' = todo /\ ticks' = ticks
            /\ stopped' = stopped
         \/ /\ idleticks' <= -PingTicks /\ conn \notin {"dying", "none"}
            /\ \E b : Close(Unregister(ticks, "active"), sent, connecting, b)
         \/ /\ out' = [sent EXCEPT !.crashed = TRUE]
            /\ conn' = conn /\ hits' = hits /\ connst' = connst
            /\ reconnticks' = reconnticks /\ todo' = todo /\ ticks' = ticks
            /\ stopped' = stopped
  BY DEF activeTick
<1>2. TypeOK /\ out \in OutType /\ Count("active") >= 1 /\ Count("active") \in Nat
      /\ ~out.crashed
  BY <1>1, AtFacts DEF TypeOK
<1>3. m \in OutType /\ m.queue = out.queue /\ m.nrecs = out.nrecs /\ m.sending = out.sending
  BY <1>2, OutFields, SetCredit DEF MoreCredit
<1> HIDE DEF m
<1>4. /\ Sends(m, sent) /\ sent \in OutType
      /\ m.queue = Null /\ MaySend(m) => sent.crashed
  BY <1>3, PumpSends DEF Sends
<1> HIDE DEF sent
<1>5. CASE /\ idleticks' > -PingTicks \/ sent.crashed
           /\ out' = IF idleticks' = 0 /\ ~sent.crashed THEN sendRaw(sent, 1) ELSE sent
           /\ conn' = conn /\ hits' = hits /\ connst' = connst
           /\ reconnticks' = reconnticks /\ todo' = todo /\ ticks' = ticks
           /\ stopped' = stopped
  <2>1. Sends(m, out')
    BY <1>3, <1>4, <1>5, SendRawSends, SendsTwice
  <2>2. sent.crashed => out'.crashed
    BY <1>5
  <2> QED BY <1>1, <1>3, <1>4, <1>5, <2>1, <2>2, ActiveGoesOn DEF m
<1>6. CASE /\ out' = [sent EXCEPT !.crashed = TRUE]
           /\ conn' = conn /\ hits' = hits /\ connst' = connst
           /\ reconnticks' = reconnticks /\ todo' = todo /\ ticks' = ticks
           /\ stopped' = stopped
  <2>1. /\ out' \in OutType /\ out'.queue = sent.queue /\ out'.sending = sent.sending
        /\ out'.credit = sent.credit /\ out'.nrecs = sent.nrecs /\ out'.crashed
    BY <1>4, <1>6, SetCrashed
  <2>2. Sends(m, out')
    BY <1>4, <2>1 DEF Sends
  <2> QED BY <1>1, <1>6, <2>1, <2>2, ActiveGoesOn DEF m
<1>7. CASE /\ idleticks' <= -PingTicks /\ conn \notin {"dying", "none"}
           /\ \E b : Close(Unregister(ticks, "active"), sent, connecting, b)
  <2> DEFINE p == Count("pending")
             t == Count("tls")
             g == Count("login")
             a == Count("active")
  <2>0. conn \in {"connecting", "handshake", "up"}
    BY <1>2, <1>7 DEF TypeOK
  <2>1. Counts(ticks, p, t, g, 0, a) /\ p <= 1 /\ t <= 1 /\ g <= 1 /\ a = 1
    BY <1>2, <2>0, CountsLive
  <2> HIDE DEF p, t, g, a
  <2>2. Counts(Unregister(ticks, "active"), p, t, g, 0, Less(a))
    BY <2>1, CountsUnregister
  <2>3. Less(a) = 0
    BY <2>1 DEF Less
  <2>4. sent.nrecs <= 1
    <3>1. CASE conn = "up"
      <4>1. Usable(m)
        BY <1>3, <3>1, UpUsable DEF Usable
      <4> QED BY <1>4, <4>1, SendsUsable DEF Usable
    <3>2. CASE conn # "up"
      <4>1. out.queue = Null /\ out.nrecs <= 1
        BY <3>2 DEF IndInv, SessionConsistent
      <4> QED BY <1>3, <1>4, <4>1 DEF Sends
    <3> QED BY <3>1, <3>2
  <2>5. /\ connecting' \in 0..ConnTicks /\ tlsticks' \in 0..ConnTicks
        /\ loginticks' \in 0..LoginTicks /\ idleticks' \in (-PingTicks)..IdleTicks
    <3>1. idleticks \in (-PingTicks)..IdleTicks /\ idleticks > -PingTicks
      BY <1>2 DEF IndInv, Counting, TypeOK
    <3>2. idleticks' \in (-PingTicks)..IdleTicks
      BY <1>1, <3>1
    <3> QED BY <1>1, <1>2, <3>2 DEF TypeOK
  <2>6. \E b : Close(Unregister(ticks, "active"), sent, connecting, b)
    BY <1>7
  <2>7. Counts(Unregister(ticks, "active"), p, t, g, 0, 0)
    BY <2>2, <2>3
  <2> QED BY <1>1, <1>4, <2>1, <2>4, <2>5, <2>6, <2>7, CloseInWalk
<1> QED BY <1>1, <1>5, <1>6, <1>7

-----------------------------------------------------------------------------
(* The theorems.                                                           *)

LEMMA InitInv == Init => IndInv
<1> SUFFICES ASSUME Init PROVE IndInv
  OBVIOUS
<1> USE Constants
<1>1. Counts(<<"pending">>, 1, 0, 0, 0, 0)
  <2>1. <<"pending">> \in HList
    BY DEF HList, Handlers
  <2>2. \A h : Registered(<<"pending">>, h) = One("pending" = h)
    <3>1. <<>> \in HList /\ "pending" \in Handlers \cup {"gone"}
      BY DEF HList, Handlers
    <3>2. <<"pending">> = Append(<<>>, "pending")
      OBVIOUS
    <3>3. \A h : Registered(<<>>, h) = 0
      BY FS_EmptySet DEF Registered
    <3>4. \A h : Registered(<<"pending">>, h) = Registered(<<>>, h) + One("pending" = h)
      <4> DEFINE e == <<>>
                 x == "pending"
      <4>1. e \in Seq(Handlers \cup {"gone"}) /\ x \in Handlers \cup {"gone"}
        BY <3>1 DEF HList
      <4> HIDE DEF e, x
      <4>2. \A h : Registered(Append(e, x), h) = Registered(e, h) + One(x = h)
        BY <4>1, RegisteredAppend
      <4> QED BY <3>2, <4>2 DEF e, x
    <3> QED BY <3>3, <3>4 DEF One
  <2> QED BY <2>1, <2>2 DEF Counts, One
<1>2. /\ conn = "connecting" /\ connecting = ConnTicks /\ tlsticks = 0 /\ hits = 0
      /\ connst = 0 /\ loginticks = 0 /\ reconnticks = 0 /\ idleticks = 0
      /\ todo = 0 /\ ticks = <<"pending">> /\ pos = 0 /\ stopticks = -1 /\ quits = 0
      /\ stopped = FALSE
  BY DEF Init
<1>3. /\ out \in OutType /\ out.queue = Null /\ ~out.sending /\ out.nrecs = 0
  BY DEF Init, OutType
<1>4. /\ Count("pending") = 1 /\ Count("tls") = 0 /\ Count("login") = 0
      /\ Count("reconn") = 0 /\ Count("active") = 0
      /\ ticks \in Seq(Handlers \cup {"gone"})
  BY <1>1, <1>2 DEF Counts, Count, HList
<1>5. TypeOK
  <2>1. /\ 0 \in 0..ConnTicks /\ ConnTicks \in 0..ConnTicks /\ 0 \in 0..BlacklistHits
        /\ 0 \in 0..LoginTicks /\ 0 \in 0..ReconnTicks /\ 0 \in (-PingTicks)..IdleTicks
        /\ -1 \in (-1)..ShutdownTicks /\ 0 \in 0..MaxQuit
    OBVIOUS
  <2> QED BY <1>2, <1>3, <1>4, <2>1 DEF TypeOK
<1>6. SessionConsistent
  BY <1>2, <1>3, <1>5 DEF SessionConsistent
<1>7. HandlersMatch
  BY <1>2, <1>4 DEF HandlersMatch
<1> QED BY <1>2, <1>4, <1>6, <1>7 DEF IndInv, Counting, ClosesFirst, StopsFirst, Leftover

LEMMA StutterInv ==
    ASSUME IndInv, UNCHANGED vars
    PROVE  IndInv'
BY DEF IndInv, vars, timers, service, TypeOK, SessionConsistent, HandlersMatch, Count, Counting, ClosesFirst, StopsFirst, Ahead,
       Leftover, Muted, Doomed, Between

LEMMA NextInv ==
    ASSUME IndInv, [Next]_vars
    PROVE  IndInv'
<1>1. CASE Environment
  BY <1>1, ConnectedActionStep, ConnectFailedStep, HandshakeStep, ReceiveStep, ReceiveMyInfoStep,
     DataSentStep, RemoteGoneStep, SendCmdStep, ShutdownStep
     DEF Environment
<1>2. CASE Tick
  BY <1>2, TickStartStep, TickSkipStep, TickEndStep, CheckPendingConnectionStep, CheckPendingTlsStep,
     ConnWaitLoginStep, ConnWaitReconnStep, ActiveTickStep
     DEF Tick
<1> QED BY <1>1, <1>2, EventsDoneStep, StutterInv DEF Next

THEOREM Invariance == Spec => []IndInv
<1>1. Init => IndInv
  BY InitInv
<1>2. IndInv /\ [Next]_vars => IndInv'
  BY NextInv
<1> QED BY <1>1, <1>2, PTL DEF Spec

(* The fields of a server agree with its connection, and one command is    *)
(* written at a time.                                                      *)
THEOREM SessionStaysConsistent == Spec => []SessionConsistent
<1>1. IndInv => SessionConsistent
  BY DEF IndInv
<1> QED BY <1>1, Invariance, PTL

(* Each phase of a connection has its tick handler exactly once.           *)
THEOREM HandlersStayMatched == Spec => []HandlersMatch
<1>1. IndInv => HandlersMatch
  BY DEF IndInv
<1> QED BY <1>1, Invariance, PTL

(* A new connection is made by connWaitReconn only, and not during a       *)
(* shutdown.                                                               *)
LEMMA ConnectsOnlyThere ==
    ASSUME IndInv, Next, conn' = "connecting", conn # "connecting"
    PROVE  quits = 0
<1>1. CASE Environment
  <2>1. \A list : connConnected(list) => conn' = "up"
    BY DEF connConnected
  <2>2. \A list, o, c, b : Close(list, o, c, b) => conn' = "dying"
    BY DEF Close
  <2>3. \A list, t : dohandshake(list, t) => conn' # "connecting"
    BY <2>1, <2>2 DEF dohandshake
  <2>4. ~Connected /\ ~ConnectFailed /\ ~Handshake /\ ~RemoteGone
    BY <2>2, <2>3 DEF Connected, ConnectFailed, Handshake, RemoteGone
  <2>5. ~ReceiveMyInfo /\ ~DataSent /\ ~SendCmd /\ \A cmd : ~Receive(cmd)
    BY DEF ReceiveMyInfo, DataSent, SendCmd, Receive
  <2>6. ~Shutdown
    BY <2>2 DEF Shutdown, IrcServer_disconnect
  <2> QED BY <1>1, <2>4, <2>5, <2>6 DEF Environment
<1>2. CASE EventsDone
  BY <1>2 DEF EventsDone
<1>3. CASE Tick
  <2>1. \A list, o, c, b : Close(list, o, c, b) => conn' = "dying"
    BY DEF Close
  <2>2. ~TickStart /\ ~TickSkip /\ ~TickEnd
    BY DEF TickStart, TickSkip, TickEnd
  <2>3. ~checkPendingConnection /\ ~checkPendingTls /\ ~connWaitLogin /\ ~activeTick
    BY <2>1 DEF checkPendingConnection, checkPendingTls, connWaitLogin, activeTick, CloseAgain
  <2>4. connWaitReconn
    BY <1>3, <2>2, <2>3 DEF Tick
  <2>5. /\ At("reconn") /\ reconnticks <= 1 /\ reconnticks' = reconnticks - 1
        /\ Connection_create
        /\ ticks' = Unregister(CreateHandlers(ticks), "reconn")
        /\ tlsticks' = tlsticks /\ hits' = hits /\ connst' = connst
        /\ loginticks' = loginticks /\ idleticks' = idleticks /\ out' = out
        /\ todo' = todo /\ stopped' = stopped
    BY <2>4 DEF connWaitReconn
  <2> QED BY <2>5, Reconnects
<1> QED BY <1>1, <1>2, <1>3 DEF Next

(* While the service shuts down no new connection is opened: the time      *)
(* connWaitReconn has to wait is longer than what is left of the shutdown. *)
THEOREM ShutdownOpensNothing == Spec => NoReconnectOnShutdown
<1>1. ASSUME IndInv, [Next]_vars
      PROVE  [quits > 0 => (conn' = "connecting" => conn = "connecting")]_vars
  <2>1. CASE Next
    <3>1. conn' = "connecting" /\ conn # "connecting" => ~(quits > 0)
      BY <1>1, <2>1, ConnectsOnlyThere
    <3> QED BY <3>1
  <2>2. CASE UNCHANGED vars
    BY <2>2
  <2> QED BY <1>1, <2>1, <2>2
<1> QED BY <1>1, Invariance, PTL DEF Spec, NoReconnectOnShutdown
-----------------------------------------------------------------------------
(* A server implements ServerSessions.                                     *)

(* What of a session may change outside a shutdown request.                *)
LinkMoves ==
    /\ quits' = quits
    /\ \/ Link' = Link \/ Link' = "none"
       \/ Link = "pending" /\ Link' = "in"
       \/ Link = "none" /\ Link' = "pending" /\ quits = 0

LEMMA MovesAreSteps ==
    ASSUME LinkMoves
    PROVE  [Session!Next]_<<[s \in {Self} |-> Link], quits>>
<1>1. CASE Link' = Link
  BY <1>1 DEF LinkMoves
<1>2. CASE Link' = "none" /\ Link # "none"
  <2>1. Session!Disconnect(Self)
    BY <1>2 DEF LinkMoves, Session!Disconnect
  <2> QED BY <2>1 DEF Session!Next
<1>3. CASE Link = "pending" /\ Link' = "in"
  <2>1. Session!LogIn(Self)
    BY <1>3 DEF LinkMoves, Session!LogIn
  <2> QED BY <2>1 DEF Session!Next
<1>4. CASE Link = "none" /\ Link' = "pending" /\ quits = 0
  <2>1. Session!Open({Self})
    BY <1>4 DEF LinkMoves, Session!Open
  <2> QED BY <2>1 DEF Session!Next
<1> QED BY <1>1, <1>2, <1>3, <1>4 DEF LinkMoves

(* A connection that is not up has not sent a login.                       *)
LEMMA LinkOf ==
    ASSUME IndInv
    PROVE  /\ conn # "up" => connst = 0
           /\ conn = "none" \/ conn = "dying" <=> Link = "none"
           /\ conn \in {"connecting", "handshake", "up"} /\ connst <= 0 => Link = "pending"
BY DEF IndInv, SessionConsistent, TypeOK, Link

LEMMA EnvironmentMoves ==
    ASSUME IndInv, Environment, ~Shutdown
    PROVE  LinkMoves
<1>1. \A list : connConnected(list) => conn' = "up" /\ connst' = -1
  BY DEF connConnected
<1>2. \A list, o, c : Close(list, o, c, TRUE) \/ Close(list, o, c, FALSE) => conn' = "dying"
  BY DEF Close
<1>3. ASSUME NEW list, NEW t, dohandshake(list, t)
      PROVE  \/ conn' = "up" /\ connst' = -1
             \/ conn' = "dying"
             \/ conn' = "handshake" /\ connst' = connst
  <2>1. \/ connConnected(Unregister(list, "tls"))
        \/ Close(Unregister(list, "tls"), out, 0, TRUE)
        \/ conn' = "handshake" /\ connst' = connst
    BY <1>3 DEF dohandshake
  <2> QED BY <1>1, <1>2, <2>1
<1>4. ASSUME conn \in {"connecting", "handshake"}, quits' = quits,
             \/ conn' = "up" /\ connst' = -1
             \/ conn' = "dying"
             \/ conn' = "handshake" /\ connst' = connst
      PROVE  LinkMoves
  <2>1. connst = 0 /\ Link = "pending"
    BY <1>4, LinkOf
  <2>2. Link' = "none" \/ Link' = "pending"
    BY <1>4, <2>1 DEF Link
  <2> QED BY <1>4, <2>1, <2>2 DEF LinkMoves
<1>5. CASE Connected
  <2>1. /\ conn = "connecting" /\ quits' = quits
        /\ \/ dohandshake(TlsHandlers(ticks), ConnTicks)
           \/ connConnected(Unregister(ticks, "pending"))
    BY <1>5 DEF Connected, service
  <2> QED BY <1>1, <1>3, <1>4, <2>1
<1>6. CASE Handshake
  BY <1>3, <1>4, <1>6 DEF Handshake, service
<1>7. CASE ConnectFailed \/ RemoteGone
  <2>1. conn' = "dying" /\ quits' = quits
    BY <1>2, <1>7 DEF ConnectFailed, RemoteGone, service
  <2> QED BY <2>1 DEF LinkMoves, Link
<1>8. CASE \E cmd : Receive(cmd)
  <2>1. conn' = conn /\ quits' = quits /\ connst' = IF connst = -1 THEN -2 ELSE connst
    BY <1>8 DEF Receive, service
  <2> QED BY <2>1 DEF LinkMoves, Link
<1>9. CASE DataSent \/ SendCmd
  BY <1>9 DEF DataSent, SendCmd, service, LinkMoves, Link
<1>10. CASE ReceiveMyInfo
  <2>1. connst = -2 /\ connst' = 1 /\ conn' = conn /\ quits' = quits
    BY <1>10 DEF ReceiveMyInfo, service
  <2>2. conn = "up" /\ Link = "pending"
    BY <2>1, LinkOf
  <2>3. Link' = "in"
    BY <2>1, <2>2 DEF Link
  <2> QED BY <2>1, <2>2, <2>3 DEF LinkMoves
<1> QED BY <1>5, <1>6, <1>7, <1>8, <1>9, <1>10 DEF Environment

(* Only connWaitReconn opens a connection.                                 *)
LEMMA TickMoves ==
    ASSUME IndInv, Tick
    PROVE  LinkMoves
<1>1. ASSUME quits' = quits, conn' = "dying" \/ (conn' = conn /\ connst' = connst)
      PROVE  LinkMoves
  BY <1>1 DEF LinkMoves, Link
<1>2. \A list, o, c : Close(list, o, c, TRUE) \/ Close(list, o, c, FALSE) => conn' = "dying"
  BY DEF Close
<1>3. CASE TickStart \/ TickSkip \/ TickEnd
  BY <1>1, <1>3 DEF TickStart, TickSkip, TickEnd, At, service
<1>4. CASE checkPendingConnection \/ checkPendingTls \/ connWaitLogin
  <2>1. /\ quits' = quits
        /\ \/ Close(ticks, out, 0, TRUE)
           \/ Close(Unregister(ticks, "login"), out, 0, TRUE)
           \/ conn' = conn /\ connst' = connst
    BY <1>4 DEF checkPendingConnection, checkPendingTls, connWaitLogin, CloseAgain, At, service
  <2> QED BY <1>1, <1>2, <2>1
<1>5. CASE activeTick
  <2> DEFINE sent == pump(MoreCredit(out))
  <2>1. /\ quits' = quits
        /\ \/ Close(Unregister(ticks, "active"), sent, connecting, FALSE)
           \/ conn' = conn /\ connst' = connst
    BY <1>5 DEF activeTick, At, service
  <2> QED BY <1>1, <1>2, <2>1
<1>6. CASE connWaitReconn
  <2>1. At("reconn") /\ connst' = connst /\ quits' = quits
    BY <1>6 DEF connWaitReconn, At, service
  <2>2. CASE conn' = conn
    BY <1>1, <2>1, <2>2
  <2>3. CASE conn' # conn
    <3>1. /\ reconnticks <= 1 /\ reconnticks' = reconnticks - 1
          /\ Connection_create
          /\ ticks' = Unregister(CreateHandlers(ticks), "reconn")
          /\ tlsticks' = tlsticks /\ hits' = hits /\ connst' = connst
          /\ loginticks' = loginticks /\ idleticks' = idleticks /\ out' = out
          /\ todo' = todo /\ stopped' = stopped
      BY <1>6, <2>3 DEF connWaitReconn
    <3>2. quits = 0
      BY <2>1, <3>1, Reconnects
    <3>3. Count("reconn") >= 1 /\ Count("reconn") \in Nat
      BY <2>1, AtFacts
    <3>4. conn \in {"dying", "none"}
      BY <3>3 DEF IndInv, HandlersMatch
    <3>5. connst = 0 /\ Link = "none"
      BY <3>4, LinkOf
    <3>6. conn' = "connecting" /\ connst' = 0
      BY <2>1, <3>1, <3>5 DEF Connection_create
    <3>7. Link' = "pending"
      BY <3>6 DEF Link
    <3> QED BY <2>1, <3>2, <3>5, <3>7 DEF LinkMoves
  <2> QED BY <2>2, <2>3
<1> QED BY <1>3, <1>4, <1>5, <1>6 DEF Tick

(* A request ends a connection that is not logged in, at once.             *)
LEMMA ShutdownIsShutdown ==
    ASSUME IndInv, Shutdown
    PROVE  Session!Shutdown
<1>1. /\ conn # "dying" /\ quits' = quits + 1
      /\ IrcServer_disconnect(QuitHandlers(ticks))
  BY DEF Shutdown, Waiting
<1>2. \A list, o, c : Close(list, o, c, TRUE) \/ Close(list, o, c, FALSE) => conn' = "dying"
  BY DEF Close
<1>3. \/ connst > 0 /\ conn' = conn /\ connst' = connst
      \/ connst <= 0 /\ conn # "none" /\ conn' = "dying"
      \/ conn = "none" /\ conn' = conn /\ connst' = connst
  BY <1>1, <1>2 DEF IrcServer_disconnect
<1>4. Link' = IF Link = "pending" THEN "none" ELSE Link
  BY <1>1, <1>3, LinkOf DEF Link
<1> QED BY <1>1, <1>4 DEF Session!Shutdown

(* What a server does to its connection is what the bot relies on, the     *)
(* specification ServerSessions: every step of the server is a step or a   *)
(* stutter there.                                                          *)
THEOREM SessionTheorem == Spec => ImplementsSession
<1>1. Init => Session!Init
  <2>1. Init => Link = "pending" /\ quits = 0
    BY DEF Init, Link
  <2> QED BY <2>1 DEF Session!Init
<1>2. ASSUME IndInv, [Next]_vars
      PROVE  [Session!Next]_<<[s \in {Self} |-> Link], quits>>
  <2>1. CASE Environment /\ ~Shutdown
    BY <1>2, <2>1, EnvironmentMoves, MovesAreSteps
  <2>2. CASE Shutdown
    BY <1>2, <2>2, ShutdownIsShutdown DEF Session!Next
  <2>3. CASE Tick
    BY <1>2, <2>3, TickMoves, MovesAreSteps
  <2>4. CASE EventsDone \/ UNCHANGED vars
    <3>1. /\ quits' = quits /\ connst' = connst
          /\ conn' = conn \/ (conn = "dying" /\ conn' = "none")
      <4>1. CASE EventsDone
        BY <4>1 DEF EventsDone, service
      <4>2. CASE UNCHANGED vars
        BY <4>2 DEF vars, timers, service
      <4> QED BY <2>4, <4>1, <4>2
    <3>2. LinkMoves
      BY <3>1 DEF LinkMoves, Link
    <3> QED BY <3>2, MovesAreSteps
  <2> QED BY <1>2, <2>1, <2>2, <2>3, <2>4 DEF Next
<1> QED BY <1>1, <1>2, Invariance, PTL DEF Spec, ImplementsSession, Session!Spec
=============================================================================
