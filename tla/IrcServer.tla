----------------------------- MODULE IrcServer -----------------------------
(***************************************************************************)
(* One IRC server of the bot (ircserver.c) with its TCP or TLS connection  *)
(* (connection.c, client.c), the tick event that drives their timeouts     *)
(* (event.c) and the service loop that runs them (service.c).  All of it   *)
(* runs on the main thread, so an action is one event the loop dispatches, *)
(* with everything its handlers do; a tick is dispatched handler by        *)
(* handler, because handlers register and unregister each other while      *)
(* Event_raise walks the list.                                             *)
(*                                                                         *)
(* The connection is "connecting", in the TLS "handshake", "up", "dying"   *)
(* (closed, destroyed when the loop next raises eventsDone) or there is    *)
(* "none"; self->conn is null in the last two.  Messages are counted, not  *)
(* spelled out.  The server has one address.  The remote is an IRC server: *)
(* it sends RPL_MYINFO once per connection, after it got NICK and USER.    *)
(***************************************************************************)
EXTENDS EventList

CONSTANTS ReconnTicks, QuickReconnTicks, LoginTicks, IdleTicks, PingTicks,
          ConnTicks, ShutdownTicks,   \* the timeouts of the code
          FullCredit,    \* FULLSENDCREDIT
          BlacklistHits, \* BLACKLISTHITS
          Tls,           \* the server is used with TLS
          Channels,      \* channels joined once the server is logged in
          MaxQueue,      \* bound: commands waiting when more input is taken
          MaxQuit        \* bound: shutdown requests

ASSUME TicksAssumption ==
    /\ {LoginTicks, IdleTicks, PingTicks, ConnTicks, ShutdownTicks,
        BlacklistHits} \subseteq Nat \ {0}
    /\ {ReconnTicks, QuickReconnTicks} \subseteq Nat \ {0, 1}
(* A command takes two credits.                                            *)
ASSUME CreditAssumption == FullCredit \in Nat \ {0, 1}
ASSUME SetupAssumption ==
    /\ Tls \in BOOLEAN
    /\ Channels \in Nat /\ MaxQueue \in Nat /\ MaxQuit \in Nat
(* Both are 5, defined in two files: a server that goes away while the     *)
(* service shuts down must not be connected to again meanwhile.            *)
ASSUME QuickAssumption ==
    QuickReconnTicks >= ShutdownTicks /\ ReconnTicks >= ShutdownTicks

VARIABLES
    conn,         \* the connection's state
    connecting, tlsticks,   \* its timeouts: connecting, tls_connect_ticks
    hits,         \* blacklist[i].hits for the server's address, 0 if none
    connst,       \* 0 not connected, -1 silent, -2 login sent, 1 logged in
    loginticks, reconnticks, idleticks,
    out,          \* what is being sent, see OutType
    todo,         \* commands to be written until the remote has the login
    ticks,        \* the handlers of the tick event, "gone" if unregistered
    pos,          \* position of Event_raise in ticks, 0 if it is not running
    stopticks,    \* shutdownTicks
    quits,        \* shutdown requests so far
    stopped       \* shutdownRef is 0: the service loop ends

timers == <<connecting, tlsticks, loginticks, reconnticks, idleticks>>
service == <<stopticks, quits>>
vars == <<conn, timers, hits, connst, out, todo, ticks, pos, service,
          stopped>>

Null == -1

(* out.queue is the length of sendQueue or Null; sending and credit are    *)
(* fields of the server, nrecs is the connection's number of write records *)
(* and crashed is set by a call with a null pointer.                       *)
OutType == [queue : Nat \cup {Null}, sending : BOOLEAN, credit : 0..FullCredit,
            nrecs : Nat, crashed : BOOLEAN]

Handlers == {"pending", "tls", "login", "reconn", "active"}

(* Every variable has its type; no timeout runs past the value at which    *)
(* the code acts on it, and the send credit stays within its limit.        *)
TypeOK ==
    /\ conn \in {"connecting", "handshake", "up", "dying", "none"}
    /\ connecting \in 0..ConnTicks
    /\ tlsticks \in 0..ConnTicks
    /\ hits \in 0..BlacklistHits
    /\ connst \in {0, -1, -2, 1}
    /\ loginticks \in 0..LoginTicks
    /\ reconnticks \in 0..ReconnTicks \/ reconnticks \in 0..QuickReconnTicks
    /\ idleticks \in (-PingTicks)..IdleTicks
    /\ out \in OutType
    /\ todo \in Nat
    /\ ticks \in Seq(Handlers \cup {"gone"})
    /\ pos \in Nat
    /\ stopticks \in (-1)..ShutdownTicks
    /\ quits \in 0..MaxQuit
    /\ stopped \in BOOLEAN

-----------------------------------------------------------------------------
(* Sending.                                                                *)

(* mutant: does not look at sending *)
MaySendTwice(s) == s.credit >= 2

(* One command at a time, two credits each.                                *)
MaySend(s) == s.credit >= 2 /\ ~s.sending

(* sendRaw(self, 0): the next command goes to the connection.              *)
pump(s) ==
    IF ~MaySend(s) \/ s.queue = 0 THEN s
    ELSE IF s.queue = Null THEN [s EXCEPT !.crashed = TRUE]
    ELSE [s EXCEPT !.queue = @ - 1, !.sending = TRUE, !.credit = @ - 2,
                   !.nrecs = @ + 1]

(* sendRaw with n commands, one after the other.                           *)
sendRaw(s, n) ==
    IF n = 0 THEN s
    ELSE IF s.queue = Null THEN [s EXCEPT !.crashed = TRUE]
    ELSE pump([s EXCEPT !.queue = @ + n])

-----------------------------------------------------------------------------
(* What several handlers do, on the list of tick handlers they leave.      *)

(* connConnected, the handler of the connection's connected event.         *)
connConnected(list) ==
    /\ conn' = "up"
    /\ connst' = -1
    /\ loginticks' = LoginTicks
    /\ out' = [out EXCEPT !.queue = 0, !.credit = FullCredit]
    /\ todo' = 0
    /\ ticks' = Register(list, "login")
    /\ UNCHANGED <<reconnticks, idleticks, hits, stopped>>

(* mutant: connClosed leaves connWaitLogin registered *)
ClosedHandlersKeepLogin(list) == Register(list, "reconn")

(* What connClosed does to the tick handlers.                              *)
ClosedHandlers(list) == Register(Unregister(list, "login"), "reconn")

(* shutdownok, a handler of the server's disconnected event, unlocks a     *)
(* shutdown that waits for it; the loop ends unless it waits for others.   *)
shutdownok == stopped' = stopped \/ (quits' > 0 /\ stopped' = TRUE)

(* connClosed, the handler of the connection's closed event.               *)
connClosed(list, o, wait) ==
    /\ reconnticks' = wait
    /\ connst' = 0
    /\ out' = [o EXCEPT !.queue = Null]
    /\ shutdownok
    /\ ticks' = ClosedHandlers(list)

(* Connection_blacklistAddress: the address will be refused, by            *)
(* blacklistcheck, BlacklistHits times.                                    *)
blacklistAddress == hits' = BlacklistHits

(* mutant: an address never leaves the blacklist *)
blacklistcheckForever == UNCHANGED hits

blacklistcheck == hits' = IF hits > 0 THEN hits - 1 ELSE 0

(* Connection_close when the field connecting is c; deleteLater.           *)
Close(list, o, c, blacklist) ==
    /\ IF blacklist THEN blacklistAddress ELSE UNCHANGED hits
    /\ connClosed(list, o, IF c # 0 THEN ReconnTicks ELSE QuickReconnTicks)
    /\ conn' = "dying"
    /\ UNCHANGED todo

(* dohandshake: the handshake ends, fails or goes on.                      *)
dohandshake(list, t) ==
    \/ /\ tlsticks' = 0
       /\ connConnected(Unregister(list, "tls"))
    \/ /\ tlsticks' = t
       /\ Close(Unregister(list, "tls"), out, 0, TRUE)
       /\ UNCHANGED <<loginticks, idleticks>>
    \/ /\ tlsticks' = t
       /\ conn' = "handshake"
       /\ ticks' = list
       /\ UNCHANGED <<hits, connst, loginticks, reconnticks, idleticks, out,
                      todo, stopped>>

-----------------------------------------------------------------------------
(* startup has called IrcServer_connect.                                   *)
Init ==
    /\ conn = "connecting" /\ connecting = ConnTicks /\ tlsticks = 0
    /\ hits = 0
    /\ connst = 0
    /\ loginticks = 0 /\ reconnticks = 0 /\ idleticks = 0
    /\ out = [queue |-> Null, sending |-> FALSE, credit |-> 0, nrecs |-> 0,
              crashed |-> FALSE]
    /\ todo = 0
    /\ ticks = <<"pending">>
    /\ pos = 0 /\ stopticks = -1 /\ quits = 0 /\ stopped = FALSE

(* The loop waits in pselect.                                              *)
Waiting == ~out.crashed /\ ~stopped /\ pos = 0 /\ conn # "dying"

(* mutant: checkPendingTls is not registered *)
TlsHandlersNone(list) == Unregister(list, "pending")

(* The tick handlers of a connection that starts the TLS handshake.        *)
TlsHandlers(list) == Register(Unregister(list, "pending"), "tls")

(* writeConnection, connecting, without an error.                          *)
Connected ==
    /\ Waiting /\ conn = "connecting"
    /\ connecting' = 0
    /\ UNCHANGED <<pos, service>>
    /\ IF Tls
       THEN dohandshake(TlsHandlers(ticks), ConnTicks)
       ELSE connConnected(Unregister(ticks, "pending")) /\ UNCHANGED tlsticks

(* The same with an error.                                                 *)
ConnectFailed ==
    /\ Waiting /\ conn = "connecting"
    /\ UNCHANGED <<connecting, tlsticks, loginticks, idleticks, pos, service>>
    /\ Close(Unregister(ticks, "pending"), out, connecting, TRUE)

(* readConnection or writeConnection during the handshake.                 *)
Handshake ==
    /\ Waiting /\ conn = "handshake"
    /\ UNCHANGED <<connecting, pos, service>>
    /\ dohandshake(ticks, tlsticks)

(* The end of connDataReceived: NICK and USER after the first data.        *)
Login(o) ==
    IF connst = -1 THEN sendRaw(o, 2) ELSE o

(* handleMessage, but for RPL_MYINFO: MSG_PING is answered with PONG and   *)
(* ERR_NICKNAMEINUSE with another NICK; other messages send nothing.       *)
handleMessage(o, cmd) == sendRaw(o, IF cmd = "other" THEN 0 ELSE 1)

(* doread and connDataReceived, with one message or a part of one.  The    *)
(* remote needs the last NICK and USER for the login.                      *)
Receive(cmd) ==
    /\ Waiting /\ conn = "up" /\ out.queue <= MaxQueue
    /\ cmd = "nickinuse" => connst # -1
    /\ idleticks' = IdleTicks
    /\ out' = Login(handleMessage(out, cmd))
    /\ connst' = IF connst = -1 THEN -2 ELSE connst
    /\ todo' = IF connst = -1 \/ cmd = "nickinuse"
               THEN out'.queue + out'.nrecs ELSE todo
    /\ UNCHANGED <<conn, connecting, tlsticks, hits, loginticks, reconnticks,
                   ticks, pos, service, stopped>>

(* The same with RPL_MYINFO; the connected event makes the channels join.  *)
ReceiveMyInfo ==
    /\ Waiting /\ connst = -2 /\ todo = 0
    /\ idleticks' = IdleTicks
    /\ connst' = 1
    /\ ticks' = Register(Unregister(ticks, "login"), "active")
    /\ out' = sendRaw([out EXCEPT !.credit = FullCredit], Channels)
    /\ UNCHANGED <<conn, connecting, tlsticks, hits, loginticks, reconnticks,
                   todo, pos, service, stopped>>

(* connDataSent sends the next command.                                    *)
connDataSent(o) == pump([o EXCEPT !.sending = FALSE])

(* dowrite writes the last byte of a command.                              *)
DataSent ==
    /\ Waiting /\ conn = "up" /\ out.nrecs > 0
    /\ todo' = IF todo > 0 THEN todo - 1 ELSE 0
    /\ out' = connDataSent([out EXCEPT !.nrecs = @ - 1])
    /\ UNCHANGED <<conn, timers, hits, connst, ticks, pos, service, stopped>>

(* doread finds the end of the stream or an error, or dowrite an error.    *)
RemoteGone ==
    /\ Waiting /\ conn = "up"
    /\ UNCHANGED <<connecting, tlsticks, loginticks, idleticks, pos, service>>
    /\ Close(ticks, out, 0, FALSE)

(* IrcServer_sendCmd, IrcServer_sendMsg or IrcServer_setNick, called for a *)
(* channel or with the response of a bot event handler.                    *)
SendCmd ==
    /\ Waiting /\ connst > 0 /\ out.queue <= MaxQueue
    /\ out' = sendRaw(out, 1)
    /\ UNCHANGED <<conn, timers, hits, connst, todo, ticks, pos, service,
                   stopped>>

(* deleteConnection: Connection_destroy.  The dataSent events it raises    *)
(* for unwritten commands change nothing, conn is not self->conn any more. *)
EventsDone ==
    /\ conn = "dying" /\ pos = 0 /\ ~stopped /\ ~out.crashed
    /\ conn' = "none"
    /\ out' = [out EXCEPT !.nrecs = 0]
    /\ ticks' = Unregister(Unregister(ticks, "tls"), "pending")
    /\ UNCHANGED <<timers, hits, connst, todo, pos, service, stopped>>

(* mutant: IrcServer_disconnect leaves connWaitReconn registered *)
QuitHandlersKeepReconn(list) == Unregister(list, "login")

(* What IrcServer_disconnect does to the tick handlers.                    *)
QuitHandlers(list) == Unregister(Unregister(list, "login"), "reconn")

(* mutant: shutdownTicks is not set *)
StopTicksUnset == -1

StopTicks == ShutdownTicks

IrcServer_disconnect(list) ==
    \/ /\ connst > 0
       /\ out' = sendRaw(out, 1)
       /\ ticks' = list
       /\ UNCHANGED <<conn, hits, connst, reconnticks, todo, stopped>>
    \/ /\ connst <= 0 /\ conn # "none"
       /\ Close(list, out, connecting, FALSE)
    \/ /\ conn = "none"
       /\ ticks' = list
       /\ UNCHANGED <<conn, hits, connst, out, reconnticks, todo, stopped>>

(* A shutdown request, by a signal or Service_quit: shutdown waits for the *)
(* disconnected event of every server.                                     *)
Shutdown ==
    /\ Waiting /\ quits < MaxQuit
    /\ quits' = quits + 1
    /\ stopticks' = StopTicks
    /\ UNCHANGED <<connecting, tlsticks, loginticks, idleticks, pos>>
    /\ IrcServer_disconnect(QuitHandlers(ticks))

-----------------------------------------------------------------------------
(* A tick: the loop raises the tick event.                                 *)

TickStart ==
    /\ Waiting
    /\ stopticks' = IF stopticks > 0 THEN stopticks - 1 ELSE stopticks
    /\ IF stopticks = 1
       THEN stopped' = TRUE /\ UNCHANGED pos
       ELSE pos' = 1 /\ UNCHANGED stopped
    /\ UNCHANGED <<conn, timers, hits, connst, out, todo, ticks, quits>>

(* Event_raise is at a registered handler h.                               *)
At(h) ==
    /\ ~out.crashed
    /\ pos \in DOMAIN ticks /\ ticks[pos] = h
    /\ pos' = pos + 1
    /\ UNCHANGED service

(* Event_raise skips an unregistered entry, or is at the end of the list.  *)
TickSkip ==
    /\ At("gone")
    /\ UNCHANGED <<conn, timers, hits, connst, out, todo, ticks, stopped>>

TickEnd ==
    /\ ~out.crashed /\ pos > Len(ticks)
    /\ pos' = 0
    /\ UNCHANGED <<conn, timers, hits, connst, out, todo, ticks, service,
                   stopped>>

(* Connection_close of a connection another tick handler has closed in the *)
(* same tick: connClosed does nothing, as it is not self->conn any more.   *)
CloseAgain ==
    /\ blacklistAddress
    /\ UNCHANGED <<conn, connst, reconnticks, out, todo, ticks, stopped>>

checkPendingConnection ==
    /\ At("pending")
    /\ connecting' = IF connecting > 0 THEN connecting - 1 ELSE 0
    /\ UNCHANGED <<tlsticks, loginticks, idleticks>>
    /\ \/ connecting = 1 /\ conn # "dying" /\ Close(ticks, out, 0, TRUE)
       \/ connecting = 1 /\ conn = "dying" /\ CloseAgain
       \/ connecting # 1 /\ UNCHANGED <<conn, hits, connst, reconnticks, out,
                                         todo, ticks, stopped>>

checkPendingTls ==
    /\ At("tls")
    /\ tlsticks' = IF tlsticks > 0 THEN tlsticks - 1 ELSE 0
    /\ UNCHANGED <<connecting, loginticks, idleticks>>
    /\ \/ tlsticks = 1 /\ conn # "dying" /\ Close(ticks, out, 0, TRUE)
       \/ tlsticks = 1 /\ conn = "dying" /\ CloseAgain
       \/ tlsticks # 1 /\ UNCHANGED <<conn, hits, connst, reconnticks, out,
                                         todo, ticks, stopped>>

connWaitLogin ==
    /\ At("login")
    /\ loginticks' = loginticks - 1
    /\ UNCHANGED <<connecting, tlsticks, idleticks>>
    /\ IF loginticks' <= 0
       THEN Close(Unregister(ticks, "login"), out, 0, TRUE)
       ELSE UNCHANGED <<conn, hits, connst, reconnticks, out, todo,
                        ticks, stopped>>

(* Connection_create for a connection in progress; the tick handlers with  *)
(* the one it registers.                                                   *)
Connection_create == conn' = "connecting" /\ connecting' = ConnTicks
CreateHandlers(list) == Register(list, "pending")

(* connWaitReconn: not yet; IrcServer_connect makes a new connection; or   *)
(* it fails because the address is on the blacklist or connect fails.      *)
connWaitReconn ==
    /\ At("reconn")
    /\ UNCHANGED <<tlsticks, connst, loginticks, idleticks, out, todo, stopped>>
    /\ \/ /\ reconnticks > 1
          /\ reconnticks' = reconnticks - 1
          /\ UNCHANGED <<conn, connecting, hits, ticks>>
       \/ /\ reconnticks <= 1 /\ hits = 0
          /\ reconnticks' = reconnticks - 1
          /\ Connection_create
          /\ ticks' = Unregister(CreateHandlers(ticks), "reconn")
          /\ UNCHANGED hits
       \/ /\ reconnticks <= 1
          /\ reconnticks' = ReconnTicks
          /\ blacklistcheck
          /\ UNCHANGED <<conn, connecting, ticks>>

MoreCredit(o) ==
    IF o.credit < FullCredit THEN [o EXCEPT !.credit = @ + 1] ELSE o

activeTick ==
    /\ At("active")
    /\ idleticks' = idleticks - 1
    /\ UNCHANGED <<connecting, tlsticks, loginticks>>
    /\ LET sent == pump(MoreCredit(out))
       IN  \/ /\ idleticks' > -PingTicks \/ sent.crashed
              /\ out' = IF idleticks' = 0 /\ ~sent.crashed
                        THEN sendRaw(sent, 1) ELSE sent
              /\ UNCHANGED <<conn, hits, connst, reconnticks, todo, ticks,
                             stopped>>
           \/ /\ idleticks' <= -PingTicks /\ ~sent.crashed
              /\ conn \notin {"dying", "none"}
              /\ Close(Unregister(ticks, "active"), sent, connecting, FALSE)
           \/ /\ idleticks' <= -PingTicks /\ ~sent.crashed
              /\ conn \in {"dying", "none"}
              /\ out' = [sent EXCEPT !.crashed = TRUE]
              /\ UNCHANGED <<conn, hits, connst, reconnticks, todo, ticks,
                             stopped>>

-----------------------------------------------------------------------------
(* What the remote and the user of the library do, and what the loop does. *)
Environment ==
    \/ Connected \/ ConnectFailed \/ Handshake
    \/ \E cmd \in {"ping", "nickinuse", "other"} : Receive(cmd)
    \/ ReceiveMyInfo \/ DataSent \/ RemoteGone \/ SendCmd \/ Shutdown

Tick ==
    \/ TickStart \/ TickSkip \/ TickEnd
    \/ checkPendingConnection \/ checkPendingTls \/ connWaitLogin
    \/ connWaitReconn \/ activeTick

Next == Environment \/ EventsDone \/ Tick

Spec == Init /\ [][Next]_vars

(* The periodic timer fires again and again, and the loop never blocks     *)
(* anywhere but in pselect.  Nothing is assumed of the remote.             *)
Fairness == WF_vars(Tick) /\ WF_vars(EventsDone)

FairSpec == Spec /\ Fairness

-----------------------------------------------------------------------------
(* Properties.                                                             *)

Count(h) == Registered(ticks, h)

(* The server's fields have their types and agree with its connection:     *)
(* sendQueue exists and connst is not 0 exactly while the connection is    *)
(* usable (connConnected, connClosed), and what is written belongs to a    *)
(* connection that exists.  One command is written at a time, so           *)
(* Connection_write, whose result sendRaw ignores, never finds its         *)
(* NWRITERECS records in use, and the buffer sendcmd is not replaced while *)
(* the connection still reads it.                                          *)
SessionConsistent ==
    /\ TypeOK
    /\ out.queue = Null <=> conn # "up"
    /\ connst = 0 <=> conn # "up"
    /\ out.nrecs > 0 => conn \in {"up", "dying"}
    /\ out.nrecs <= 1 /\ (conn = "up" /\ out.nrecs = 1 => out.sending)

(* Every timeout is watched exactly as long as it matters: each phase of a *)
(* connection has its tick handler exactly once, and a server that is not  *)
(* connected waits to reconnect exactly once, however connections end and  *)
(* whichever handlers the walk of Event_raise skips or sees moved.         *)
HandlersMatch ==
    /\ conn = "connecting" => Count("pending") = 1
    /\ conn = "handshake" => Count("tls") = 1
    /\ Count("pending") <= (IF conn \in {"connecting", "dying"} THEN 1 ELSE 0)
    /\ Count("tls") <= (IF conn \in {"handshake", "dying"} THEN 1 ELSE 0)
    /\ Count("login") = (IF connst < 0 THEN 1 ELSE 0)
    /\ Count("reconn") <= (IF conn \in {"dying", "none"} THEN 1 ELSE 0)
    /\ conn \in {"dying", "none"} /\ quits = 0 => Count("reconn") = 1
    /\ Count("active") <= 1
    /\ connst = 1 => Count("active") = 1

(* While the service shuts down no new connection is opened, also when the *)
(* server went away because of it: QUICKRECONNTICKS is long enough.        *)
NoReconnectOnShutdown ==
    [][quits > 0 => (conn' = "connecting" => conn = "connecting")]_vars

(* What the bot sees of the server is a session of ServerSessions, on      *)
(* which its own handling of replies and shutdowns rests: a login only on  *)
(* a connection that was opened and is not logged in, a disconnection for  *)
(* every connection, no connection once a shutdown was requested.          *)
Self == "server"
Link ==
    IF conn \in {"dying", "none"} THEN "none"
    ELSE IF connst > 0 THEN "in" ELSE "pending"
Session == INSTANCE ServerSessions WITH Ids <- {Self}, link <- [s \in {Self} |-> Link]
ImplementsSession == Session!Spec

(* A server that stops answering is noticed: connecting, the handshake and *)
(* the login end, whatever the remote does.                                *)
Over == out.crashed \/ stopped
PhasesEnd ==
    /\ (conn = "connecting") ~> (conn # "connecting" \/ Over)
    /\ (conn = "handshake") ~> (conn # "handshake" \/ Over)
    /\ (connst < 0) ~> (connst >= 0 \/ Over)

(* After a shutdown request the service loop ends, whatever the remote     *)
(* does.                                                                   *)
ShutdownEnds == (quits > 0) ~> Over

(* The remote owes the next move: it has not accepted the connection, not  *)
(* taken what is being written, or not answered a login it has got.        *)
RemoteOwes ==
    \/ conn \in {"connecting", "handshake"}
    \/ conn = "up" /\ (out.nrecs > 0 \/ connst = -1)
    \/ connst = -2 /\ todo = 0

(* The network or the remote fails: connecting does not succeed, the       *)
(* connection breaks, or a tick passes while the remote owes a move.       *)
Lapse ==
    \/ ConnectFailed \/ RemoteGone \/ (TickStart /\ RemoteOwes)
    \/ (Connected \/ Handshake) /\ conn' = "dying"
    \/ connWaitReconn /\ reconnticks <= 1 /\ hits = 0 /\ conn' = conn

(* The credit is used up before the login, which is the only time it is    *)
(* not refilled: a remote that makes the bot send more than four commands. *)
Starved == connst = -2 /\ out.credit < 2 /\ out.queue > 0

(* sending is set, but no write record is left that could reset it.        *)
Mute == out.sending /\ out.nrecs = 0

Quitting == quits > 0 \/ stopped

(* Once the remote and the network work, the server is logged in again and *)
(* again, however the connections before ended: reconnecting, the          *)
(* blacklist, the login and the timeouts that watch them fit together.     *)
StaysConnected ==
    <>[][~Lapse]_vars
        => []<>(connst = 1 \/ Quitting \/ out.crashed \/ Starved)

(* The same, but for a server whose last connection ended with a command   *)
(* unwritten.                                                              *)
StaysConnectedUnlessMute ==
    <>[][~Lapse]_vars
        => []<>(connst = 1 \/ Quitting \/ out.crashed \/ Starved \/ Mute)

(* No function is called with a null pointer: sendRaw only with a          *)
(* sendQueue, Connection_close only with a connection.                     *)
NoNullUse == ~out.crashed
=============================================================================
