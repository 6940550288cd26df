------------------------------- MODULE FdSets -------------------------------
(***************************************************************************)
(* The descriptors the service loop waits for (service.c) and the          *)
(* connections that register theirs (connection.c, client.c), one for      *)
(* every server.  The operating system hands out the lowest free           *)
(* descriptor; a closed connection keeps its registration until it is      *)
(* destroyed, when the loop next raises eventsDone.                        *)
(*                                                                         *)
(* A round of the loop is "wait" (eventsDone and pselect), then "tick"     *)
(* (timeouts close and reconnects create connections), "shutdown" or       *)
(* "ready" (handlers of the ready descriptors, writing first).             *)
(***************************************************************************)
EXTENDS Integers, FiniteSets, FiniteSetsExt

CONSTANTS Servers,
          MaxFd,       \* bound: descriptors are 0..MaxFd
          WriteRecs    \* NWRITERECS

ASSUME FdAssumption == MaxFd \in Nat /\ WriteRecs \in Nat \ {0}

VARIABLES
    readfds, writefds, nread, nwrite, nfds,
    conn,      \* conn[s]: the connection of server s, see ConnType
    dying,     \* the descriptors of closed connections to be destroyed
    round,     \* what the loop does
    w, r,      \* the ready descriptors not yet dispatched
    shared     \* history: servers that got the descriptor of a dying one

fds == <<readfds, writefds, nread, nwrite, nfds>>
vars == <<fds, conn, dying, round, w, r, shared>>

Fds == 0..MaxFd
NoFd == -1

(* fd, the field connecting, a TLS operation that waits to write, nrecs.   *)
ConnType == [fd : Fds, connecting : BOOLEAN, tlswrite : BOOLEAN,
             nrecs : 0..WriteRecs]
NoConn == [fd |-> NoFd, connecting |-> FALSE, tlswrite |-> FALSE, nrecs |-> 0]

Init ==
    /\ readfds = {} /\ writefds = {}
    /\ nread = 0 /\ nwrite = 0 /\ nfds = 0
    /\ conn = [s \in Servers |-> NoConn]
    /\ dying = {}
    /\ round = "tick"
    /\ w = {} /\ r = {}
    /\ shared = {}

(* Every variable has its type.                                            *)
TypeOK ==
    /\ readfds \subseteq Fds /\ writefds \subseteq Fds
    /\ {nread, nwrite, nfds} \subseteq 0..MaxFd+1
    /\ conn \in [Servers -> ConnType \cup {NoConn}]
    /\ dying \subseteq Fds
    /\ round \in {"wait", "tick", "ready", "shutdown"}
    /\ w \subseteq Fds /\ r \subseteq Fds
    /\ shared \subseteq Servers

Live == {s \in Servers : conn[s] # NoConn}

-----------------------------------------------------------------------------
(* The registrations, as functions of the fields of the service.           *)

State == [read |-> readfds, write |-> writefds, nread |-> nread,
          nwrite |-> nwrite, nfds |-> nfds]

Becomes(f) ==
    /\ readfds' = f.read /\ writefds' = f.write
    /\ nread' = f.nread /\ nwrite' = f.nwrite /\ nfds' = f.nfds

(* mutant: looks for a descriptor in one of the sets *)
tryReduceNfdsRead(f, id) ==
    IF f.nread = 0 /\ f.nwrite = 0 THEN [f EXCEPT !.nfds = 0]
    ELSE IF id + 1 < f.nfds THEN f
    ELSE [f EXCEPT !.nfds =
             Max({fd \in f.read : fd <= id} \cup {NoFd}) + 1]

tryReduceNfds(f, id) ==
    IF f.nread = 0 /\ f.nwrite = 0 THEN [f EXCEPT !.nfds = 0]
    ELSE IF id + 1 < f.nfds THEN f
    ELSE [f EXCEPT !.nfds =
             Max({fd \in f.read \cup f.write : fd <= id} \cup {NoFd}) + 1]

registerRead(f, id) ==
    IF id \in f.read THEN f
    ELSE [f EXCEPT !.read = @ \cup {id}, !.nread = @ + 1,
                   !.nfds = IF id >= @ THEN id + 1 ELSE @]

unregisterRead(f, id) ==
    IF id \notin f.read THEN f
    ELSE tryReduceNfds([f EXCEPT !.read = @ \ {id}, !.nread = @ - 1], id)

registerWrite(f, id) ==
    IF id \in f.write THEN f
    ELSE [f EXCEPT !.write = @ \cup {id}, !.nwrite = @ + 1,
                   !.nfds = IF id >= @ THEN id + 1 ELSE @]

unregisterWrite(f, id) ==
    IF id \notin f.write THEN f
    ELSE tryReduceNfds([f EXCEPT !.write = @ \ {id}, !.nwrite = @ - 1], id)

(* The connection has something to write.                                  *)
WantsWrite(c) == c.connecting \/ c.tlswrite \/ c.nrecs > 0

(* mutant: leaves the descriptor registered for writing *)
wantreadwriteKeep(f, c) ==
    registerRead(IF WantsWrite(c) THEN registerWrite(f, c.fd) ELSE f, c.fd)

(* wantreadwrite: reads are never blocked, no handler sets handling.       *)
wantreadwrite(f, c) ==
    registerRead(IF WantsWrite(c) THEN registerWrite(f, c.fd)
                 ELSE unregisterWrite(f, c.fd), c.fd)

-----------------------------------------------------------------------------
(* What handlers do with the connection of a server.                       *)

(* Connection_createTcpClient, from startup and connWaitReconn; it fails   *)
(* when there is no descriptor.                                            *)
Used == {conn[s].fd : s \in Live}

Create(s) ==
    /\ round = "tick" /\ conn[s] = NoConn
    /\ Fds \ Used # {}
    /\ LET fd == Min(Fds \ Used)
           c  == [NoConn EXCEPT !.fd = fd, !.connecting = TRUE]
       IN  /\ conn' = [conn EXCEPT ![s] = c]
           /\ Becomes(registerWrite(State, fd))
           /\ shared' = IF fd \in dying THEN shared \cup {s} ELSE shared \ {s}
    /\ UNCHANGED <<dying, round, w, r>>

(* A connection gets the fields of c and registers what it waits for.      *)
Update(s, c) ==
    /\ conn' = [conn EXCEPT ![s] = c]
    /\ Becomes(wantreadwrite(State, c))
    /\ UNCHANGED <<dying, round, shared>>

(* Connection_write, by any handler; never on a connection that is being   *)
(* made.                                                                   *)
Write(s) ==
    /\ round # "wait" /\ conn[s] # NoConn /\ ~conn[s].connecting
    /\ conn[s].nrecs < WriteRecs
    /\ Update(s, [conn[s] EXCEPT !.nrecs = @ + 1])
    /\ UNCHANGED <<w, r>>

(* Connection_close and deleteLater, without dispatching.                  *)
Closed(s) ==
    /\ dying' = dying \cup {conn[s].fd}
    /\ conn' = [conn EXCEPT ![s] = NoConn]
    /\ shared' = shared \ {s}
    /\ UNCHANGED round

(* A timeout closes the connection; checkPendingConnection takes back the  *)
(* registration first.  So does a shutdown, which does not.                *)
CloseTimeout(s) ==
    /\ round \in {"tick", "shutdown"} /\ conn[s] # NoConn
    /\ IF round = "tick" /\ conn[s].connecting
       THEN Becomes(unregisterWrite(State, conn[s].fd))
       ELSE UNCHANGED fds
    /\ Closed(s)
    /\ UNCHANGED <<w, r>>

-----------------------------------------------------------------------------
(* The ready descriptors, lowest first, those ready for writing before     *)
(* those ready for reading.                                                *)

NextWrite(s) ==
    /\ round = "ready" /\ w # {} /\ conn[s].fd = Min(w)
    /\ w' = w \ {Min(w)}
    /\ UNCHANGED r

NextRead(s) ==
    /\ round = "ready" /\ w = {} /\ r # {} /\ conn[s].fd = Min(r)
    /\ r' = r \ {Min(r)}
    /\ UNCHANGED w

(* writeConnection: connected, with TLS or without.                        *)
ReadyConnected(s) ==
    /\ NextWrite(s) /\ conn[s].connecting
    /\ \E t \in BOOLEAN :
          Update(s, [conn[s] EXCEPT !.connecting = FALSE, !.tlswrite = t])

(* writeConnection of a connection that is up: a TLS operation goes on, a  *)
(* record is written, or only a part of one.                               *)
ReadyWrite(s) ==
    /\ NextWrite(s) /\ ~conn[s].connecting
    /\ \E t \in BOOLEAN, n \in {conn[s].nrecs, conn[s].nrecs - 1} :
          /\ n >= 0
          /\ Update(s, [conn[s] EXCEPT !.tlswrite = t, !.nrecs = n])

(* readConnection: data, or a TLS operation goes on.                       *)
ReadyRead(s) ==
    /\ NextRead(s)
    /\ \E t \in BOOLEAN : Update(s, [conn[s] EXCEPT !.tlswrite = t])

(* Either of them finds an error and closes the connection.                *)
ReadyClose(s) ==
    /\ NextWrite(s) \/ NextRead(s)
    /\ Closed(s)
    /\ UNCHANGED fds

(* The handlers of a connection closed in this round find an error again.  *)
ReadyDying ==
    /\ round = "ready"
    /\ \/ w # {} /\ Min(w) \in dying /\ w' = w \ {Min(w)} /\ UNCHANGED r
       \/ w = {} /\ r # {} /\ Min(r) \in dying /\ r' = r \ {Min(r)}
          /\ UNCHANGED w
    /\ UNCHANGED <<fds, conn, dying, round, shared>>

-----------------------------------------------------------------------------
(* The loop.                                                               *)

(* The handlers are done: the loop raises eventsDone.                      *)
RoundDone ==
    /\ round # "wait"
    /\ round = "ready" => w = {} /\ r = {}
    /\ round' = "wait"
    /\ UNCHANGED <<fds, conn, dying, w, r, shared>>

(* mutant: only the registration for writing is taken back *)
unregisterWriteOnly(f, fd) == unregisterWrite(f, fd)

unregister(f, fd) == unregisterWrite(unregisterRead(f, fd), fd)

(* deleteConnection of a closed connection.                                *)
Destroy(fd) ==
    /\ round = "wait" /\ fd \in dying
    /\ Becomes(unregister(State, fd))
    /\ dying' = dying \ {fd}
    /\ UNCHANGED <<conn, round, w, r, shared>>

(* All that is left of the round is pselect.                               *)
Selecting == round = "wait" /\ dying = {}

(* pselect returns with a tick, a shutdown request or ready descriptors    *)
(* below nfds.                                                             *)
Pselect ==
    /\ Selecting
    /\ \/ round' \in {"tick", "shutdown"} /\ UNCHANGED <<w, r>>
       \/ /\ round' = "ready"
          /\ w' \in SUBSET {fd \in writefds : fd < nfds}
          /\ r' \in SUBSET {fd \in readfds : fd < nfds}
          /\ w' \cup r' # {}
    /\ UNCHANGED <<fds, conn, dying, shared>>

Next ==
    \/ \E s \in Servers :
          \/ Create(s) \/ Write(s) \/ CloseTimeout(s)
          \/ ReadyConnected(s) \/ ReadyWrite(s) \/ ReadyRead(s) \/ ReadyClose(s)
    \/ \E fd \in Fds : Destroy(fd)
    \/ ReadyDying \/ RoundDone \/ Pselect

Spec == Init /\ [][Next]_vars

-----------------------------------------------------------------------------
(* Properties.                                                             *)

(* nread, nwrite and nfds are what the sets say, however descriptors come  *)
(* and go: pselect looks at every registered descriptor, and not beyond.   *)
(* Every variable has its type.                                            *)
CountsExact ==
    /\ TypeOK
    /\ nread = Cardinality(readfds)
    /\ nwrite = Cardinality(writefds)
    /\ nfds = Max(readfds \cup writefds \cup {NoFd}) + 1

(* pselect never gets a descriptor that is closed, on which it would fail  *)
(* and end the service loop.                                               *)
NoClosedFd == Selecting => readfds \cup writefds \subseteq Used

(* A connection is watched for exactly what it waits for: for its connect, *)
(* for data, and for writing only when there is something to write.  Not   *)
(* so one that got its descriptor in the round in which another with the   *)
(* same descriptor was closed: destroying that one takes its registration. *)
Watched ==
    \A s \in Live \ shared :
        Selecting =>
            /\ conn[s].fd \in writefds <=> WantsWrite(conn[s])
            /\ ~conn[s].connecting => conn[s].fd \in readfds
=============================================================================
