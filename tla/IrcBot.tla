------------------------------- MODULE IrcBot -------------------------------
(***************************************************************************)
(* The bot (ircbot.c) from IrcBot_addHandler to the end of daemonrun: it   *)
(* finds the handler for what servers and channels report, has a worker of *)
(* the pool execute it, and takes everything down when the service loop    *)
(* (service.c) ends.  Log lines (log.c) are jobs of the same pool.  The    *)
(* replies of a handler are left out.                                      *)
(*                                                                         *)
(* The pool is used through the specification JobPool, which ThreadPool    *)
(* implements, and servers through ServerSessions, which IrcServer         *)
(* implements.  Every channel was added with IrcServer_join before the bot *)
(* was run.                                                                *)
(***************************************************************************)
EXTENDS Integers, Sequences, SequencesExt, FiniteSetsExt

CONSTANTS
    Servers,      \* the ids of the servers, in the order of IrcBot_addServer
    ChannelsOf,   \* the channels of each server
    Nick,         \* the nick of the bot
    Words,        \* first words of messages, and nicks of users
    NoWord,       \* no first word, or one of 64 bytes or more
    Registrable,  \* the handlers IrcBot_addHandler can be given
    Levels,       \* the levels of log lines that are written
    Workers, Length,  \* of the pool
    MaxHandlers, MaxJobs, MaxJoins, MaxQuit,  \* bounds
    RunWith       \* bound: lists of handlers with which a startup succeeds

ASSUME BoundsAssumption ==
    {MaxHandlers, MaxJobs, MaxJoins, MaxQuit} \subseteq Nat
ASSUME LevelsAssumption == Levels \subseteq {"ERROR", "WARNING", "INFO"}
ASSUME PoolAssumption == Workers \in Nat \ {0} /\ Length \in Nat

Null == "null"
ORIGIN_PRIVATE == ":"
ORIGIN_CHANNEL == "#"
Types == {"BOTCOMMAND", "PRIVMSG", "CONNECTED", "CHANJOINED", "JOINED", "PARTED"}
Jobs == 1..MaxJobs
ServerIds == ToSet(Servers)
Places == UNION {{s} \X ChannelsOf[s] : s \in ServerIds}

(* The argument of a job: none, a log line, one that was freed, or else a  *)
(* handler and its event, of which only the server matters after the       *)
(* handler was chosen.                                                     *)
NoArg == "none"
LogArg == "log"
Freed == "freed"
Allocated == {LogArg} \cup ServerIds

ASSUME ServersAssumption == Servers \in Seq(ServerIds)
(* No name is taken for one of another kind; no channel is called "#".     *)
ASSUME NamesAssumption ==
    /\ {NoArg, LogArg, Freed} \cap ServerIds = {}
    /\ \A s \in ServerIds :
          ChannelsOf[s] \cap {Nick, Null, ORIGIN_PRIVATE, ORIGIN_CHANNEL} = {}
    /\ Nick \notin {Null, ORIGIN_PRIVATE, ORIGIN_CHANNEL}
    /\ Null \notin Words \cup {NoWord} /\ NoWord \notin Words

VARIABLES
    phase,     \* "setup", then how far daemonrun is, see Phases
    why,       \* why the loop ended
    handlers,  \* the list of handlers
    link,      \* the servers' connections
    joins,     \* registrations of userJoined and userParted
    raised,    \* arguments of the jobs main has yet to enqueue in an event
    arg,       \* the argument of every job
    completed, \* hasCompleted of a job
    st, pending,   \* the pool
    done,      \* the job threadJobDone is working on, or 0
    ref,       \* shutdownRef
    locks,     \* registrations of shutdownok
    quits,     \* shutdown requests so far
    stale      \* history: servers that used an event after it was destroyed,
               \* one of the service or one of their own

bot == <<handlers, joins, raised, arg, completed>>
pool == <<st, pending, done>>
stop == <<ref, locks, quits>>
vars == <<phase, why, link, bot, pool, stop, stale>>

Pool == INSTANCE JobPool WITH Gap <- 0
Sessions == INSTANCE ServerSessions WITH Ids <- ServerIds

(* setup, Service_run, ThreadPool_done, and the end of daemonrun           *)
Phases == {"setup", "loop", "pool", "end"}

(* What servers and channels report; for a message, to whom, whether it    *)
(* starts with an exclamation mark, and its first word.                    *)
Reports ==
    UNION {[type : {"MSG"}, server : {s}, origin : ChannelsOf[s] \cup {Nick},
            bang : BOOLEAN, filter : Words \cup {NoWord}]
           \cup [type : {"JOINED", "PARTED"}, server : {s}, origin : ChannelsOf[s],
                 filter : Words]
           \cup [type : {"CHANJOINED"}, server : {s}, origin : ChannelsOf[s],
                 filter : {Null}]
           \cup [type : {"CONNECTED"}, server : {s}, origin : {Null},
                 filter : {Null}] : s \in ServerIds}

(* Every variable has its type.                                            *)
TypeOK ==
    /\ phase \in Phases
    /\ why \in {"", "unlocked", "timeout", "panic", "pselect", "failed"}
    /\ handlers \in Seq(Registrable) /\ Len(handlers) <= MaxHandlers
    /\ link \in [ServerIds -> {"none", "pending", "in"}]
    /\ joins \in [Places -> 0..MaxJoins]
    /\ raised \in Seq(Allocated)
    /\ arg \in [Jobs -> {NoArg, Freed} \cup Allocated]
    /\ completed \in [Jobs -> BOOLEAN]
    /\ pending \in Seq(Jobs) /\ done \in 0..MaxJobs
    /\ ref \in -1..Len(Servers)
    /\ locks \in [ServerIds -> 0..MaxQuit]
    /\ quits \in 0..MaxQuit
    /\ stale \subseteq ServerIds \X {"service", "own"}

Init ==
    /\ phase = "setup" /\ why = ""
    /\ handlers = <<>>
    /\ link = [s \in ServerIds |-> "none"]
    /\ joins = [p \in Places |-> 0]
    /\ raised = <<>>
    /\ arg = [j \in Jobs |-> NoArg]
    /\ completed = [j \in Jobs |-> TRUE]
    /\ Pool!Init /\ done = 0
    /\ ref = -1 /\ locks = [s \in ServerIds |-> 0] /\ quits = 0
    /\ stale = {}

IrcBot_addHandler(h) ==
    /\ phase = "setup" /\ Len(handlers) < MaxHandlers
    /\ handlers' = Append(handlers, h)
    /\ UNCHANGED <<phase, why, link, joins, raised, arg, completed, pool, stop,
                   stale>>

(* IBLog_msg makes no job of a line of a higher level than maxlevel.       *)
Line(level) == IF level \in Levels THEN <<LogArg>> ELSE <<>>

(* startup: IrcServer_connect for one server after the other; it fails for *)
(* the server after the first n, or startupfunc fails.  Service_run logs   *)
(* that the service has started.                                           *)
startup(n, rc) ==
    /\ phase = "setup"
    /\ Sessions!Open({Servers[i] : i \in 1..n})
    /\ phase' = IF rc THEN "loop" ELSE "pool"
    /\ why' = IF rc THEN "" ELSE "failed"
    /\ raised' = IF rc THEN Line("INFO") ELSE <<>>
    /\ UNCHANGED <<handlers, joins, arg, completed, pool, ref, locks, stale>>

Startup ==
    \/ handlers \in RunWith /\ startup(Len(Servers), TRUE)
    \/ \E n \in 0..Len(Servers) : startup(n, FALSE)

(* The main thread is in the loop, between two events.                     *)
Waiting == phase = "loop" /\ raised = <<>> /\ done = 0

(* The bound leaves n jobs, and one for the line logged at the end.        *)
Room(n) == Cardinality({j \in Jobs : st[j] = "new"}) > n

-----------------------------------------------------------------------------
(* The choice of a handler.                                                *)

(* A field of a handler that is Null accepts everything.                   *)
Accepts(field, value) == field = Null \/ field = value

(* mutant: the last handler wins *)
FirstOfLast(is) == Max(is \cup {0})

(* findHandler stops at the first match.                                   *)
FirstOf(is) == IF is = {} THEN 0 ELSE Min(is)

findHandler(type, server, origin, filter) ==
    FirstOf({i \in DOMAIN handlers :
               /\ handlers[i].type = type
               /\ Accepts(handlers[i].serverId, server)
               /\ Accepts(handlers[i].origin, origin)
               /\ Accepts(handlers[i].filter, filter)})

(* msgReceived looks for the name first, then for any origin of its kind.  *)
findForMsg(type, r, filter) ==
    LET named == findHandler(type, r.server, r.origin, filter)
        kind == IF r.origin \in ChannelsOf[r.server]
                THEN ORIGIN_CHANNEL ELSE ORIGIN_PRIVATE
    IN  IF named # 0 THEN named ELSE findHandler(type, r.server, kind, filter)

(* A command is what starts with "!" or is sent privately, and has a word. *)
IsCommand(r) == (r.bang \/ r.origin \notin ChannelsOf[r.server]) /\ r.filter # NoWord

(* msgReceived: the type of the event it creates, and the handler, or 0.   *)
ChosenForMsg(r) ==
    LET cmd == IF IsCommand(r) THEN findForMsg("BOTCOMMAND", r, r.filter) ELSE 0
    IN  IF cmd # 0 THEN [type |-> "BOTCOMMAND", hdl |-> cmd]
        ELSE [type |-> "PRIVMSG", hdl |-> findForMsg("PRIVMSG", r, Null)]

(* The same for userJoined, userParted, chanJoined and connected.          *)
Chosen(r) ==
    IF r.type = "MSG" THEN ChosenForMsg(r)
    ELSE [type |-> r.type, hdl |-> findHandler(r.type, r.server, r.origin, r.filter)]

-----------------------------------------------------------------------------
(* What happens to servers and channels.                                   *)

(* n calls with the same report: what findHandler finds is executed.       *)
Raise(r, n) ==
    /\ Room(n)
    /\ raised' = IF Chosen(r).hdl = 0 THEN <<>> ELSE [i \in 1..n |-> r.server]
    /\ UNCHANGED <<phase, why, handlers, arg, completed, pool, stop, stale>>

(* A server is logged in: its connected event.                             *)
LoggedIn(s) ==
    /\ Waiting /\ Sessions!LogIn(s)
    /\ Raise([type |-> "CONNECTED", server |-> s, origin |-> Null, filter |-> Null], 1)
    /\ UNCHANGED joins

(* The bot has joined a channel: chanJoined registers userJoined and       *)
(* userParted.                                                             *)
ChanJoined(s, c) ==
    /\ Waiting /\ link[s] = "in" /\ joins[<<s, c>>] < MaxJoins
    /\ joins' = [joins EXCEPT ![<<s, c>>] = @ + 1]
    /\ Raise([type |-> "CHANJOINED", server |-> s, origin |-> c, filter |-> Null], 1)
    /\ UNCHANGED link

(* A user enters or leaves: one call for every registration.               *)
UserMoves(s, c, type, n) ==
    /\ Waiting /\ link[s] = "in" /\ joins[<<s, c>>] > 0
    /\ Raise([type |-> type, server |-> s, origin |-> c, filter |-> n], joins[<<s, c>>])
    /\ UNCHANGED <<link, joins>>

(* msgReceived, with two parameters; with others it does nothing.          *)
MsgReceived(s, to, bang, word) ==
    /\ Waiting /\ link[s] # "none"
    /\ Raise([type |-> "MSG", server |-> s, origin |-> to, bang |-> bang,
              filter |-> word], 1)
    /\ UNCHANGED <<link, joins>>

(* The main thread logs something else.                                    *)
LogLine ==
    /\ Waiting /\ Room(1) /\ Line("INFO") # <<>>
    /\ raised' = Line("INFO")
    /\ UNCHANGED <<phase, why, link, handlers, joins, arg, completed, pool, stop,
                   stale>>

(* A connection is opened again, but not once a shutdown was requested.    *)
Reconnect(s) ==
    /\ Waiting /\ Sessions!Open({s})
    /\ UNCHANGED <<phase, why, bot, pool, ref, locks, stale>>

-----------------------------------------------------------------------------
(* Jobs.                                                                   *)

(* The next job the bot creates.                                           *)
Fresh == Min({j \in Jobs : st[j] = "new"})

(* mutant: a free worker is overlooked *)
EnqueueAnyway(j) == Pool!Assign(j) \/ Pool!Wait(j) \/ Pool!Refuse(j)

(* Main hands a job to a worker that is free; the job waits if there is    *)
(* none, even if others that wait are log lines of handlers.               *)
ThreadPool_enqueue(j) ==
    \/ Pool!Assign(j)
    \/ /\ Cardinality(Pool!UnderWay) = Workers
       /\ Pool!Wait(j) \/ Pool!Refuse(j)

(* executeHandler and IBLog_msg: the result of ThreadPool_enqueue is not   *)
(* looked at.                                                              *)
Dispatch ==
    /\ raised # <<>> /\ Room(0)
    /\ ThreadPool_enqueue(Fresh)
    /\ arg' = [arg EXCEPT ![Fresh] = Head(raised)]
    /\ raised' = Tail(raised)
    /\ UNCHANGED <<phase, why, link, handlers, joins, completed, done, stop, stale>>

-----------------------------------------------------------------------------
(* The workers.                                                            *)

PoolRuns == phase \in {"loop", "pool"}

WorkerStarts(j) ==
    /\ PoolRuns /\ Pool!Execute(j)
    /\ UNCHANGED <<phase, why, link, bot, done, stop, stale>>

IsHandlerJob(j) == arg[j] \in ServerIds

(* The handler logs something: only main hands a job to a worker at once.  *)
WorkerLogs(j) ==
    /\ st[j] = "executing" /\ IsHandlerJob(j) /\ Line("INFO") # <<>>
    /\ Room(1 + Len(raised))
    /\ Pool!Wait(Fresh) \/ Pool!Refuse(Fresh)
    /\ arg' = [arg EXCEPT ![Fresh] = LogArg]
    /\ UNCHANGED <<phase, why, link, handlers, joins, raised, completed, done,
                   stop, stale>>

(* The handler returns; logmsgJobProc frees its argument, unless writing   *)
(* the line panics.                                                        *)
WorkerReturns(j) ==
    /\ PoolRuns /\ Pool!Return(j)
    /\ \/ ~IsHandlerJob(j) /\ arg' = [arg EXCEPT ![j] = Freed]
       \/ UNCHANGED arg
    /\ UNCHANGED <<phase, why, link, handlers, joins, raised, completed, done,
                   stop, stale>>

(* checkThreadJobs: the time of a job is over.  It goes on until it        *)
(* returns, or has returned already, but does not count as completed.      *)
Timeout(j) ==
    /\ Waiting /\ j \in Pool!UnderWay /\ completed[j]
    /\ completed' = [completed EXCEPT ![j] = FALSE]
    /\ UNCHANGED <<phase, why, link, handlers, joins, raised, arg, pool, stop,
                   stale>>

(* What handlerJobFinished logs: that the handler timed out, or else that  *)
(* one of its replies, at most, was refused by IrcServer_sendMsg.          *)
Complaints(j) ==
    IF ~completed[j] THEN {Line("WARNING")} ELSE {<<>>, Line("ERROR")}

(* threadJobDone, with handlerJobFinished unless the job was a log line.   *)
Finish(j) ==
    /\ Waiting /\ st[j] = "executed" /\ arg[j] # LogArg
    /\ done' = j
    /\ arg' = [arg EXCEPT ![j] = NoArg]
    /\ raised' \in IF IsHandlerJob(j) THEN Complaints(j) ELSE {<<>>}
    /\ completed' = [completed EXCEPT ![j] = TRUE]
    /\ UNCHANGED <<phase, why, link, handlers, joins, st, pending, stop, stale>>

(* mutant: dequeueJob leaves a single job waiting *)
DequeuedLate == IF Len(pending) > 1 THEN {Head(pending)} ELSE {}

(* What dequeueJob takes from the queue.                                   *)
Dequeued == IF pending # <<>> THEN {Head(pending)} ELSE {}

(* The end of threadJobDone: the job is destroyed, its name is free, and   *)
(* its worker gets the next one.                                           *)
NextJob ==
    /\ done # 0 /\ raised = <<>>
    /\ st' = [j \in Jobs |-> IF j = done THEN "new"
                            ELSE IF j \in Dequeued THEN "assigned" ELSE st[j]]
    /\ pending' = IF Dequeued = {} THEN pending ELSE Tail(pending)
    /\ done' = 0
    /\ UNCHANGED <<phase, why, link, handlers, joins, raised, arg, completed, stop,
                   stale>>

-----------------------------------------------------------------------------
(* The end of the loop.                                                    *)

(* Service_run returns; the last log line is a job, unless the loop ends   *)
(* by a panic, which makes logging synchronous.                            *)
LoopEnds(reason) ==
    /\ phase' = "pool" /\ why' = reason
    /\ raised' = IF reason = "panic" THEN <<>> ELSE Line("INFO")

(* A handler or a log line panics: threadJobDone leaves the loop.          *)
Panic(j) ==
    /\ Waiting /\ arg[j] # Freed
    /\ Pool!Finish(j) /\ st'[j] = "panicked"
    /\ LoopEnds("panic")
    /\ UNCHANGED <<link, handlers, joins, arg, completed, done, stop, stale>>

(* mutant: the first server that is disconnected ends the loop *)
UnlockAll(n) == 0

(* shutdownRef after n calls of Service_shutdownUnlock.                    *)
Service_shutdownUnlock(n) == IF ref > 0 THEN Max({0, ref - n}) ELSE ref

(* The disconnected event of a server: every shutdownok is unregistered    *)
(* and unlocks.                                                            *)
Disconnected(s) ==
    /\ Waiting /\ Sessions!Disconnect(s)
    /\ locks' = [locks EXCEPT ![s] = 0]
    /\ ref' = IF locks[s] > 0 THEN Service_shutdownUnlock(locks[s]) ELSE ref
    /\ UNCHANGED <<phase, why, bot, pool, stale>>

(* The loop finds shutdownRef to be 0, once it has served the descriptors. *)
Unlocked ==
    /\ Waiting /\ ref = 0
    /\ LoopEnds("unlocked")
    /\ UNCHANGED <<link, handlers, joins, arg, completed, pool, stop, stale>>

(* The servers shutdown leaves locked: a connection that is not logged in  *)
(* is closed at once, and unlocks.                                         *)
Locked == {s \in ServerIds : link[s] # "pending"}

(* shutdown, with IrcServer_disconnect: QUIT is sent to the others.        *)
Shutdown ==
    /\ Waiting /\ ref # 0 /\ quits < MaxQuit
    /\ Sessions!Shutdown
    /\ ref' = Cardinality(Locked)
    /\ locks' = [s \in ServerIds |-> IF s \in Locked THEN locks[s] + 1 ELSE 0]
    /\ \/ ref' = 0 /\ LoopEnds("unlocked")
       \/ ref' # 0 /\ UNCHANGED <<phase, why, raised>>
    /\ UNCHANGED <<handlers, joins, arg, completed, pool, stale>>

(* mutant: the time is not limited *)
ExpiredNever == FALSE

(* shutdownTicks have passed since the last request.                       *)
Expired == quits > 0

ShutdownTimeout ==
    /\ Waiting /\ ref # 0 /\ Expired
    /\ LoopEnds("timeout")
    /\ UNCHANGED <<link, handlers, joins, arg, completed, pool, stop, stale>>

(* pselect fails for another reason than a signal the service handles; one *)
(* more line is logged.                                                    *)
PselectFails ==
    /\ Waiting /\ ref # 0 /\ Room(1)
    /\ phase' = "pool" /\ why' = "pselect"
    /\ raised' = Line("ERROR") \o Line("INFO")
    /\ UNCHANGED <<link, handlers, joins, arg, completed, pool, stop, stale>>

-----------------------------------------------------------------------------
(* The end of daemonrun.                                                   *)

(* mutant: ThreadPool_done does not wait for its workers *)
WorkersGoneAnyway == TRUE

(* ThreadPool_done waits for every worker that has a job to execute it; it *)
(* waits for ever if the worker has not yet got the signal to start.       *)
WorkersGone == \A j \in Jobs : st[j] \notin {"assigned", "executing"}

(* What a server uses after it was destroyed: the events of the service if *)
(* it has a connection, and, for each channel, its own msgReceived.        *)
UsedStale ==
    {<<s, "service">> : s \in {s \in ServerIds : link[s] # "none"}}
    \cup {<<s, "own">> : s \in {s \in ServerIds : ChannelsOf[s] # {}}}

(* ThreadPool_done, Service_done, and the lists are destroyed.             *)
ThreadPool_done ==
    /\ phase = "pool" /\ raised = <<>> /\ WorkersGone
    /\ phase' = "end"
    /\ Pool!Close
    /\ stale' = UsedStale
    /\ handlers' = <<>>
    /\ joins' = [p \in Places |-> 0]
    /\ UNCHANGED <<why, link, raised, arg, completed, done, stop>>

(* The process has ended.                                                  *)
Ended == phase = "end" /\ UNCHANGED vars

-----------------------------------------------------------------------------
Next ==
    \/ \E h \in Registrable : IrcBot_addHandler(h)
    \/ Startup
    \/ \E s \in ServerIds : LoggedIn(s) \/ Reconnect(s) \/ Disconnected(s)
    \/ \E s \in ServerIds : \E c \in ChannelsOf[s] :
          \/ ChanJoined(s, c)
          \/ \E type \in {"JOINED", "PARTED"}, n \in Words : UserMoves(s, c, type, n)
    \/ \E s \in ServerIds, bang \in BOOLEAN, word \in Words \cup {NoWord} :
          \E to \in ChannelsOf[s] \cup {Nick} : MsgReceived(s, to, bang, word)
    \/ LogLine \/ Dispatch
    \/ \E j \in Jobs : \/ WorkerStarts(j) \/ WorkerLogs(j)
                       \/ WorkerReturns(j) \/ Timeout(j) \/ Finish(j) \/ Panic(j)
    \/ NextJob
    \/ Shutdown \/ Unlocked \/ ShutdownTimeout \/ PselectFails
    \/ ThreadPool_done \/ Ended

Spec == Init /\ [][Next]_vars

(* The main thread serves every descriptor that is ready and every tick,   *)
(* however many there are, and handlers return.  Nothing makes a worker    *)
(* start: the signal is lost to one that does not wait for it yet.         *)
FairSpec ==
    /\ Spec
    /\ WF_vars(Dispatch) /\ WF_vars(ThreadPool_done)
    /\ WF_vars(NextJob) /\ SF_vars(Unlocked \/ ShutdownTimeout)
    /\ \A j \in Jobs : /\ WF_vars(WorkerReturns(j))
                       /\ SF_vars(Finish(j) \/ Panic(j))

-----------------------------------------------------------------------------
(* Properties.                                                             *)

(* IrcBot_addHandler's documentation of an origin and of a filter.         *)
OriginFits(h, r) ==
    \/ Accepts(h.origin, r.origin)
    \/ h.origin = ORIGIN_CHANNEL /\ r.origin \in ChannelsOf[r.server]
    \/ h.origin = ORIGIN_PRIVATE /\ r.origin = Nick
Fits(h, type, r) ==
    /\ h.type = type /\ Accepts(h.serverId, r.server) /\ OriginFits(h, r)
    /\ h.filter = Null \/ (type # "PRIVMSG" /\ h.filter = r.filter)
ByKind(h) == h.origin \in {ORIGIN_CHANNEL, ORIGIN_PRIVATE}
FitsCommand(h, r) == r.type = "MSG" /\ IsCommand(r) /\ Fits(h, "BOTCOMMAND", r)

(* The best handler for an event was registered for just this event; of    *)
(* two that fit, the one that names the channel goes before one for a kind *)
(* of origin, then the one registered first; and a message is given to a   *)
(* PRIVMSG handler only if no command handler fits it (msgReceived).       *)
Best(r, hdl, type) ==
    LET h == handlers[hdl]
    IN  /\ Fits(h, type, r)
        /\ \A i \in DOMAIN handlers : Fits(handlers[i], type, r) =>
              IF ByKind(handlers[i]) THEN ByKind(h) => i >= hdl
              ELSE ~ByKind(h) /\ i >= hdl
        /\ type = "PRIVMSG" =>
              ~\E i \in DOMAIN handlers : FitsCommand(handlers[i], r)

(* An event that is dropped has no handler that fits, except one for       *)
(* ORIGIN_CHANNEL: only msgReceived looks for those, not the functions for *)
(* channels and their users.                                               *)
Unwanted(r) ==
    \A i \in DOMAIN handlers :
        LET h == handlers[i]
        IN  IF r.type = "MSG" THEN ~FitsCommand(h, r) /\ ~Fits(h, "PRIVMSG", r)
            ELSE h.origin = ORIGIN_CHANNEL \/ ~Fits(h, r.type, r)

(* Whatever handlers are registered, in whatever order, and whatever is    *)
(* reported, findHandler and its callers choose the best handler, or none  *)
(* if the event is unwanted.                                               *)
RightHandler ==
    phase = "setup" => \A r \in Reports :
        IF Chosen(r).hdl # 0 THEN Best(r, Chosen(r).hdl, Chosen(r).type)
        ELSE Unwanted(r)

(* What a worker is going to use is allocated, and so is what              *)
(* handlerJobFinished is going to use, which is all that a handler had: a  *)
(* timeout, the end of the loop and the destruction of the lists never     *)
(* free it first.  Only logmsgJobProc frees its own.  And memory that      *)
(* nobody will free belongs to jobs that were refused, as neither          *)
(* executeHandler nor IBLog_msg looks at what ThreadPool_enqueue returns,  *)
(* or to jobs that a panic or the end of the loop has left behind.  Every  *)
(* variable has its type.                                                  *)
ArgumentLives ==
    /\ TypeOK
    /\ \A j \in Jobs :
          /\ st[j] \in {"waiting", "assigned", "executing"} => arg[j] \in Allocated
          /\ st[j] = "executed" /\ j # done => arg[j] \in {Freed} \cup Allocated
          /\ st[j] \in {"assigned", "executing"} => phase \in {"loop", "pool"}
          /\ arg[j] \in Allocated =>
                \/ st[j] \in {"waiting", "assigned", "executing", "executed", "refused"}
                \/ phase # "loop" /\ st[j] \in {"panicked", "dropped"}
          /\ phase = "end" => st[j] \in {"new", "executed", "refused", "panicked", "dropped"}

(* The servers are destroyed after the events of the service, which they   *)
(* use if they still have a connection.  One shutdown request that ends in *)
(* time leaves no connection.  A timeout, a panic, a failed pselect or a   *)
(* failed startup does, and so do two requests: every server is locked     *)
(* twice but the count starts again, and the first one that is             *)
(* disconnected unlocks twice.  (Events of its own a server uses after     *)
(* their destruction at every end, if it has a channel.)                   *)
NoStaleUse ==
    (\E s \in ServerIds : <<s, "service">> \in stale) =>
        why \in {"timeout", "panic", "pselect", "failed"} \/ quits > 1

(* The jobs of handlers that wait, and were created before job j.          *)
Ahead(j) ==
    {pending[i] : i \in {i \in DOMAIN pending :
                            IsHandlerJob(pending[i]) /\ \A m \in 1..i : pending[m] # j}}

(* Handlers start in the order of the events they were found for: when a   *)
(* job of one is given to a worker, by executeHandler or by threadJobDone, *)
(* none that was created before still waits, although main passes the      *)
(* queue when a worker is free, and log lines of handlers wait in the same *)
(* queue.                                                                  *)
HandlersInOrder ==
    [][\A j \in Jobs : arg'[j] \in ServerIds /\ st[j] # "assigned" /\ st'[j] = "assigned"
          => Ahead(j) = {}]_vars

(* No worker misses the signal to start the job it was given.              *)
NoLostStart == \A j \in Jobs : WF_vars(WorkerStarts(j))

(* A job that waits or that a worker was given is finished, unless the     *)
(* loop ends, if no start is lost: each job that ends takes another one    *)
(* from the queue, and nothing else would.                                 *)
Served ==
    NoLostStart =>
        \A j \in Jobs : st[j] \in {"waiting", "assigned"} ~> st[j] = "new" \/ phase # "loop"

(* After a shutdown request the loop ends, whatever servers, handlers and  *)
(* workers do, and daemonrun returns if no start is lost.                  *)
Stops ==
    /\ quits > 0 ~> phase # "loop"
    /\ NoLostStart => (quits > 0 ~> phase = "end")
=============================================================================
