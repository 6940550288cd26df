# libircbot in TLA+

libircbot is a C library for IRC bots. One main thread runs an event loop; it
drives connections to IRC servers, the state of servers and channels, and the
timeouts of all of them. A pool of worker threads executes the bot's handlers,
name lookups and log writers. The program can run as a daemon with a pidfile.

This directory holds specifications of these parts, TLC configurations that
check them on small instances, and TLAPS proofs. `PROJECT.json` maps every
definition to the lines it models and lists runs, mutants, findings, hazards
and theorems.

## The system

| Component | Source | State | Operations |
|---|---|---|---|
| Service loop | `service.c` | descriptor sets, `nfds`, `shutdownRef`, `shutdownTicks`, events | `Service_run` (eventsDone, pselect, tick, shutdown, ready descriptors), register/unregister, lock/unlock of a shutdown, panic |
| Events | `event.c` | a list of handlers, with holes | register (squeezes holes out), unregister (leaves a hole), raise (walks by index) |
| Thread pool | `threadpool.c` | threads with two mutex/condition pairs and a pipe each, ring of waiting jobs | enqueue, cancel, job done, timeouts by tick, init, done |
| Connection | `connection.c` | descriptor, `connecting`, TLS state, ring of write records, `deleteScheduled` | create, write, close, deferred destroy, handlers for ready descriptors |
| TCP client | `client.c` | blacklist of addresses | create a connection, skip blacklisted addresses |
| IRC server | `ircserver.c` | `connst`, `conn`, `sendQueue`, `sending`, credit, tick counters | connect, login, send, ping, reconnect, disconnect |
| IRC channel | `ircchannel.c` | `isJoined`, `wantJoined`, two tick counters, `nicks` | join, part, messages about the channel, rejoin after kick, timeout, disconnect |
| Bot | `ircbot.c` | servers, handlers | register handlers, startup, choice of a handler, handler jobs, shutdown, teardown |
| Messages and commands | `ircmessage.c`, `irccommand.c`, `connDataReceived` | `recvbuf`, `recvbufsz` | find and take apart messages in what is received |
| Daemon | `daemon.c` | pidfile and its lock | `openpidfile`, two forks, hand-over of the lock |
| Queue | `queue.c` | ring of objects that grows | create, enqueue, dequeue, destroy |
| Hash table | `hashtable.c` | chains of entries, count | set, delete, get, destroy, iterator |
| List | `list.c` | array that grows | append, remove, remove all that match, destroy, iterator |
| Log | `log.c` | writer, level, asynchronous or not | a line is written, or is a job of the pool |
| Strings and utilities | the other files | | |

How they interact: every main-thread component reacts to events that the
service loop raises. Handlers call each other directly and through further
events: a closed connection raises `closed`, the server raises `disconnected`,
and its channels and the shutdown code react, all in one step of the loop.
Between threads there are only the pool's locks, conditions and pipes, and the
fields of `ThreadJob`. Between processes there is the pidfile.

What is hard about it: wakeups between main and workers and who frees a job;
timeouts that race with the end of a job; handlers that register and
unregister each other in the list that is being walked; connections that are
closed in one step and destroyed in another; several tick handlers that take
turns (pending, tls, login, active, reconnect; waitjoin, waitrejoin) and must
never be missing or there twice; answers that come after the bot gave up; a
shutdown that must end whatever remotes do; locks that fork does not inherit.

## The modules

| Module | Models | Kind |
|---|---|---|
| `ThreadPool` | `threadpool.c` | one action per stretch of code between two points where another thread can interfere |
| `JobPool` | the pool's promise | abstract specification: a bounded first-in-first-out pool; the mapping to it is at the end of `ThreadPool` |
| `ThreadPoolProofs` | | inductive invariant and ten theorems |
| `MCThreadPool` | | symmetry of the instances |
| `EventList`, `EventListProofs` | `event.c` | operators on a list of handlers, used by the next two; what they do to it, as two theorems |
| `IrcServer`, `IrcServerProofs` | `ircserver.c` with `connection.c`, `client.c`, `service.c` and the shutdown code of `ircbot.c` | one action per event of the loop; a tick handler by handler; four theorems |
| `ServerSessions` | what servers promise to the bot | abstract specification: a connection is pending, logged in or none; the mapping to it is in `IrcServer`, and `IrcBot` is built on it |
| `IrcChannel`, `IrcChannelProofs` | `ircchannel.c`, `IrcServer_join`, `IrcServer_part`, `chanJoined` | the same, with the network's side of one channel; three theorems |
| `FdSets`, `FdSetsProofs` | descriptor registration of `service.c`, as used by `connection.c` | several servers, one action per handler; three theorems |
| `IrcMessage`, `RecvBuffer` | `ircmessage.c`, `irccommand.c`, the receive buffer of `ircserver.c` | the parser as operators on sequences of bytes; one action per read |
| `IrcBot`, `IrcBotProofs` | `ircbot.c`, with `log.c` and the end of `service.c` | one action per event of the bot; the pool is an instance of `JobPool`, its servers of `ServerSessions`; four theorems |
| `IBQueue` | `queue.c` | one action per function |
| `HashTable`, `KeyMap` | `hashtable.c` | one action per function, and the abstract map it implements |
| `IBList` | `list.c` | one action per function |
| `DataProofs` | | the queue, the hash table, the list and the receive buffer; ten theorems |
| `PidFile`, `PidFileProofs` | `daemon.c` | one action per system call on the pidfile; four theorems |
| `MC...` | | instances for TLC and their symmetry |

### ThreadPool

Main's program counter `mpc` and the workers' `wpc` name the points where the
code blocks or another thread can get in between; the header comment lists
them. A lock that is taken and released in one stretch is not a variable.
`calls`, `ended` and `raised` are histories: how often a job's procedure was
called, returned, and its `finished` event was raised. `Submit` and
`WorkerEnqueue` are `ThreadPool_enqueue` on main and on a worker (an
asynchronous log line); main may also submit from inside a `finished` handler
(`ret` says where it goes on).

Assumptions: condition variables wake only when signalled (`worker` does wait
without a loop, so a spurious wakeup would run a null job); pthread calls do
not fail (they return positive errors, for which the code does not look). The
end of a job that main has not looked at is nobody's business once the loop has
ended: `ThreadPool_done` waits for the workers, destroys the jobs in the queue
and frees the threads with the jobs they have (`ThreadsFreed`; `life` is
`"lost"`). The
computation of the number of threads and of the queue length is left out, both
are constants.

### IrcServer

`conn` is the connection's phase; `"dying"` is the time between
`Connection_close` and the next `eventsDone`. `ticks` is the handler list of the
tick event with its holes and `pos` the index at which `Event_raise` is.
Commands are counted: `out.queue` in the queue, `out.nrecs` in the connection.
`todo` is how many commands the remote still has to get before it can answer
the login. `out.crashed` is set by a use of a null pointer. A tick handler of a
connection that another one has closed in the same tick closes it again
(`CloseAgain`), which is without effect on the server as the connection is not
its own any more. The loop's exit after a failed `pselect` is left to `IrcBot`.

Of the remote we assume what makes it an IRC server: it sends RPL_MYINFO once
per connection after it got NICK and USER. Everything else (silence, closing,
PING, refusing nicknames, any order and timing) is allowed. One message
arrives per read. The server has one address. Tick handlers of other
components (jobs, channels) do not touch this state and are left out.

### IrcChannel

Commands and messages travel through two FIFO channels that are emptied by a
disconnect. The network side (`member`, `others`, and who may kick, join and
leave) is external. The network answers a JOIN of a non-member with JOIN,
NAMES and ENDOFNAMES, or does not answer it at all (refused, e.g. banned).
NAMES lists users with a prefix (`Prefixes`): `"@"` stands for those `handleMsg`
takes off or does not find (`@`, `%`, none) and `"+"` for those it leaves on the
nick (`+`, `~`, `&`). Names that were stored with their prefix are kept in
`misnamed`; no other message finds such an entry. `voiced` is a history of the
network: the users it listed like that.
`onDisconnect` and `userHandlers` saturate at 2: more than one is all that
matters.

### FdSets

Every server has at most one connection that is not closed; a descriptor is the
lowest free one, as the operating system hands it out. Connections are created
in tick rounds only, written in every round, and closed in every round.
`shared` is a history: the servers whose connection got the descriptor of one
that was closed in the same round.

### IBQueue

The ring with its four counters and, as history, the sequence of objects
that should be in it. `Copied` is the `memcpy` of `expand` with its length in
bytes: what it does not cover is `Garbage`, memory nobody wrote.

### HashTable and IBList

The table is its buckets, each a chain of entries; the hash is any function of
the keys, chosen so that keys collide. `deleted` counts the calls of every
deleter. `KeyMap` is the promise: a map from keys to objects that releases what
it owns when it loses it. The iterator is the same in both containers and is
modelled once; it copies pointers, so an entry deleted during a walk would
dangle (the library walks no table and removes from no list that is walked).
`IBList` keeps the array beside the list its operations define, and
`IBList_removeAll` is the loop of the code with its index that steps back.

### IrcMessage and RecvBuffer

A byte is one of the few kinds the parser tells apart, or any other value; a
message is a prefix, a command and parameters, each a sequence of bytes.
`IrcMessage_create` and `IrcCommand_parse` follow the code, and `Handled` is one
pass through the loop of `connDataReceived`, `HandleUpTo` that loop; two words and two
replies stand for the table of commands, one word having the number of a reply
the network may send. `Format`, an IRC network's side, is external, and so is
`WellFormed`, what IRC's grammar demands of a message: no word is empty, begins with
a colon or contains a space, only the last parameter need not be a word, and no
line ends inside the message. The network sends such messages (`sent`) and
empty lines (counted by `empties`), `Read` takes any number of bytes that have
arrived, and a connection may end at any time. The memory of `connDataReceived`
is `recvbuf` up to `recvbufsz`. `stream` and `whole` are histories: the bytes
that were put in the buffer and not discarded, and whether anything was
discarded or left over. `Lines` is the reference `Framing` compares the code
with: a scan of the stream byte by byte that knows of no reads.

### IrcBot

`phase` is how far `daemonrun` is: `setup`, `loop`, `pool` (`ThreadPool_done`),
`end`. In `setup` handlers are registered; `RightHandler` looks at
every list of handlers and every report there. In `loop` a server's or a
channel's event chooses a handler (`Chosen`, translated from `findHandler` and
its callers), and `raised` holds the jobs this event has yet to enqueue.
`Dispatch` enqueues one through `JobPool`, which may refuse it: nobody looks at
the result. Which way a job takes there, to a worker or into the queue, is
`ThreadPool_enqueue`. `done` is the job `threadJobDone` is working on; its name is
free again afterwards. A timeout only resets `hasCompleted` (the signal just sets
a flag), so a handler always runs to its end. Log lines are jobs too, from main
and from workers, at the default level; a panic makes logging synchronous. What
a handler replies is left out, but for the line logged when `IrcServer_sendMsg`
refuses one (`Complaints`).

The loop ends by a shutdown that is through, by its timeout, by a panic, or
because `pselect` fails, for instance with `EINTR` by a signal that is not one of
the service's (`PselectFails`). `ThreadPool_done` stands for the rest of
`daemonrun`: workers are joined, events, servers and handlers destroyed; `stale`
remembers which servers used an event that was destroyed before: one of the
service, if they had a connection, or their own `msgReceived`, if they have a
channel.

The bot is composed with its servers as it is with the pool, through what they
promise. `link` and `quits` change by the actions of `ServerSessions` only
(`Open`, `LogIn`, `Disconnect`, `Shutdown`), to which the bot adds its own
handlers of the same events. `IrcServer`, with all its ticks and handshakes, is
shown to implement `ServerSessions` for one server (`ImplementsSession`): `"up"`
and logged in is `"in"`, connecting, handshake and login are `"pending"`, and a
connection that is `"dying"` is none any more, because the disconnected event has
been raised. In particular a server does not reconnect once a shutdown was
requested: that takes at least as many ticks (`QUICKRECONNTICKS`) as a shutdown
may last.

### PidFile

Each instance has up to three processes that hand the lock on. fcntl locks are
modelled as POSIX has them: per process, not inherited, gone with any close.
`apart` is a history: no instance has started or stopped while another one
did. A daemon may be killed at any time.

## Runs

Passing:

| Run | Shows |
|---|---|
| `pool_safety` | locks, ring and ownership of jobs in every interleaving of submit, run, timeout, cancel, panic and stop, where only jobs that `ThreadPool_done` waited for are forgotten; the pool implements `JobPool` |
| `pool_progress` | accepted jobs finish and `ThreadPool_done` returns, if all workers wait for their first job and handed-over jobs have arrived |
| `server` | server fields, tick handlers and the pending write agree in every phase, however a connection ends; the server implements `ServerSessions`, which forbids a reconnect during a shutdown; connecting, handshake, login and a shutdown end whatever the remote does; if network and remote work from some time on, the bot logs in again, unless the last connection left a command unwritten |
| `channel` | exactly one handler pursues a wanted channel, which is asked for again; the bot knows when it is on a channel and misses no user but those listed with a prefix the code does not know |
| `fd_sets` | counters match the sets, pselect never gets a closed descriptor, connections are watched for what they wait for |
| `containers` | the queue's counters, first in, first out unless entries were moved; the table implements `KeyMap`, its counters and chains agree, a walk gives every entry once; the list is what its operations define; no deleter is called twice |
| `receive` | the receive buffer cannot overflow; however bytes are cut into reads, messages are handled once, in order, as they were sent; no reply is taken for a word |
| `bot` | every event gets the right handler, or has none; handlers start in the order of their events; a job's memory is never freed before its last use, and lost only if the queue was full or the job was queued or unfinished when the loop ended; one shutdown request that ends in time leaves no connection when the service's events are destroyed; the loop ends after a request; accepted jobs are served and `daemonrun` returns, if no worker misses a start signal |
| `pidfile` | starts that do not overlap: one daemon, named by its pidfile, refused only by a running one; any overlap: a running daemon holds its file's lock, a start comes to an end |

Each of these properties is violated by at least one mutant of the model
(`mutants` in `PROJECT.json`), a change to a mapped definition that a plausible
slip in the code would make.

Violations, each a disagreement between the code and what the repository says
(`findings` in `PROJECT.json` quotes the line):

| Run | What happens |
|---|---|
| `server_mute` | a disconnect with a command unwritten leaves `sending` set; the server is never logged in to again |
| `server_null` | `activeTick` stays registered after a disconnect and dequeues from a null queue |
| `channel_left` | an answer after the timeout sets `isJoined` while the bot's PART takes it off the channel |

`server_mute` and `server_null` were confirmed to be about these lines: with
`sending` reset and `activeTick` unregistered in `connClosed`, both
properties hold.

Some properties of the passing runs carry an exception, because the code needs
it. Without the exception TLC finds a counterexample:

- `JobsFinish` is checked with `WarmFairSpec`, from the time all workers wait. With
  `FairSpec` it fails: `startThreadJob` signals a worker that has not reached its
  first `pthread_cond_wait` (`threadpool.c:232`), and the job is never executed.
- `SettledShutdownCompletes` has as premise that every job handed over has reached
  its worker. Without it, `stopThreads` (`threadpool.c:166`) sets `stoprq` before
  a signalled worker has woken up; the worker leaves without the done signal
  and `ThreadPool_done` waits forever. The line "service shutting down" is such
  a job.
- `Served` and the second half of `Stops` have the premise `NoLostStart`: a worker
  that was given a job starts it. These two races are what it leaves out. Without
  it both fail, as nothing in `FairSpec` of `IrcBot` makes a worker start; that
  the loop ends needs no such premise.
- `OneOwner`: jobs the threads still have when the loop ends are not destroyed,
  but their array is freed (`threadpool.c:497`).
- `RightHandler` leaves out handlers for `ORIGIN_CHANNEL` and events other than
  messages: `userJoined`, `userParted` and `chanJoined` look for the channel's
  name only (`ircbot.c:353`), while `ircbot.h:175` documents this origin for any
  channel.
- `ArgumentLives`: a job that finds the queue full is neither executed nor
  freed (`ircbot.c:174`, `log.c:121`). Nor are the arguments freed of handlers
  that are queued, running or not yet looked at when the loop ends, nor of log
  lines in the queue then.
- `NoStaleUse` holds for one shutdown request that ends in time. After a timeout,
  a panic, a failed `pselect` or a failed startup a server still has a connection
  when the events it unregisters from are gone (`ircbot.c:524`). And a second
  request locks every server again but starts the count again, so that the first
  disconnection unlocks for both (`ircbot.c:267`). The property is about the
  service's events only. Of its own, `IrcServer_destroy` destroys `msgReceived`
  before the table of channels, whose `IrcChannel_destroy` unregisters from it
  (`ircserver.c:648`, `ircchannel.c:340`): a use after free at every end of a bot
  with a channel, also an orderly one. `stale` records it.
- `Framing` speaks of the stream that starts with what the last connection left
  in the buffer, and `Faithful` leaves such a connection out: `recvbufsz` is not
  reset with the connection (`ircserver.c:190`), so that its first line is glued
  to the rest of another one.
- `OldestFirstUnlessMoved`: `expand` copies as many bytes as it should copy
  entries (`queue.c:33`), so a ring that grows after something was dequeued
  loses objects.
- `OneDaemon`, `PidfileNamesDaemon` and `RefusedByDaemon` hold while instances
  start and stop one after the other (`apart`). Two that start together may
  both run, because the stale file's name is removed
  without knowing which file it means by then (`daemon.c:56`), nobody holds the
  lock between the parent's close and the child's lock, and a stopping daemon
  removes the name after it has given up the lock (`daemon.c:266`). And the
  file is locked before the pid is written to it.
- `Watched` excepts `shared` connections: a server that reconnects in the tick in
  which another server's connection is closed may get its descriptor number,
  and loses its registration when the closed one is destroyed.
- `NicksComplete` says that no user is missing except `voiced` ones. `handleMsg`
  tests for the prefixes `@`, `%` and `@` again (`ircchannel.c:272`), so `+bob` in
  NAMES is stored as a nick of its own. That entry stays when bob leaves or is
  renamed, and bob is missing until he comes back. Users who left while the bot was
  away do stay in `nicks`, which is never emptied (`ircchannel.c:276`).
- `userHandlers` grows with every rejoin (`ircbot.c:386`), and `live` becomes
  `"twice"` with every `IrcServer_part` (`ircserver.c:568`): other users are
  reported several times, and the channel is destroyed twice.

### Bounds and why they are enough

- Pool: two workers, four jobs, a queue of two, one tick. Enough for a busy
  worker beside a waiting one, a full ring with wrap-around, a gap in it, and a
  refused job. Jobs are interchangeable (symmetry). The theorems hold for
  every number.
- IrcServer: all tick constants are scaled down to 1..4 and keep what the code
  depends on (`QuickReconnTicks >= ShutdownTicks`, and neither wait is over in the
  tick that starts it, stated as assumptions). `PingTicks` is 4 in the passing
  run, so that an `activeTick` that was left behind times out while the next
  connection is made, and 1 in the two violations;
  `FullCredit` is the real 9. `MaxQueue` bounds only how much is queued when more
  input is taken; `MaxQuit` allows a second shutdown request. TLS is on in the
  passing run, which adds the handshake; the two violations need no TLS.
  Other servers may or may not keep a shutdown waiting.
- IrcChannel: two users, three messages under way, three events of the
  environment (kick, disconnect, move of a user): enough for a kick after a
  late answer after a timeout, and for a user who is listed with a prefix,
  renamed and leaves.
- FdSets: three servers and four descriptors, one write record: enough for
  every relative order of two descriptors below or above a third, and reuse.
- Containers: a queue of capacity 2, doubling twice, two objects, real entry
  sizes; a table with two buckets and three keys, two of which collide, with
  three owned objects and one that is not; a list of capacity 2 and up to five
  objects, so that it doubles twice. One of the three is in use per behaviour.
- RecvBuffer: reads of up to 5 bytes, a rest of up to 13 and a buffer for both
  (4096, 4096 and 8192 in the code), so that messages of 3 to 18 bytes arrive in
  one read or in many, together or split anywhere; three lines on each of two
  connections. One message is longer than a rest may be.
- IrcBot: two servers, one with a channel; up to three of six handlers that
  overlap; a pool with one worker and a queue of one, so that it is full with
  two jobs; three jobs at a time; two joins and two shutdown
  requests. The loop runs with one list of two handlers (`RunWith`), the choice
  among all others being checked before. One job is kept for the last log line.
- PidFile: three instances, one after the other (stale files of killed and
  stopped ones, failed forks) or overlapping in every way.

`CHECK_DEADLOCK FALSE` is used where the system may stop: the pool after
`ThreadPool_done`, the service after a shutdown or crash, bounded
environments, and instances that have all ended. `FdSets` and the containers
never stop, the bot stops in a state of its own (`Ended`), and deadlock is
checked.

### Fairness

- Pool: every thread goes on when it can, and a job's procedure returns. The
  operating system schedules threads; a procedure that never returns is
  outside of the pool's power (its timeout only sends a signal).
- IrcServer: `WF(Tick)`, because the interval timer fires forever, and
  `WF(EventsDone)`, because the loop raises it before every pselect. Nothing
  is assumed of the remote; `StaysConnected` has its good behaviour as premise
  (`<>[][~Lapse]_vars`, eventually no lapse any more).
- IrcChannel: the timer, handling of received messages, and a network that
  takes commands while connected.
- IrcBot: weak fairness of main enqueueing what an event raised, of the end of
  `threadJobDone` and of the end of `daemonrun`, and of workers returning from what
  they have started (the library's user owes that). None of a worker starting:
  the signal may be lost, and `NoLostStart` is a premise where it matters. Strong
  fairness of serving a finished job and of leaving the loop: both are ready
  descriptors or the timer, which the loop serves however many other events come
  in between. Nothing is assumed of servers.
- PidFile: every process goes on; a daemon may run forever, fork may fail.

## Proofs

`ThreadPoolProofs` proves, for every number of threads, queue size, set of
jobs and timeout, from the named assumptions of `ThreadPool` only: `TypeOK`,
`QueueConsistent`, `OneOwner`, `JobUseSafe`, `DoneSignalHeard`,
`FinishedMeansOver`, `NoStrandedJob`, `NoStaleCancel`, the action property
`OutcomeFinal` and the refinement `ImplementsJobPool`.

None of them is inductive alone. `IndInv` is the conjunction of `TypeOK`,
`QueueConsistent`, `OneOwner`, `NoStrandedJob`, `FinishedMeansOver` and four
parts that say why they hold: `Handshake` (where a worker can be, given what
main does to its locks and the pipe), `JobPhases` (what a job's fields can be in
each phase of its worker), `StoppedAfterJob` (a thread that was stopped with a job
has executed it, which is all that can be said of the jobs `ThreadPool_done`
forgets) and `Interrupts` (when a worker's cancellation flag
can be set). `Handshake` is the heart: main keeps `donelock` from the hand-over
until it waits for the done signal, so a worker that can signal finds main
waiting, and a job is freed only after its worker let go of it. There is one
lemma per action, and under it one step per conjunct the action touches. `pool_safety`
checks the ones a reader of the code would ask for on a small instance; the
others are the facts they rest on and are only proved.

The refinement maps a job to its state in `JobPool` from who knows it (`JobState`)
and the ring to a sequence (`Entries`, by `SlotOf`). Most steps of main and of a
worker are hidden: signals, locks, the pipe and the handlers' bookkeeping leave
both as they are. The others are one step of the pool each, and which one a job
takes follows from `IndInv`: that the entry taken from the ring is its head, and
that a job which ends was running. The pool's own bound on the queue needs
`QueueConsistent`.

`DataProofs` is about `queue.c`, `hashtable.c` and `list.c`, each on its own
(`Spec`, `TableSpec` and `ListSpec`: what `MCContainers` runs side by side), and
about the receive buffer (`RecvSpec`).

- Queue: `RingConsistent` and `OldestFirstUnlessMoved` for every set of objects
  and every capacity. The inductive invariant adds to the types that the i-th
  entry from the front is the i-th object of the history as long as nothing was
  moved.
- Hash table: `TableOK`, `WalkComplete` and the refinement `ImplementsMap`, for
  every hash function. The inductive invariant says where an entry can be and
  that no key is in a chain twice (`Chained`), that an owned object is in at most
  one entry of the whole table, and in none after its deleter was called
  (`Owners`), and that a walk has given what it passed (`Walking`). `Changed` says
  what an operation does to the set of stored entries; that one chain's change
  is the table's change, and that the lengths add up, rests on lemmas about
  `FlattenSeq`. For the refinement, `FindsStored` says that `IBHashTable_get`
  finds the stored entries and nothing else.
- List: `ListCorrect` for every list and every set of objects that match. The
  loop of `IBList_removeAll` is a function of the number of entries looked at; its
  loop invariant `LoopRight` says that the array begins with those of them that
  are kept, followed by the ones not looked at yet. `DroppedRight` says that an
  object whose deleter was called is not in the list.

- Receive buffer: `RecvTypeOK` (the next read always fits, and no complete
  message is left), `Framing` and `Faithful`, for any bytes, messages and sizes that satisfy
  `SizesAssumption` and `MessagesAssumption`. The inductive invariant `RecvInv` adds
  `Framed`: what was handled is parsed from the lines of the stream, and the
  buffer holds exactly the bytes after the last one. A read appends bytes to
  both. `Matched` is the loop invariant of `connDataReceived` for that: the code,
  which looks for the next end of line from its position, and the scan of the
  whole stream are at the same place after every message. It rests on lemmas
  about the scan: it depends on no byte that comes later (`ScanAgrees`), a line
  that ends is the one `IrcMessage_create` cuts out (`ScanLine`), and it finds
  nothing where `EndOfLine` finds nothing (`ScanQuiet`). `CommandsNamed`, the last
  part of `Faithful`, follows: the command of a handled message stands for the
  text in its line, so that no reply is taken for a word.

  `Faithful` speaks of what was sent, and needs an invariant beside `RecvInv`:
  `Transported` says that as long as nothing was discarded, the lines of what was
  received followed by what is on its way are exactly the formatted messages.
  A message that is sent adds one line and an empty line none (`LineAdded`); a
  read moves bytes from one part to the other. As lines are only ever added
  (`LinesGrow`), those in the buffer are the first ones sent. What remains is that
  parsing undoes formatting (`ParseFormat`), for messages with any number of
  parameters. `FlatAt` says where each word of a message is in its line and
  `WordAt` that the search for a space finds the end of it; `ParamsOfPlaces` is an
  induction from the last parameter to the first, over the positions where
  `ParamsFrom` calls itself (`ParamsRecursion`). It is here that `WellFormed` is
  needed: a colon or a space at another place would change the words.

Functions defined by recursion over the natural numbers (`KeptUpTo`, `Loop`,
`HandleUpTo`, `Scan`, `ParamsFrom` and the one in `FlattenSeq`) are shown to exist
with a least number for which they do not, and what they compute is proved in
the same way.

`PidFileProofs` proves `LockHeld`, `OneDaemon`, `PidfileNamesDaemon` and the
action property `RefusedByDaemon` for any number of instances, assuming only
that `None` is none of them. The inductive invariant has two parts. `Locking`
holds however instances overlap: a child exists only once its parent has
handed on the file (`Phases`), and a lock belongs to a process that has the
file open and is between the call that takes the lock and the one that ends it
(`WriteHolders`, `ReadHolders`). `Orderly` holds while starts and stops do not
overlap: only one instance is on its way at a time, and beside a running daemon
it gets no further than `F_GETLK` (`Alone`); who is going to use the pidfile's
name finds its own file there (`PathMine`); and the pid is in the file once the
session leader is gone (`Named`). Every action has a lemma with one step per
conjunct; the steps use what the action does to the processes (`Moved`) and to
the locks (`SameLocks`, `LosesLocks`, `TakesLock`, `ReadTaken`), which lemmas of
their own derive.

`FdSetsProofs` proves `CountsExact`, `NoClosedFd` and `Watched` for any number of
servers, descriptors and write records, from `FdAssumption`. First, what each of
the four registrations does to a consistent state of the service; that
`tryReduceNfds` finds the highest descriptor rests on the order of the natural
numbers being well founded. Then the inductive invariant: whoever is
registered has a connection or is to be destroyed (`Held`), connections have
different descriptors (`Distinct`), one that has the descriptor of a connection
to be destroyed is known to be shared (`Sharing`), and all others are watched
for what they wait for in every round (`Watching`).

`EventListProofs` proves what `Event_register` and `Event_unregister` do to the
number of registrations of each handler (`RegisterCounts`, `UnregisterCounts`),
for every list. Squeezing out the holes is a recursive function on the length
of the list (`LiveUpTo`) so that it can be reasoned about: a least length for
which it is wrong would have a wrong one below it.

`IrcServerProofs` proves `SessionConsistent`, `HandlersMatch`, the action
property `NoReconnectOnShutdown` and the refinement `ImplementsSession` for all
tick constants, from the assumptions of `IrcServer`; of the credits only that a
full account is at least 2. The first two are not inductive because of the `activeTick` that `connClosed` leaves
behind. `Leftover` says why it does no harm as long as it has not crashed:
either the server is `Muted` (a command was unwritten, `sending` stays set, and
without being sent NICK and USER no network completes the login, so `active` is
not registered a second time), or it is `Doomed` (`activeTick` comes before
`connWaitReconn` in the list and its credit reaches the point of dequeueing
from the null queue before that one has waited long enough to connect).
`Counting` bounds the counters of the handlers that are registered, and
`ClosesFirst` says that a connection a tick handler has closed is not replaced by
the rest of the walk, so that it is still there to be destroyed. `StopsFirst` relates the shutdown's count to
that of `connWaitReconn`, with one tick of difference for a walk that is between
the two; `NoReconnectOnShutdown` follows from it. `Event_raise` is a walk by
index through a list that changes under it, so each lemma about a handler says
what happens to the entries before and after the index. The refinement needs
the invariant as well: `connst` is 0 while a connection is opened, which makes
the new one `"pending"`, and only `connWaitReconn` opens one, when there is none
and no shutdown was requested.

`IrcChannelProofs` proves `OnePursuit`, `MembershipKnown` and `NicksComplete` for
any set of users and any bounds. The last two speak of states in which nothing
is on its way; `CatchesUp` generalises them to all states. For each thing the
network has made true (the bot's own membership, each user's who is not
`voiced`), `Holds` says that
the bot knows it already or that a message on its way will tell it, and that no
later message takes it back; and every KICK or NICK on its way finds what it
presumes (otherwise the bot would forget what it has yet to learn). A message
that is sent extends the argument at the far end of the channel, one that is
handled at the near end, and a handled message neither adds nor removes anything
else. `Pursued` says that a handler that is registered has time left and that
`joinOnConnect` is registered exactly while there is no connection; `Silent`
that nothing happens without a channel or a connection.

`IrcBotProofs` proves `ArgumentLives`, `NoStaleUse`, `RightHandler` and the action
property `HandlersInOrder` for any sequence of servers, any channels, handlers,
jobs and numbers of requests, assuming of the constants that names of different
kinds are different, that no channel is called `#` and that the pool has a
worker. `Queued` says that the pool's queue holds each waiting job once, `Owned`
in which phases of a job its argument belongs to it, `InLine` that no handler
waits while a worker is free (log lines of handlers may), `Counted` that after
one shutdown request `shutdownRef` is the number of servers that are locked and
that the others have no connection, and `Reasons` what the reason for the loop's
end says of the connections. That `shutdownRef` reaches zero only when no lock is
left, and that a job which ends makes room for one, rests on the cardinalities of
finite sets. `HandlersInOrder` follows from `InLine` where main passes the queue,
and from the queue's order where it is served. `RightHandler` does not depend on
steps: it is proved from the type of the list alone, with `findHandler` as the
least index that matches.

All theorems about modules with bounds (`MaxQueue`, `MaxInFlight`, `MaxJobs` and
so on) hold for every value of the bound.

Every safety invariant of the passing runs is proved. Only model-checked: all
liveness (fairness is out of the prover's reach: `JobsFinish`, `StaysConnected`,
`SettledShutdownCompletes` and the others of their kind).

## Not modelled

- Formatting of commands, log texts, splitting of strings.
- OpenSSL's buffers; the bytes written.
- Signals and timers of the operating system other than as a tick or a
  shutdown request; user and group; panic as a longjmp out of other handlers
  than the pool's.
- Several addresses per host and a full blacklist.
- The replies of a handler. They are sent one by one if it ended in time, and each
  may be refused on its own (`ircserver.c:583`): a recipient that is too long, or a
  server that is not logged in.
- The name lookup of a connection as a job of the pool.
- `IBList_fromString`, string builder and utilities; options that are only
  stored.
- A comparison of texts that never holds: the answer that a channel does not
  exist has the nick, not the channel, as first parameter (`ircchannel.c:296`).

`hazards` in `PROJECT.json` lists what can go wrong in these parts, with a note.

## Plan

1. `Connection` with its name lookup: a composition with the pool in which the
   connection is destroyed while its job is queued, running or done.
2. The send queue in `IrcServer` as `IBQueue`'s promise, and channels promised
   to the bot as servers are by `ServerSessions`; the refinements proved.
