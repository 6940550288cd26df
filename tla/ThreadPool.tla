----------------------------- MODULE ThreadPool -----------------------------
(***************************************************************************)
(* The worker pool of threadpool.c: the main thread (the service's event   *)
(* loop) hands jobs to a fixed set of workers.  Every worker has two       *)
(* mutex/condition pairs, "start" (main wakes the worker) and "done" (the  *)
(* worker wakes main), and a pipe that makes main's pselect() return when  *)
(* a job has ended.  Jobs that find no free worker wait in a ring buffer.  *)
(*                                                                         *)
(* One action is the code between two points where another thread can      *)
(* interfere: a lock, a wait, a pipe.  mpc says where main is:             *)
(*   loop      in Service_run, between two events                          *)
(*   start     startThreadJob(tgt, mj), about to lock startlock            *)
(*   hand      the same, holding startlock, about to lock donelock         *)
(*   wdone     threadJobDone(cur), in pthread_cond_wait(done)              *)
(*   wokedone  the same, signalled, about to take donelock back            *)
(*   raise     the same, inside Event_raise(finished)                      *)
(*   deq       the same, inside dequeueJob, holding queuelock              *)
(*   stop      stopThreads, about to handle thread tgt                     *)
(*   stopwait, stopwoke   the same, in pthread_cond_wait(done)             *)
(*   join      the same, in pthread_join                                   *)
(*   down      ThreadPool_done has returned                                *)
(* and wpc[t] says where worker t is:                                      *)
(*   create    created, has not executed anything yet                      *)
(*   lock0     about to lock startlock for the first time                  *)
(*   top       at the loop condition, holding startlock                    *)
(*   wait      in pthread_cond_wait(start)                                 *)
(*   wake      signalled, about to take startlock back                     *)
(*   run       inside the job's procedure                                  *)
(*   signal    result byte written, about to lock donelock                 *)
(*   dead      returned                                                    *)
(* The pthread calls return errors as positive numbers, so the "< 0" error *)
(* branches of the code never run and are not modelled.  A condition       *)
(* variable is assumed to wake only when it is signalled.                  *)
(***************************************************************************)
EXTENDS Integers, FiniteSets

CONSTANTS NThreads,   \* nthreads
          QueueSize,  \* queuesize
          Jobs,       \* the jobs that may be created in a behaviour
          NoJob,      \* the null pointer
          JobTicks    \* timeoutTicks of a new job, 0 for no timeout

ASSUME NThreadsAssumption == NThreads \in Nat \ {0}
ASSUME QueueSizeAssumption == QueueSize \in Nat \ {0}
ASSUME NoJobAssumption == NoJob \notin Jobs
ASSUME JobTicksAssumption == JobTicks \in Nat

VARIABLES
    job,          \* job[t]: threads[t].job
    startlock,    \* startlock[t]: who holds it
    donelock,     \* donelock[t]: main holds it (a worker's hold is one step)
    pipe,         \* pipe[t]: bytes in the pipe
    stoprq,       \* stoprq[t]: threads[t].stoprq
    jobcanceled,  \* jobcanceled[t]: the worker's thread-local flag
    wpc,          \* where each worker is
    jobQueue, queueAvail, nextIdx, lastIdx,   \* the ring buffer
    mpc, cur, tgt, mj, ret,                   \* main and its local variables
    life,         \* life[j]: whether job j is allocated, and whether forgotten
    hasCompleted, panicmsg, timeoutTicks,     \* the fields of ThreadJob
    calls,        \* calls[j]: how often proc was called   (history)
    ended,        \* ended[j]: how often proc returned     (history)
    raised        \* raised[j]: how often finished was raised (history)

threadVars == <<job, startlock, donelock, pipe, stoprq, jobcanceled, wpc>>
queueVars == <<jobQueue, queueAvail, nextIdx, lastIdx>>
mainVars == <<mpc, cur, tgt, mj, ret>>
jobVars == <<life, hasCompleted, panicmsg, timeoutTicks>>
history == <<calls, ended, raised>>
vars == <<threadVars, queueVars, mainVars, jobVars, history>>

Threads == 1..NThreads
Slots == 0..(QueueSize - 1)

MainPCs == {"loop", "start", "hand", "wdone", "wokedone", "raise", "deq",
            "stop", "stopwait", "stopwoke", "join", "down"}
WorkerPCs == {"create", "lock0", "top", "wait", "wake", "run", "signal", "dead"}
Stopping == {"stop", "stopwait", "stopwoke", "join", "down"}

TypeThreads ==
    /\ job \in [Threads -> Jobs \cup {NoJob}]
    /\ startlock \in [Threads -> {"free", "main", "worker"}]
    /\ donelock \in [Threads -> BOOLEAN]
    /\ pipe \in [Threads -> Nat]
    /\ stoprq \in [Threads -> BOOLEAN]
    /\ jobcanceled \in [Threads -> BOOLEAN]
    /\ wpc \in [Threads -> WorkerPCs]

TypeQueue ==
    /\ jobQueue \in [Slots -> Jobs \cup {NoJob}]
    /\ queueAvail \in 0..QueueSize
    /\ nextIdx \in Slots
    /\ lastIdx \in Slots

TypeMain ==
    /\ mpc \in MainPCs
    /\ cur \in Threads
    /\ tgt \in Threads
    /\ mj \in Jobs \cup {NoJob}
    /\ ret \in {"loop", "raise"}

TypeJobs ==
    /\ life \in [Jobs -> {"new", "live", "refused", "freed", "lost"}]
    /\ hasCompleted \in [Jobs -> BOOLEAN]
    /\ panicmsg \in [Jobs -> BOOLEAN]
    /\ timeoutTicks \in [Jobs -> 0..JobTicks]

TypeHistory ==
    /\ calls \in [Jobs -> Nat]
    /\ ended \in [Jobs -> Nat]
    /\ raised \in [Jobs -> Nat]

TypeOK == TypeThreads /\ TypeQueue /\ TypeMain /\ TypeJobs /\ TypeHistory

-----------------------------------------------------------------------------
(* ThreadPool_init: the state it leaves behind, with every worker at w.    *)

PoolInit(w) ==
    /\ job = [t \in Threads |-> NoJob]
    /\ startlock = [t \in Threads |-> "free"]
    /\ donelock = [t \in Threads |-> FALSE]
    /\ pipe = [t \in Threads |-> 0]
    /\ stoprq = [t \in Threads |-> FALSE]
    /\ jobcanceled = [t \in Threads |-> FALSE]
    /\ wpc = [t \in Threads |-> w]
    /\ jobQueue = [i \in Slots |-> NoJob]
    /\ queueAvail = QueueSize
    /\ nextIdx = 0
    /\ lastIdx = 0
    /\ mpc = "loop"
    /\ cur = 1
    /\ tgt = 1
    /\ mj = NoJob
    /\ ret = "loop"
    /\ life = [j \in Jobs |-> "new"]
    /\ hasCompleted = [j \in Jobs |-> TRUE]
    /\ panicmsg = [j \in Jobs |-> FALSE]
    /\ timeoutTicks = [j \in Jobs |-> JobTicks]
    /\ calls = [j \in Jobs |-> 0]
    /\ ended = [j \in Jobs |-> 0]
    /\ raised = [j \in Jobs |-> 0]

(* pthread_create has returned for every worker; none need have run yet.   *)
Init == PoolInit("create")

(* A later state of the same pool: every worker has reached its first wait *)
(* before main submits anything.                                           *)
WarmInit == PoolInit("wait")

-----------------------------------------------------------------------------
(* The ring buffer.                                                        *)

(* Mutant: the last slot is never reached.                                 *)
WrapEarly(i) == IF i >= QueueSize - 1 THEN 0 ELSE i

Wrap(i) == IF i = QueueSize THEN 0 ELSE i

(* enqueueJob, on main or on a worker, after ThreadJob_create: the caller  *)
(* ignores the result, so a job that finds the queue full is never run and *)
(* never freed.                                                            *)
enqueueJob(j) ==
    /\ life[j] = "new"
    /\ IF queueAvail = 0
       THEN /\ life' = [life EXCEPT ![j] = "refused"]
            /\ UNCHANGED queueVars
       ELSE /\ life' = [life EXCEPT ![j] = "live"]
            /\ jobQueue' = [jobQueue EXCEPT ![nextIdx] = j]
            /\ nextIdx' = Wrap(nextIdx + 1)
            /\ queueAvail' = queueAvail - 1
            /\ UNCHANGED lastIdx

(* Mutants: any thread is taken for a free one; the test is inverted.      *)
AllThreads == Threads
BusyThreads == {t \in Threads : job[t] # NoJob}

FreeThreads == {t \in Threads : job[t] = NoJob}

(* availableThread: the first thread without a job.                        *)
availableThread(t) ==
    /\ t \in FreeThreads
    /\ \A u \in FreeThreads : t <= u

(* Mutant: the signal reaches every worker.                                *)
workerInterruptAll(T) ==
    jobcanceled' = [t \in Threads |-> T # {} \/ jobcanceled[t]]

(* pthread_kill(SIGUSR1) to the worker of every thread in T, whose handler *)
(* sets the thread's own jobcanceled.                                      *)
workerInterrupt(T) ==
    jobcanceled' = [t \in Threads |-> t \in T \/ jobcanceled[t]]

-----------------------------------------------------------------------------
(* Main: submitting, timing out and cancelling jobs.                       *)

(* ThreadPool_enqueue on main: from an event handler of the service loop,  *)
(* or from a handler of a job's finished event (asynchronous logging).     *)
Submit(j) ==
    /\ mpc \in {"loop", "raise"}
    /\ IF FreeThreads # {}
       THEN /\ life[j] = "new"
            /\ life' = [life EXCEPT ![j] = "live"]
            /\ mpc' = "start"
            /\ tgt' \in Threads
            /\ availableThread(tgt')
            /\ mj' = j
            /\ ret' = mpc
            /\ UNCHANGED <<cur, queueVars>>
       ELSE enqueueJob(j) /\ UNCHANGED mainVars
    /\ UNCHANGED <<threadVars, hasCompleted, panicmsg, timeoutTicks, history>>

(* startThreadJob up to its second lock: the signal wakes the worker only  *)
(* if the worker is waiting.                                               *)
LockStart ==
    /\ mpc = "start"
    /\ startlock[tgt] = "free"
    /\ startlock' = [startlock EXCEPT ![tgt] = "main"]
    /\ job' = [job EXCEPT ![tgt] = mj]
    /\ wpc' = [wpc EXCEPT ![tgt] = IF @ = "wait" THEN "wake" ELSE @]
    /\ mpc' = "hand"
    /\ UNCHANGED <<donelock, pipe, stoprq, jobcanceled, queueVars,
                   cur, tgt, mj, ret, jobVars, history>>

(* The rest of startThreadJob.                                             *)
LockDone ==
    /\ mpc = "hand"
    /\ ~donelock[tgt]
    /\ donelock' = [donelock EXCEPT ![tgt] = TRUE]
    /\ startlock' = [startlock EXCEPT ![tgt] = "free"]
    /\ mpc' = ret
    /\ mj' = NoJob
    /\ UNCHANGED <<job, pipe, stoprq, jobcanceled, wpc, queueVars,
                   cur, tgt, ret, jobVars, history>>

(* checkThreadJobs, on every tick of the service.                          *)
Assigned == {t \in Threads : job[t] # NoJob}
Ticking == {t \in Assigned : timeoutTicks[job[t]] > 0}
Expiring == {t \in Assigned : timeoutTicks[job[t]] = 1}

checkThreadJobs ==
    /\ mpc = "loop"
    /\ Ticking # {}
    /\ timeoutTicks' = [j \in Jobs |->
                          IF \E t \in Ticking : job[t] = j
                          THEN timeoutTicks[j] - 1 ELSE timeoutTicks[j]]
    /\ hasCompleted' = [j \in Jobs |->
                          hasCompleted[j] /\ ~\E t \in Expiring : job[t] = j]
    /\ workerInterrupt(Expiring)
    /\ UNCHANGED <<job, startlock, donelock, pipe, stoprq, wpc, queueVars,
                   mainVars, life, panicmsg, history>>

(* ThreadPool_cancel of a job that a thread has: it runs on, marked.       *)
CancelRunning(j) ==
    /\ mpc = "loop"
    /\ \E t \in Threads : job[t] = j
    /\ workerInterrupt({t \in Threads : job[t] = j})
    /\ hasCompleted' = [hasCompleted EXCEPT ![j] = FALSE]
    /\ UNCHANGED <<job, startlock, donelock, pipe, stoprq, wpc, queueVars,
                   mainVars, life, panicmsg, timeoutTicks, history>>

(* ThreadPool_cancel of a queued job: finished and destroyed at once.  Its *)
(* slot is cleared but stays in use until dequeueJob passes it.            *)
CancelQueued(j) ==
    /\ mpc = "loop"
    /\ \A t \in Threads : job[t] # j
    /\ \E i \in Slots :
          /\ jobQueue[i] = j
          /\ jobQueue' = [jobQueue EXCEPT ![i] = NoJob]
    /\ hasCompleted' = [hasCompleted EXCEPT ![j] = FALSE]
    /\ raised' = [raised EXCEPT ![j] = @ + 1]
    /\ life' = [life EXCEPT ![j] = "freed"]
    /\ UNCHANGED <<threadVars, queueAvail, nextIdx, lastIdx, mainVars,
                   panicmsg, timeoutTicks, calls, ended>>

-----------------------------------------------------------------------------
(* Main: threadJobDone(t), the handler of the pipe becoming readable.      *)

(* Mutant: the result byte is taken for the done signal.                   *)
JobDoneNoWait(t) ==
    /\ mpc = "loop"
    /\ pipe[t] > 0
    /\ pipe' = [pipe EXCEPT ![t] = IF @ > 2 THEN @ - 2 ELSE 0]
    /\ cur' = t
    /\ mpc' = "wokedone"
    /\ UNCHANGED <<job, startlock, donelock, stoprq, jobcanceled, wpc, queueVars,
                   tgt, mj, ret, jobVars, history>>

JobDoneWait(t) ==
    /\ mpc = "loop"
    /\ pipe[t] > 0
    /\ pipe' = [pipe EXCEPT ![t] = IF @ > 2 THEN @ - 2 ELSE 0]
    /\ donelock' = [donelock EXCEPT ![t] = FALSE]
    /\ cur' = t
    /\ mpc' = "wdone"
    /\ UNCHANGED <<job, startlock, stoprq, jobcanceled, wpc, queueVars,
                   tgt, mj, ret, jobVars, history>>

(* Back from the wait with the result of a job that panicked: the job is   *)
(* destroyed and Service_panic leaves the service loop.                    *)
JobDonePanic ==
    /\ mpc = "wokedone"
    /\ panicmsg[job[cur]]
    /\ life' = [life EXCEPT ![job[cur]] = "freed"]
    /\ job' = [job EXCEPT ![cur] = NoJob]
    /\ mpc' = "stop"
    /\ tgt' = 1
    /\ UNCHANGED <<startlock, donelock, pipe, stoprq, jobcanceled, wpc,
                   queueVars, cur, mj, ret, hasCompleted, panicmsg,
                   timeoutTicks, history>>

(* Back from the wait with an ordinary result: finished is raised, with    *)
(* donelock held.                                                          *)
JobDoneRaise ==
    /\ mpc = "wokedone"
    /\ ~panicmsg[job[cur]]
    /\ donelock' = [donelock EXCEPT ![cur] = TRUE]
    /\ raised' = [raised EXCEPT ![job[cur]] = @ + 1]
    /\ mpc' = "raise"
    /\ UNCHANGED <<job, startlock, pipe, stoprq, jobcanceled, wpc, queueVars,
                   cur, tgt, mj, ret, jobVars, calls, ended>>

(* Mutant: t->job is not reset.                                            *)
JobDoneFreeKeepsJob ==
    /\ mpc = "raise"
    /\ life' = [life EXCEPT ![job[cur]] = "freed"]
    /\ donelock' = [donelock EXCEPT ![cur] = FALSE]
    /\ mpc' = "deq"
    /\ UNCHANGED <<job, startlock, pipe, stoprq, jobcanceled, wpc, queueVars,
                   cur, tgt, mj, ret, hasCompleted, panicmsg, timeoutTicks,
                   history>>

(* Event_raise has returned: the job is destroyed.                         *)
JobDoneFree ==
    /\ mpc = "raise"
    /\ life' = [life EXCEPT ![job[cur]] = "freed"]
    /\ job' = [job EXCEPT ![cur] = NoJob]
    /\ donelock' = [donelock EXCEPT ![cur] = FALSE]
    /\ mpc' = "deq"
    /\ UNCHANGED <<startlock, pipe, stoprq, jobcanceled, wpc, queueVars,
                   cur, tgt, mj, ret, hasCompleted, panicmsg, timeoutTicks,
                   history>>

(* One turn of the loop in dequeueJob and, once it has found a job, the    *)
(* call of startThreadJob that follows.                                    *)
dequeueJob ==
    /\ mpc = "deq"
    /\ IF queueAvail = QueueSize
       THEN mpc' = "loop" /\ UNCHANGED <<queueVars, tgt, mj, ret>>
       ELSE /\ jobQueue' = [jobQueue EXCEPT ![lastIdx] = NoJob]
            /\ lastIdx' = Wrap(lastIdx + 1)
            /\ queueAvail' = queueAvail + 1
            /\ IF jobQueue[lastIdx] = NoJob
               THEN UNCHANGED <<mpc, tgt, mj, ret>>
               ELSE /\ mpc' = "start"
                    /\ tgt' = cur
                    /\ mj' = jobQueue[lastIdx]
                    /\ ret' = "loop"
            /\ UNCHANGED nextIdx
    /\ UNCHANGED <<threadVars, cur, jobVars, history>>

-----------------------------------------------------------------------------
(* Main: ThreadPool_done.                                                  *)

Shutdown ==
    /\ mpc = "loop"
    /\ mpc' = "stop"
    /\ tgt' = 1
    /\ UNCHANGED <<threadVars, queueVars, cur, mj, ret, jobVars, history>>

(* stopThreads for a thread that has a job ...                             *)
StopBusy ==
    /\ mpc = "stop"
    /\ job[tgt] # NoJob
    /\ stoprq' = [stoprq EXCEPT ![tgt] = TRUE]
    /\ workerInterrupt({tgt})
    /\ donelock' = [donelock EXCEPT ![tgt] = FALSE]
    /\ mpc' = "stopwait"
    /\ UNCHANGED <<job, startlock, pipe, wpc, queueVars, cur, tgt, mj, ret,
                   jobVars, history>>

StopBusyWoke ==
    /\ mpc = "stopwoke"
    /\ mpc' = "join"
    /\ UNCHANGED <<threadVars, queueVars, cur, tgt, mj, ret, jobVars, history>>

(* Mutant: the idle worker is not signalled.                               *)
StopIdleSilent ==
    /\ mpc = "stop"
    /\ job[tgt] = NoJob
    /\ startlock[tgt] = "free"
    /\ stoprq' = [stoprq EXCEPT ![tgt] = TRUE]
    /\ mpc' = "join"
    /\ UNCHANGED <<job, startlock, donelock, pipe, jobcanceled, wpc, queueVars,
                   cur, tgt, mj, ret, jobVars, history>>

(* ... and for one that has none.                                          *)
StopIdle ==
    /\ mpc = "stop"
    /\ job[tgt] = NoJob
    /\ startlock[tgt] = "free"
    /\ stoprq' = [stoprq EXCEPT ![tgt] = TRUE]
    /\ wpc' = [wpc EXCEPT ![tgt] = IF @ = "wait" THEN "wake" ELSE @]
    /\ mpc' = "join"
    /\ UNCHANGED <<job, startlock, donelock, pipe, jobcanceled, queueVars,
                   cur, tgt, mj, ret, jobVars, history>>

(* ThreadPool_done frees the array of threads, and with it the only        *)
(* reference to the job of every thread that was stopped while it had one: *)
(* its result is not looked at, its finished handlers are not called, and  *)
(* it is not destroyed.  The jobs that are still queued are.               *)
ThreadsFreed ==
    /\ job' = [t \in Threads |-> NoJob]
    /\ life' = [j \in Jobs |->
                   IF \E i \in Slots : jobQueue[i] = j THEN "freed"
                   ELSE IF \E t \in Threads : job[t] = j THEN "lost"
                   ELSE life[j]]
    /\ jobQueue' = [i \in Slots |-> NoJob]
    /\ queueAvail' = 0
    /\ UNCHANGED <<nextIdx, lastIdx>>

(* pthread_join, then the next thread, or after the last one the rest of   *)
(* ThreadPool_done.                                                        *)
Join ==
    /\ mpc = "join"
    /\ wpc[tgt] = "dead"
    /\ IF tgt < NThreads
       THEN /\ mpc' = "stop"
            /\ tgt' = tgt + 1
            /\ UNCHANGED <<job, queueVars, life>>
       ELSE /\ mpc' = "down"
            /\ UNCHANGED tgt
            /\ ThreadsFreed
    /\ UNCHANGED <<startlock, donelock, pipe, stoprq, jobcanceled, wpc, cur,
                   mj, ret, hasCompleted, panicmsg, timeoutTicks, history>>

-----------------------------------------------------------------------------
(* Worker t.                                                               *)

Begin(t) ==
    /\ wpc[t] = "create"
    /\ stoprq' = [stoprq EXCEPT ![t] = FALSE]
    /\ wpc' = [wpc EXCEPT ![t] = "lock0"]
    /\ UNCHANGED <<job, startlock, donelock, pipe, jobcanceled, queueVars,
                   mainVars, jobVars, history>>

LockFirst(t) ==
    /\ wpc[t] = "lock0"
    /\ startlock[t] = "free"
    /\ startlock' = [startlock EXCEPT ![t] = "worker"]
    /\ wpc' = [wpc EXCEPT ![t] = "top"]
    /\ UNCHANGED <<job, donelock, pipe, stoprq, jobcanceled, queueVars,
                   mainVars, jobVars, history>>

(* The loop condition, and the wait or the return that follows it.  Both   *)
(* release startlock.                                                      *)
LoopTop(t) ==
    /\ wpc[t] = "top"
    /\ startlock' = [startlock EXCEPT ![t] = "free"]
    /\ IF stoprq[t]
       THEN wpc' = [wpc EXCEPT ![t] = "dead"] /\ UNCHANGED jobcanceled
       ELSE /\ wpc' = [wpc EXCEPT ![t] = "wait"]
            /\ jobcanceled' = [jobcanceled EXCEPT ![t] = FALSE]
    /\ UNCHANGED <<job, donelock, pipe, stoprq, queueVars, mainVars,
                   jobVars, history>>

(* pthread_cond_wait returns with startlock taken: stop, or call proc.     *)
WakeStop(t) ==
    /\ wpc[t] = "wake"
    /\ startlock[t] = "free"
    /\ stoprq[t]
    /\ wpc' = [wpc EXCEPT ![t] = "dead"]
    /\ UNCHANGED <<job, startlock, donelock, pipe, stoprq, jobcanceled,
                   queueVars, mainVars, jobVars, history>>

WakeRun(t) ==
    /\ wpc[t] = "wake"
    /\ startlock[t] = "free"
    /\ ~stoprq[t]
    /\ startlock' = [startlock EXCEPT ![t] = "worker"]
    /\ wpc' = [wpc EXCEPT ![t] = "run"]
    /\ calls' = [calls EXCEPT ![job[t]] = @ + 1]
    /\ UNCHANGED <<job, donelock, pipe, stoprq, jobcanceled, queueVars,
                   mainVars, jobVars, ended, raised>>

(* The procedure submits a job of its own (asynchronous logging): a worker *)
(* only queues, and waits for queuelock while main is in dequeueJob.       *)
WorkerEnqueue(t, j) ==
    /\ wpc[t] = "run"
    /\ mpc # "deq"
    /\ enqueueJob(j)
    /\ UNCHANGED <<threadVars, mainVars, hasCompleted, panicmsg,
                   timeoutTicks, history>>

(* proc returns, or panicHandler jumps out of it; either way a byte goes   *)
(* into the pipe.                                                          *)
ProcEnds(t) ==
    /\ wpc[t] = "run"
    /\ ended' = [ended EXCEPT ![job[t]] = @ + 1]
    /\ pipe' = [pipe EXCEPT ![t] = @ + 1]
    /\ wpc' = [wpc EXCEPT ![t] = "signal"]
    /\ UNCHANGED <<job, startlock, donelock, stoprq, jobcanceled, queueVars,
                   mainVars, jobVars, calls, raised>>

ProcPanics(t) ==
    /\ wpc[t] = "run"
    /\ panicmsg' = [panicmsg EXCEPT ![job[t]] = TRUE]
    /\ pipe' = [pipe EXCEPT ![t] = @ + 1]
    /\ wpc' = [wpc EXCEPT ![t] = "signal"]
    /\ UNCHANGED <<job, startlock, donelock, stoprq, jobcanceled, queueVars,
                   mainVars, life, hasCompleted, timeoutTicks, history>>

(* Lock donelock, signal done, unlock: main wakes only if it is waiting on *)
(* this thread's condition.                                                *)
SignalDone(t) ==
    /\ wpc[t] = "signal"
    /\ ~donelock[t]
    /\ wpc' = [wpc EXCEPT ![t] = "top"]
    /\ mpc' = IF mpc = "wdone" /\ cur = t THEN "wokedone"
              ELSE IF mpc = "stopwait" /\ tgt = t THEN "stopwoke"
              ELSE mpc
    /\ UNCHANGED <<job, startlock, donelock, pipe, stoprq, jobcanceled,
                   queueVars, cur, tgt, mj, ret, jobVars, history>>

-----------------------------------------------------------------------------
(* What the environment may do: create jobs, let time pass, cancel, ask    *)
(* for the shutdown.                                                       *)
Environment ==
    \/ \E j \in Jobs : Submit(j) \/ CancelRunning(j) \/ CancelQueued(j)
    \/ checkThreadJobs
    \/ Shutdown
    \/ \E t \in Threads, j \in Jobs : WorkerEnqueue(t, j)

(* What main does by itself.                                               *)
MainStep ==
    \/ LockStart \/ LockDone
    \/ \E t \in Threads : JobDoneWait(t)
    \/ JobDonePanic \/ JobDoneRaise \/ JobDoneFree \/ dequeueJob
    \/ StopBusy \/ StopBusyWoke \/ StopIdle \/ Join

(* What worker t does by itself, the job's procedure included.             *)
WorkerStep(t) ==
    \/ Begin(t) \/ LockFirst(t) \/ LoopTop(t) \/ WakeStop(t) \/ WakeRun(t)
    \/ ProcEnds(t) \/ ProcPanics(t) \/ SignalDone(t)

Next == Environment \/ MainStep \/ \E t \in Threads : WorkerStep(t)

Spec == Init /\ [][Next]_vars

Fairness == WF_vars(MainStep) /\ \A t \in Threads : WF_vars(WorkerStep(t))

FairSpec == Spec /\ Fairness
WarmSpec == WarmInit /\ [][Next]_vars
WarmFairSpec == WarmSpec /\ Fairness

-----------------------------------------------------------------------------
(* Properties.                                                             *)

(* The slots that hold entries: from lastIdx up to nextIdx, around the end *)
(* of the array.                                                           *)
InUse(i) ==
    /\ queueAvail # QueueSize
    /\ IF lastIdx < nextIdx
       THEN lastIdx <= i /\ i < nextIdx
       ELSE lastIdx <= i \/ i < nextIdx

(* enqueueJob and dequeueJob keep the two indices and the count in step,   *)
(* through wrap-around, full and empty, whatever ThreadPool_cancel clears  *)
(* in between: the count is the distance of the indices and no entry is    *)
(* left outside of the part in use, where dequeueJob would not find it.    *)
QueueConsistent ==
    mpc # "down" =>
       /\ QueueSize - queueAvail =
             IF queueAvail = QueueSize THEN 0
             ELSE IF lastIdx < nextIdx THEN nextIdx - lastIdx
             ELSE QueueSize - lastIdx + nextIdx
       /\ queueAvail = QueueSize => nextIdx = lastIdx
       /\ \A i \in Slots : ~InUse(i) => jobQueue[i] = NoJob

(* The references to job j: threads that have it, slots that hold it, and  *)
(* main's argument of startThreadJob before the thread has it.             *)
Held(j) == {t \in Threads : job[t] = j}
Queued(j) == {i \in Slots : jobQueue[i] = j}
InHand(j) == mpc = "start" /\ mj = j

(* A job has one owner as long as it is allocated, never two and never     *)
(* none.                                                                   *)
Owned ==
    /\ \A j \in Jobs : life[j] = "live" <=>
                          Held(j) # {} \/ Queued(j) # {} \/ InHand(j)
    /\ \A t, u \in Threads : job[t] # NoJob /\ job[t] = job[u] => t = u
    /\ \A i, k \in Slots : jobQueue[i] # NoJob /\ jobQueue[i] = jobQueue[k] => i = k
    /\ \A t \in Threads, i \in Slots : job[t] # NoJob => job[t] # jobQueue[i]
    /\ \A j \in Jobs : InHand(j) => Held(j) = {} /\ Queued(j) = {}

(* The jobs that nobody knows any more although they were not destroyed    *)
(* were executed when the pool was stopped, and main never asked for the   *)
(* result.                                                                 *)
LeftBehind ==
    \A j \in Jobs : life[j] = "lost" =>
       /\ mpc = "down" /\ raised[j] = 0
       /\ calls[j] = 1 /\ (ended[j] = 1 \/ panicmsg[j])

(* No job is used after it was destroyed or destroyed twice, and the only  *)
(* accepted jobs that are forgotten are those ThreadPool_done waits for:   *)
(* it frees its threads and not their jobs.  So no accepted job is lost    *)
(* while the pool runs, and none that was not executed, whatever the order *)
(* of completion, cancellation, refusal and shutdown.                      *)
OneOwner == Owned /\ LeftBehind

(* Main is inside Event_raise(finished), perhaps submitting another job.   *)
Raising == mpc = "raise" \/ (mpc \in {"start", "hand"} /\ ret = "raise")

(* Every dereference of t->job is of an allocated job: by the worker that  *)
(* calls proc or has just left it, and by main from the done signal to the *)
(* end of the finished handlers.                                           *)
JobUseSafe ==
    /\ \A t \in Threads :
          wpc[t] \in {"run", "signal"} =>
             job[t] # NoJob /\ life[job[t]] = "live"
    /\ mpc \in {"wdone", "wokedone"} \/ Raising =>
             job[cur] # NoJob /\ life[job[cur]] = "live"

(* The done signal is never lost: main keeps donelock from handing the job *)
(* over until it waits, so a worker that can take donelock finds main      *)
(* waiting for exactly this worker, in threadJobDone or in stopThreads.    *)
(* And no worker is alive when ThreadPool_done frees what it uses.         *)
DoneSignalHeard ==
    /\ \A t \in Threads :
          wpc[t] = "signal" /\ ~donelock[t] =>
             \/ mpc = "wdone" /\ cur = t
             \/ mpc = "stopwait" /\ tgt = t
    /\ mpc = "down" => \A t \in Threads : wpc[t] = "dead"

(* When the finished handlers of a job have run, which free proc's         *)
(* argument, proc is not running and never will be: it was called once and *)
(* has returned, or never called and the job is marked as not completed.   *)
(* finished is raised at most once, and never for a job that panicked.     *)
FinishedMeansOver ==
    \A j \in Jobs :
       /\ raised[j] <= 1
       /\ raised[j] = 1 => /\ ~panicmsg[j]
                           /\ \/ calls[j] = 1 /\ ended[j] = 1
                              \/ calls[j] = 0 /\ ~hasCompleted[j]

(* A job waits in the queue only while some thread is going to look at the *)
(* queue again: dequeueJob runs nowhere but at the end of threadJobDone,   *)
(* so without a busy thread nothing would ever start the waiting job.      *)
NoStrandedJob ==
    (\E i \in Slots : jobQueue[i] # NoJob) =>
       \/ \E t \in Threads : job[t] # NoJob
       \/ mpc \in {"deq", "start"} \cup Stopping

(* The cancellation flag of a worker concerns the job it is running: a     *)
(* SIGUSR1 sent for an earlier job (timeout or cancel while that job was   *)
(* ending) is never seen by the next one, except when the pool stops.      *)
NoStaleCancel ==
    \A t \in Threads :
       (wpc[t] = "run" /\ jobcanceled[t]) => ~hasCompleted[job[t]] \/ stoprq[t]

(* What the finished handlers read from hasCompleted is final: a timeout   *)
(* or a cancellation after they ran does not change the outcome any more.  *)
OutcomeFinal ==
    [][\A j \in Jobs : raised[j] > 0 =>
          hasCompleted'[j] = hasCompleted[j] /\ ended'[j] = ended[j]]_vars

(* Every job that the pool accepted is finished, unless the pool is        *)
(* stopped: "The handler registered will be executed on a worker thread    *)
(* when a matching bot event occurs" (ircbot.h).                           *)
JobsFinish ==
    \A j \in Jobs : life[j] = "live" ~> (raised[j] = 1 \/ mpc \in Stopping)

(* Every thread that has a job is already executing it.                    *)
Settled == \A t \in Threads : job[t] # NoJob => wpc[t] \in {"run", "signal"}

(* ThreadPool_done returns if it is called when every job handed to a      *)
(* worker has reached that worker.  If stoprq is set before, the worker    *)
(* leaves without the done signal stopThreads waits for.                   *)
SettledShutdownCompletes ==
    (mpc = "stop" /\ tgt = 1 /\ Settled) ~> mpc = "down"

(* JobPool's view of a job: its place, and how far proc has come.          *)
JobState(j) ==
    IF life[j] \in {"new", "refused"} THEN life[j]
    ELSE IF life[j] = "live" /\ Queued(j) # {} THEN "waiting"
    ELSE IF life[j] = "freed" /\ calls[j] = 0
    THEN IF raised[j] = 1 THEN "cancelled" ELSE "dropped"
    ELSE IF life[j] = "freed" /\ panicmsg[j] THEN "panicked"
    ELSE IF raised[j] = 1 /\ calls[j] = 1 THEN "finished"
    ELSE IF ended[j] = 1 \/ panicmsg[j] THEN "executed"
    ELSE IF calls[j] = 1 THEN "executing"
    ELSE "assigned"

JobStates == [j \in Jobs |-> JobState(j)]

(* The entries of the ring, oldest first.                                  *)
SlotOf(i) == IF lastIdx + i - 1 < QueueSize THEN lastIdx + i - 1
             ELSE lastIdx + i - 1 - QueueSize
Entries ==
    IF mpc = "down" THEN <<>>
    ELSE [i \in 1..(QueueSize - queueAvail) |-> jobQueue[SlotOf(i)]]

Pool == INSTANCE JobPool WITH
    Workers <- NThreads, Length <- QueueSize, Gap <- NoJob,
    st <- JobStates, pending <- Entries

(* The pool of threadpool.c is a bounded first-in-first-out pool that      *)
(* executes a job at most once and refuses one only when its queue is full.*)
ImplementsJobPool == Pool!Spec
=============================================================================
