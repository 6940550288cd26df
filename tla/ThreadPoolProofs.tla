-------------------------- MODULE ThreadPoolProofs --------------------------
(***************************************************************************)
(* Proofs about ThreadPool, for every number of threads, queue size, job   *)
(* set and timeout.  The invariants of ThreadPool are not inductive on     *)
(* their own: they rest on the locking protocol (Handshake), on what is    *)
(* known of a job in each phase of its execution (JobPhases) and on where  *)
(* a SIGUSR1 can still be pending (Interrupts).  One lemma per invariant   *)
(* shows that every action preserves it; the theorems collect them.        *)
(***************************************************************************)
EXTENDS ThreadPool, FiniteSetTheorems, SequenceTheorems, TLAPS

(* The locking protocol between main and the workers: who holds which lock *)
(* where, and what is certain about a thread while main deals with it.     *)
Handshake ==
    /\ \A t \in Threads :
       /\ startlock[t] = "worker" <=> wpc[t] \in {"top", "run", "signal"}
       /\ startlock[t] = "main" <=> mpc = "hand" /\ tgt = t
       /\ stoprq[t] => mpc \in Stopping
       /\ wpc[t] \in {"run", "signal"} => job[t] # NoJob
       /\ wpc[t] = "wake" => job[t] # NoJob \/ stoprq[t]
       /\ pipe[t] > 0 => (pipe[t] = 1 /\ wpc[t] = "signal") \/ mpc \in Stopping
       /\ wpc[t] = "dead" => mpc \in Stopping
       /\ donelock[t] => job[t] # NoJob \/ mpc = "down"
       /\ job[t] # NoJob => \/ donelock[t]
                            \/ mpc = "hand" /\ tgt = t
                            \/ mpc \in {"wdone", "wokedone"} /\ cur = t
                            \/ mpc \in Stopping /\ t <= tgt
       /\ mpc \in Stopping /\ t < tgt => wpc[t] = "dead"
    /\ mpc = "start" => job[tgt] = NoJob /\ mj \in Jobs
    /\ mpc = "hand" => /\ job[tgt] = mj /\ mj \in Jobs
                       /\ wpc[tgt] \in {"create", "lock0", "wake"}
    /\ mpc \in {"wdone", "wokedone"} => job[cur] # NoJob /\ ~donelock[cur]
    /\ mpc = "wdone" => wpc[cur] = "signal" /\ pipe[cur] = 0
    /\ mpc = "wokedone" \/ Raising => job[cur] # NoJob /\ wpc[cur] \in {"top", "wait"}
    /\ mpc = "deq" => job[cur] = NoJob
    /\ mpc = "stop" => (job[tgt] # NoJob => donelock[tgt])
    /\ mpc = "stopwait" => job[tgt] # NoJob
    /\ mpc = "stopwoke" => wpc[tgt] \in {"top", "wait", "dead"}
    /\ mpc = "join" => /\ wpc[tgt] \notin {"run", "signal"}
                       /\ wpc[tgt] = "wake" => stoprq[tgt]
    /\ mpc = "down" => tgt = NThreads /\ wpc[tgt] = "dead"

(* How far a job's procedure has come, by the place of the job's thread.   *)
JobPhases ==
    /\ \A j \in Jobs : life[j] \notin {"freed", "lost"} /\ Held(j) = {} =>
          calls[j] = 0 /\ ended[j] = 0 /\ raised[j] = 0 /\ ~panicmsg[j]
    /\ \A t \in Threads : job[t] # NoJob =>
          /\ wpc[t] = "wake" =>
                calls[job[t]] = 0 /\ ended[job[t]] = 0 /\ ~panicmsg[job[t]]
          /\ wpc[t] = "run" =>
                calls[job[t]] = 1 /\ ended[job[t]] = 0 /\ ~panicmsg[job[t]]
          /\ wpc[t] = "signal" \/ (mpc = "wokedone" /\ cur = t) =>
                calls[job[t]] = 1 /\ (ended[job[t]] = 1 \/ panicmsg[job[t]])
          /\ ~(Raising /\ cur = t) => raised[job[t]] = 0

(* Main has waited for what thread t was executing.                        *)
Stopped(t) ==
    /\ mpc \in Stopping
    /\ t < tgt \/ (t = tgt /\ mpc \in {"stopwoke", "join"})

(* A stopped thread that still has a job has executed it.                  *)
StoppedAfterJob ==
    \A t \in Threads : job[t] # NoJob /\ Stopped(t) =>
       calls[job[t]] = 1 /\ (ended[job[t]] = 1 \/ panicmsg[job[t]])

(* Where a worker's cancellation flag may be set.                          *)
Interrupts ==
    /\ \A t \in Threads : jobcanceled[t] =>
          /\ wpc[t] \in {"wake", "run"} => ~hasCompleted[job[t]] \/ stoprq[t]
          /\ wpc[t] \in {"create", "lock0", "wait"} => job[t] # NoJob
    /\ (mpc = "wokedone" \/ Raising) /\ wpc[cur] = "wait" => ~jobcanceled[cur]

(* The inductive invariant.                                                *)
IndInv ==
    /\ TypeOK
    /\ QueueConsistent
    /\ Handshake
    /\ Owned
    /\ LeftBehind
    /\ JobPhases
    /\ StoppedAfterJob
    /\ FinishedMeansOver
    /\ Interrupts
    /\ NoStrandedJob

-----------------------------------------------------------------------------
(* Types.                                                                  *)

(* A history counter stays a counter, even where the index is null.        *)
LEMMA Bump == ASSUME NEW f \in [Jobs -> Nat], NEW x PROVE [f EXCEPT ![x] = @ + 1] \in [Jobs -> Nat]
<1>1. CASE x \in Jobs
  BY <1>1
<1>2. CASE x \notin Jobs
  BY <1>2, Zenon
<1> QED BY <1>1, <1>2

(* The ring's indices stay inside the array.                               *)
LEMMA WrapIn == ASSUME NEW i \in Slots PROVE Wrap(i + 1) \in Slots
  BY QueueSizeAssumption DEF Slots, Wrap

(* enqueueJob keeps the ring's types.                                      *)
LEMMA EnqueueType ==
  ASSUME TypeQueue, NEW j \in Jobs, enqueueJob(j) PROVE TypeQueue'
<1>1. CASE queueAvail = 0
  BY <1>1 DEF TypeQueue, enqueueJob, queueVars
<1>2. CASE queueAvail # 0
  <2>1. /\ jobQueue' = [jobQueue EXCEPT ![nextIdx] = j]
        /\ nextIdx' = Wrap(nextIdx + 1)
        /\ queueAvail' = queueAvail - 1
        /\ lastIdx' = lastIdx
    BY <1>2 DEF enqueueJob
  <2> QED BY <1>2, <2>1, WrapIn, QueueSizeAssumption DEF TypeQueue
<1> QED BY <1>1, <1>2

(* So does dequeueJob.                                                     *)
LEMMA DequeueType ==
  ASSUME TypeQueue, TypeMain, dequeueJob PROVE TypeQueue'
<1>1. CASE queueAvail = QueueSize
  BY <1>1 DEF TypeQueue, dequeueJob, queueVars
<1>2. CASE queueAvail # QueueSize
  BY <1>2, WrapIn, QueueSizeAssumption DEF TypeQueue, dequeueJob
<1> QED BY <1>1, <1>2

(* checkThreadJobs never counts a timeout below zero.                      *)
LEMMA TickType == ASSUME TypeJobs, TypeThreads, checkThreadJobs PROVE TypeJobs'
<1>1. \A t \in Ticking : job[t] \in Jobs /\ timeoutTicks[job[t]] > 0
  BY DEF Ticking, Assigned, TypeThreads
<1>2. timeoutTicks' \in [Jobs -> 0..JobTicks]
  <2>1. \A j \in Jobs : (IF \E t \in Ticking : job[t] = j
                          THEN timeoutTicks[j] - 1 ELSE timeoutTicks[j]) \in 0..JobTicks
    BY <1>1, JobTicksAssumption DEF TypeJobs
  <2> QED BY <2>1 DEF checkThreadJobs
<1>3. hasCompleted' \in [Jobs -> BOOLEAN]
   BY DEF checkThreadJobs
<1> QED BY <1>2, <1>3 DEF TypeJobs, checkThreadJobs

(* pthread_join, the step to the next thread, and the final clean-up.      *)
LEMMA JoinType == ASSUME TypeOK, Join PROVE TypeQueue' /\ TypeMain' /\ TypeJobs'
<1> USE DEF TypeOK, TypeQueue, TypeMain, TypeJobs
<1>1. CASE tgt < NThreads
  BY <1>1, NThreadsAssumption DEF Join, ThreadsFreed, Threads, MainPCs, queueVars
<1>2. CASE ~(tgt < NThreads)
  <2>1. TypeQueue' BY <1>2, QueueSizeAssumption DEF Join, ThreadsFreed
  <2>2. TypeMain' BY <1>2 DEF Join, ThreadsFreed, MainPCs
  <2>3. TypeJobs' BY <1>2 DEF Join, ThreadsFreed
  <2> QED BY <2>1, <2>2, <2>3
<1> QED BY <1>1, <1>2

(* Every step keeps the types.                                             *)
LEMMA TypeStep == TypeOK /\ [Next]_vars => TypeOK'
<1> SUFFICES ASSUME TypeOK, [Next]_vars PROVE TypeOK'
  OBVIOUS
<1> USE NThreadsAssumption, QueueSizeAssumption, NoJobAssumption, JobTicksAssumption
<1> USE DEF TypeOK, TypeThreads, TypeQueue, TypeMain, TypeJobs, TypeHistory,
        Threads, Slots, MainPCs, WorkerPCs
<1>1. ASSUME NEW j \in Jobs, Submit(j) PROVE TypeOK'
  <2>1. TypeThreads'
    BY <1>1 DEF Submit, enqueueJob, Wrap, availableThread, FreeThreads, vars, threadVars, queueVars, mainVars, jobVars, history
  <2>2. TypeQueue'
    BY <1>1, EnqueueType DEF Submit, queueVars
  <2>3. TypeMain'
    BY <1>1 DEF Submit, enqueueJob, Wrap, availableThread, FreeThreads, vars, threadVars, queueVars, mainVars, jobVars, history
  <2>4. TypeJobs'
    BY <1>1 DEF Submit, enqueueJob, Wrap, availableThread, FreeThreads, vars, threadVars, queueVars, mainVars, jobVars, history
  <2>5. TypeHistory'
    BY <1>1 DEF Submit, enqueueJob, Wrap, availableThread, FreeThreads, vars, threadVars, queueVars, mainVars, jobVars, history
  <2> QED  BY <2>1, <2>2, <2>3, <2>4, <2>5
<1>2. ASSUME NEW j \in Jobs, CancelRunning(j) PROVE TypeOK'
  BY <1>2 DEF CancelRunning, workerInterrupt, vars, threadVars, queueVars, mainVars, jobVars, history
<1>3. ASSUME NEW j \in Jobs, CancelQueued(j) PROVE TypeOK'
  <2>1. TypeThreads' /\ TypeMain'
    BY <1>3 DEF CancelQueued, threadVars, mainVars
  <2>2. TypeQueue'
    BY <1>3 DEF CancelQueued
  <2>3. TypeJobs'
    BY <1>3 DEF CancelQueued
  <2>4. TypeHistory'
    BY <1>3, Bump DEF CancelQueued
  <2> QED BY <2>1, <2>2, <2>3, <2>4
<1>4. CASE LockStart
  BY <1>4 DEF LockStart, vars, threadVars, queueVars, mainVars, jobVars, history
<1>5. CASE LockDone
  BY <1>5 DEF LockDone, vars, threadVars, queueVars, mainVars, jobVars, history
<1>6. CASE JobDonePanic
  <2>1. TypeThreads'
    BY <1>6 DEF JobDonePanic, vars, threadVars, queueVars, mainVars, jobVars, history
  <2>2. TypeQueue'
    BY <1>6 DEF JobDonePanic, vars, threadVars, queueVars, mainVars, jobVars, history
  <2>3. TypeMain'
    BY <1>6 DEF JobDonePanic, vars, threadVars, queueVars, mainVars, jobVars, history
  <2>4. TypeJobs'
    BY <1>6 DEF JobDonePanic, vars, threadVars, queueVars, mainVars, jobVars, history
  <2>5. TypeHistory'
    BY <1>6 DEF JobDonePanic, vars, threadVars, queueVars, mainVars, jobVars, history
  <2> QED  BY <2>1, <2>2, <2>3, <2>4, <2>5
<1>7. CASE JobDoneRaise
  <2>1. TypeThreads'
    BY <1>7 DEF JobDoneRaise, vars, threadVars, queueVars, mainVars, jobVars, history
  <2>2. TypeQueue'
    BY <1>7 DEF JobDoneRaise, vars, threadVars, queueVars, mainVars, jobVars, history
  <2>3. TypeMain'
    BY <1>7 DEF JobDoneRaise, vars, threadVars, queueVars, mainVars, jobVars, history
  <2>4. TypeJobs'
    BY <1>7 DEF JobDoneRaise, vars, threadVars, queueVars, mainVars, jobVars, history
  <2>5. TypeHistory'
    BY <1>7, Bump DEF JobDoneRaise
  <2> QED  BY <2>1, <2>2, <2>3, <2>4, <2>5
<1>8. CASE JobDoneFree
  BY <1>8 DEF JobDoneFree, vars, threadVars, queueVars, mainVars, jobVars, history
<1>9. CASE dequeueJob
  <2>1. TypeThreads'
    BY <1>9 DEF dequeueJob, Wrap, vars, threadVars, queueVars, mainVars, jobVars, history
  <2>2. TypeQueue'
    BY <1>9, DequeueType
  <2>3. TypeMain'
    <3>1. CASE queueAvail = QueueSize
      BY <1>9, <3>1 DEF dequeueJob
    <3>2. CASE queueAvail # QueueSize /\ jobQueue[lastIdx] = NoJob
      BY <1>9, <3>2 DEF dequeueJob
    <3>3. CASE queueAvail # QueueSize /\ jobQueue[lastIdx] # NoJob
      <4>1. /\ mpc' = "start" /\ tgt' = cur /\ ret' = "loop" /\ cur' = cur
            /\ mj' = jobQueue[lastIdx]
        BY <1>9, <3>3 DEF dequeueJob
      <4>2. jobQueue[lastIdx] \in Jobs \cup {NoJob}
        OBVIOUS
      <4> QED BY <4>1, <4>2
    <3> QED BY <3>1, <3>2, <3>3
  <2>4. TypeJobs'
    BY <1>9 DEF dequeueJob, Wrap, vars, threadVars, queueVars, mainVars, jobVars, history
  <2>5. TypeHistory'
    BY <1>9 DEF dequeueJob, Wrap, vars, threadVars, queueVars, mainVars, jobVars, history
  <2> QED  BY <2>1, <2>2, <2>3, <2>4, <2>5
<1>10. CASE StopBusy
  BY <1>10 DEF StopBusy, workerInterrupt, vars, threadVars, queueVars, mainVars, jobVars, history
<1>11. CASE StopBusyWoke
  BY <1>11 DEF StopBusyWoke, vars, threadVars, queueVars, mainVars, jobVars, history
<1>12. CASE StopIdle
  BY <1>12 DEF StopIdle, vars, threadVars, queueVars, mainVars, jobVars, history
<1>13. CASE Join
  <2>1. TypeThreads'
    <3>1. UNCHANGED <<startlock, donelock, pipe, stoprq, jobcanceled, wpc>>
      BY <1>13 DEF Join, ThreadsFreed
    <3>2. job' = job \/ job' = [t \in Threads |-> NoJob]
      BY <1>13 DEF Join, ThreadsFreed
    <3>3. job' \in [Threads -> Jobs \cup {NoJob}]
      BY <3>2
    <3> QED BY <3>1, <3>3
  <2>2. TypeQueue'
    BY <1>13, JoinType
  <2>3. TypeMain'
    BY <1>13, JoinType
  <2>4. TypeJobs'
    BY <1>13, JoinType
  <2>5. TypeHistory'
    BY <1>13 DEF Join, ThreadsFreed, vars, threadVars, queueVars, mainVars, jobVars, history
  <2> QED  BY <2>1, <2>2, <2>3, <2>4, <2>5
<1>14. CASE checkThreadJobs
  <2>1. TypeThreads'
    BY <1>14 DEF checkThreadJobs, Assigned, Ticking, Expiring, workerInterrupt, vars, threadVars, queueVars, mainVars, jobVars, history
  <2>2. TypeQueue'
    BY <1>14 DEF checkThreadJobs, Assigned, Ticking, Expiring, workerInterrupt, vars, threadVars, queueVars, mainVars, jobVars, history
  <2>3. TypeMain'
    BY <1>14 DEF checkThreadJobs, Assigned, Ticking, Expiring, workerInterrupt, vars, threadVars, queueVars, mainVars, jobVars, history
  <2>4. TypeJobs'
    BY <1>14, TickType
  <2>5. TypeHistory'
    BY <1>14 DEF checkThreadJobs, Assigned, Ticking, Expiring, workerInterrupt, vars, threadVars, queueVars, mainVars, jobVars, history
  <2> QED  BY <2>1, <2>2, <2>3, <2>4, <2>5
<1>15. CASE Shutdown
  BY <1>15 DEF Shutdown, vars, threadVars, queueVars, mainVars, jobVars, history
<1>16. ASSUME NEW t \in Threads, JobDoneWait(t) PROVE TypeOK'
  <2>1. TypeThreads'
    BY <1>16, SMTT(30) DEF JobDoneWait
  <2>2. TypeMain'
    BY <1>16 DEF JobDoneWait
  <2>3. TypeQueue' /\ TypeJobs' /\ TypeHistory'
    BY <1>16 DEF JobDoneWait, queueVars, jobVars, history
  <2> QED BY <2>1, <2>2, <2>3
<1>17. ASSUME NEW t \in Threads, NEW j \in Jobs, WorkerEnqueue(t, j) PROVE TypeOK'
  <2>1. TypeThreads'
    BY <1>17 DEF WorkerEnqueue, enqueueJob, Wrap, vars, threadVars, queueVars, mainVars, jobVars, history
  <2>2. TypeQueue'
    BY <1>17, EnqueueType DEF WorkerEnqueue
  <2>3. TypeMain'
    BY <1>17 DEF WorkerEnqueue, enqueueJob, Wrap, vars, threadVars, queueVars, mainVars, jobVars, history
  <2>4. TypeJobs'
    BY <1>17 DEF WorkerEnqueue, enqueueJob, Wrap, vars, threadVars, queueVars, mainVars, jobVars, history
  <2>5. TypeHistory'
    BY <1>17 DEF WorkerEnqueue, enqueueJob, Wrap, vars, threadVars, queueVars, mainVars, jobVars, history
  <2> QED  BY <2>1, <2>2, <2>3, <2>4, <2>5
<1>18. ASSUME NEW t \in Threads, Begin(t) PROVE TypeOK'
  BY <1>18 DEF Begin, vars, threadVars, queueVars, mainVars, jobVars, history
<1>19. ASSUME NEW t \in Threads, LockFirst(t) PROVE TypeOK'
  BY <1>19 DEF LockFirst, vars, threadVars, queueVars, mainVars, jobVars, history
<1>20. ASSUME NEW t \in Threads, LoopTop(t) PROVE TypeOK'
  BY <1>20 DEF LoopTop, vars, threadVars, queueVars, mainVars, jobVars, history
<1>21. ASSUME NEW t \in Threads, WakeStop(t) PROVE TypeOK'
  BY <1>21 DEF WakeStop, vars, threadVars, queueVars, mainVars, jobVars, history
<1>22. ASSUME NEW t \in Threads, WakeRun(t) PROVE TypeOK'
  <2>1. TypeThreads'
    BY <1>22 DEF WakeRun, vars, threadVars, queueVars, mainVars, jobVars, history
  <2>2. TypeQueue'
    BY <1>22 DEF WakeRun, vars, threadVars, queueVars, mainVars, jobVars, history
  <2>3. TypeMain'
    BY <1>22 DEF WakeRun, vars, threadVars, queueVars, mainVars, jobVars, history
  <2>4. TypeJobs'
    BY <1>22 DEF WakeRun, vars, threadVars, queueVars, mainVars, jobVars, history
  <2>5. TypeHistory'
    BY <1>22, Bump DEF WakeRun
  <2> QED  BY <2>1, <2>2, <2>3, <2>4, <2>5
<1>23. ASSUME NEW t \in Threads, ProcEnds(t) PROVE TypeOK'
  <2>1. TypeThreads'
    BY <1>23 DEF ProcEnds, vars, threadVars, queueVars, mainVars, jobVars, history
  <2>2. TypeQueue'
    BY <1>23 DEF ProcEnds, vars, threadVars, queueVars, mainVars, jobVars, history
  <2>3. TypeMain'
    BY <1>23 DEF ProcEnds, vars, threadVars, queueVars, mainVars, jobVars, history
  <2>4. TypeJobs'
    BY <1>23 DEF ProcEnds, vars, threadVars, queueVars, mainVars, jobVars, history
  <2>5. TypeHistory'
    BY <1>23, Bump DEF ProcEnds
  <2> QED  BY <2>1, <2>2, <2>3, <2>4, <2>5
<1>24. ASSUME NEW t \in Threads, ProcPanics(t) PROVE TypeOK'
  <2>1. TypeThreads'
    BY <1>24 DEF ProcPanics, vars, threadVars, queueVars, mainVars, jobVars, history
  <2>2. TypeQueue'
    BY <1>24 DEF ProcPanics, vars, threadVars, queueVars, mainVars, jobVars, history
  <2>3. TypeMain'
    BY <1>24 DEF ProcPanics, vars, threadVars, queueVars, mainVars, jobVars, history
  <2>4. TypeJobs'
    BY <1>24 DEF ProcPanics, vars, threadVars, queueVars, mainVars, jobVars, history
  <2>5. TypeHistory'
    BY <1>24 DEF ProcPanics, vars, threadVars, queueVars, mainVars, jobVars, history
  <2> QED  BY <2>1, <2>2, <2>3, <2>4, <2>5
<1>25. ASSUME NEW t \in Threads, SignalDone(t) PROVE TypeOK'
  BY <1>25 DEF SignalDone, vars, threadVars, queueVars, mainVars, jobVars, history
<1>26. CASE UNCHANGED vars
  BY <1>26 DEF vars, threadVars, queueVars, mainVars, jobVars, history
<1> QED
  BY <1>1, <1>2, <1>3, <1>4, <1>5, <1>6, <1>7, <1>8, <1>9, <1>10, <1>11,
     <1>12, <1>13, <1>14, <1>15, <1>16, <1>17, <1>18, <1>19, <1>20, <1>21,
     <1>22, <1>23, <1>24, <1>25, <1>26
  DEF Next, Environment, MainStep, WorkerStep

-----------------------------------------------------------------------------
(* The ring buffer.                                                        *)

(* enqueueJob fills the one slot after the part in use.                    *)
LEMMA EnqueueRing ==
  ASSUME TypeQueue, mpc # "down", mpc' # "down", QueueConsistent, NEW j \in Jobs, enqueueJob(j)
  PROVE  QueueConsistent'
<1>1. CASE queueAvail = 0
  BY <1>1 DEF enqueueJob, queueVars, QueueConsistent, InUse
<1>2. CASE queueAvail # 0
  <2> USE QueueSizeAssumption DEF TypeQueue, Slots
  <2>1. /\ jobQueue' = [jobQueue EXCEPT ![nextIdx] = j]
        /\ nextIdx' = Wrap(nextIdx + 1)
        /\ queueAvail' = queueAvail - 1
        /\ lastIdx' = lastIdx
    BY <1>2 DEF enqueueJob
  <2>2. QueueSize - queueAvail' =
             IF queueAvail' = QueueSize THEN 0
             ELSE IF lastIdx' < nextIdx' THEN nextIdx' - lastIdx'
             ELSE QueueSize - lastIdx' + nextIdx'
    BY <1>2, <2>1 DEF QueueConsistent, Wrap
  <2>3. \A i \in Slots : ~InUse(i)' => jobQueue'[i] = NoJob
    <3> SUFFICES ASSUME NEW i \in Slots, ~InUse(i)' PROVE jobQueue'[i] = NoJob
      OBVIOUS
    <3>1. ~InUse(i) /\ i # nextIdx
      BY <1>2, <2>1 DEF QueueConsistent, InUse, Wrap
    <3> QED BY <3>1, <2>1 DEF QueueConsistent
  <2>4. queueAvail' # QueueSize
    BY <1>2, <2>1
  <2> QED BY <2>2, <2>3, <2>4 DEF QueueConsistent
<1> QED BY <1>1, <1>2

(* dequeueJob clears the first slot of the part in use.                    *)
LEMMA DequeueRing ==
  ASSUME TypeQueue, QueueConsistent, dequeueJob
  PROVE  QueueConsistent'
<1>0. mpc # "down" BY DEF dequeueJob
<1>1. CASE queueAvail = QueueSize
  BY <1>0, <1>1 DEF dequeueJob, queueVars, QueueConsistent, InUse
<1>2. CASE queueAvail # QueueSize
  <2> USE QueueSizeAssumption DEF TypeQueue, Slots
  <2>1. /\ jobQueue' = [jobQueue EXCEPT ![lastIdx] = NoJob]
        /\ lastIdx' = Wrap(lastIdx + 1)
        /\ queueAvail' = queueAvail + 1
        /\ nextIdx' = nextIdx
    BY <1>2 DEF dequeueJob
  <2>2. QueueSize - queueAvail' =
             IF queueAvail' = QueueSize THEN 0
             ELSE IF lastIdx' < nextIdx' THEN nextIdx' - lastIdx'
             ELSE QueueSize - lastIdx' + nextIdx'
    BY <1>0, <1>2, <2>1 DEF QueueConsistent, Wrap
  <2>3. \A i \in Slots : ~InUse(i)' => jobQueue'[i] = NoJob
    <3> SUFFICES ASSUME NEW i \in Slots, ~InUse(i)' PROVE jobQueue'[i] = NoJob
      OBVIOUS
    <3>1. ~InUse(i) \/ i = lastIdx
      BY <1>0, <1>2, <2>1 DEF QueueConsistent, InUse, Wrap
    <3> QED BY <1>0, <3>1, <2>1 DEF QueueConsistent
  <2>4. queueAvail' = QueueSize => nextIdx' = lastIdx'
    BY <1>0, <1>2, <2>1 DEF QueueConsistent, Wrap
  <2> QED BY <2>2, <2>3, <2>4 DEF QueueConsistent
<1> QED BY <1>1, <1>2

(* Every step keeps the ring consistent.                                   *)
LEMMA QueueConsistentStep ==
    ASSUME TypeOK, TypeOK', Handshake, QueueConsistent, [Next]_vars
    PROVE  QueueConsistent'
<1> USE QueueSizeAssumption, NoJobAssumption
<1> USE DEF TypeOK, TypeQueue, TypeMain, Slots, MainPCs, QueueConsistent,
            InUse
<1>1. ASSUME NEW j \in Jobs, Submit(j) PROVE QueueConsistent'
  <2>1. CASE FreeThreads # {}
    BY <1>1, <2>1 DEF Submit, queueVars
  <2>2. CASE FreeThreads = {}
    BY <1>1, <2>2, EnqueueRing DEF Submit, mainVars
  <2> QED  BY <2>1, <2>2
<1>2. ASSUME NEW j \in Jobs, CancelRunning(j) PROVE QueueConsistent'
  BY <1>2 DEF CancelRunning, workerInterrupt, threadVars, queueVars, mainVars,
     jobVars, history
<1>3. ASSUME NEW j \in Jobs, CancelQueued(j) PROVE QueueConsistent'
  BY <1>3 DEF CancelQueued, threadVars, queueVars, mainVars, jobVars, history
<1>4. CASE LockStart
  BY <1>4 DEF LockStart, threadVars, queueVars, mainVars, jobVars, history
<1>5. CASE LockDone
  BY <1>5 DEF LockDone, threadVars, queueVars, mainVars, jobVars, history
<1>6. CASE JobDonePanic
  BY <1>6 DEF JobDonePanic, threadVars, queueVars, mainVars, jobVars, history,
     Stopping
<1>7. CASE JobDoneRaise
  BY <1>7 DEF JobDoneRaise, threadVars, queueVars, mainVars, jobVars, history
<1>8. CASE JobDoneFree
  BY <1>8 DEF JobDoneFree, threadVars, queueVars, mainVars, jobVars, history
<1>9. CASE dequeueJob
  BY <1>9, DequeueRing
<1>10. CASE StopBusy
  BY <1>10 DEF StopBusy, workerInterrupt, threadVars, queueVars, mainVars,
     jobVars, history
<1>11. CASE StopBusyWoke
  BY <1>11 DEF StopBusyWoke, threadVars, queueVars, mainVars, jobVars, history
<1>12. CASE StopIdle
  BY <1>12 DEF StopIdle, threadVars, queueVars, mainVars, jobVars, history
<1>13. CASE Join
  BY <1>13 DEF Join, ThreadsFreed, threadVars, queueVars, mainVars, jobVars, history
<1>14. CASE checkThreadJobs
  BY <1>14 DEF checkThreadJobs, workerInterrupt, threadVars, queueVars,
     mainVars, jobVars, history
<1>15. CASE Shutdown
  BY <1>15 DEF Shutdown, threadVars, queueVars, mainVars, jobVars, history
<1>16. ASSUME NEW t \in Threads, JobDoneWait(t) PROVE QueueConsistent'
  BY <1>16 DEF JobDoneWait, threadVars, queueVars, mainVars, jobVars, history
<1>17. ASSUME NEW t \in Threads, NEW j \in Jobs, WorkerEnqueue(t, j)
      PROVE  QueueConsistent'
  <2>1. CASE mpc = "down"
    BY <1>17, <2>1 DEF WorkerEnqueue, mainVars
  <2>2. CASE mpc # "down"
    BY <1>17, <2>2, EnqueueRing DEF WorkerEnqueue, mainVars
  <2> QED  BY <2>1, <2>2
<1>18. ASSUME NEW t \in Threads, Begin(t) PROVE QueueConsistent'
  BY <1>18 DEF Begin, threadVars, queueVars, mainVars, jobVars, history
<1>19. ASSUME NEW t \in Threads, LockFirst(t) PROVE QueueConsistent'
  BY <1>19 DEF LockFirst, threadVars, queueVars, mainVars, jobVars, history
<1>20. ASSUME NEW t \in Threads, LoopTop(t) PROVE QueueConsistent'
  BY <1>20 DEF LoopTop, threadVars, queueVars, mainVars, jobVars, history
<1>21. ASSUME NEW t \in Threads, WakeStop(t) PROVE QueueConsistent'
  BY <1>21 DEF WakeStop, threadVars, queueVars, mainVars, jobVars, history
<1>22. ASSUME NEW t \in Threads, WakeRun(t) PROVE QueueConsistent'
  BY <1>22 DEF WakeRun, threadVars, queueVars, mainVars, jobVars, history
<1>23. ASSUME NEW t \in Threads, ProcEnds(t) PROVE QueueConsistent'
  BY <1>23 DEF ProcEnds, threadVars, queueVars, mainVars, jobVars, history
<1>24. ASSUME NEW t \in Threads, ProcPanics(t) PROVE QueueConsistent'
  BY <1>24 DEF ProcPanics, threadVars, queueVars, mainVars, jobVars, history
<1>25. ASSUME NEW t \in Threads, SignalDone(t) PROVE QueueConsistent'
  BY <1>25 DEF SignalDone, threadVars, queueVars, mainVars, jobVars, history
<1>26. CASE UNCHANGED vars
  BY <1>26 DEF vars, threadVars, queueVars, mainVars, jobVars, history
<1> QED
  BY <1>1, <1>2, <1>3, <1>4, <1>5, <1>6, <1>7, <1>8, <1>9, <1>10, <1>11,
     <1>12, <1>13, <1>14, <1>15, <1>16, <1>17, <1>18, <1>19, <1>20, <1>21,
     <1>22, <1>23, <1>24, <1>25, <1>26
  DEF Next, Environment, MainStep, WorkerStep

-----------------------------------------------------------------------------
(* The locking protocol and the ownership of jobs.                         *)

(* Every step keeps to the locking protocol.                               *)
LEMMA HandshakeStep ==
    ASSUME TypeOK, TypeOK', Handshake, [Next]_vars
    PROVE  Handshake'
<1> USE NThreadsAssumption, NoJobAssumption
<1> USE DEF TypeOK, TypeThreads, TypeMain, Threads, MainPCs, WorkerPCs,
            Handshake, Raising, Stopping
<1>1. ASSUME NEW j \in Jobs, Submit(j) PROVE Handshake'
  BY <1>1 DEF Submit, enqueueJob, availableThread, FreeThreads, threadVars,
     queueVars, mainVars, jobVars, history
<1>2. ASSUME NEW j \in Jobs, CancelRunning(j) PROVE Handshake'
  BY <1>2 DEF CancelRunning, workerInterrupt, threadVars, queueVars, mainVars,
     jobVars, history
<1>3. ASSUME NEW j \in Jobs, CancelQueued(j) PROVE Handshake'
  BY <1>3 DEF CancelQueued, threadVars, queueVars, mainVars, jobVars, history
<1>4. CASE LockStart
  BY <1>4 DEF LockStart, threadVars, queueVars, mainVars, jobVars, history
<1>5. CASE LockDone
  BY <1>5 DEF LockDone, threadVars, queueVars, mainVars, jobVars, history
<1>6. CASE JobDonePanic
  BY <1>6 DEF JobDonePanic, threadVars, queueVars, mainVars, jobVars, history
<1>7. CASE JobDoneRaise
  BY <1>7 DEF JobDoneRaise, threadVars, queueVars, mainVars, jobVars, history
<1>8. CASE JobDoneFree
  BY <1>8 DEF JobDoneFree, threadVars, queueVars, mainVars, jobVars, history
<1>9. CASE dequeueJob
  BY <1>9 DEF dequeueJob, threadVars, queueVars, mainVars, jobVars, history
<1>10. CASE StopBusy
  BY <1>10 DEF StopBusy, workerInterrupt, threadVars, queueVars, mainVars,
     jobVars, history
<1>11. CASE StopBusyWoke
  BY <1>11 DEF StopBusyWoke, threadVars, queueVars, mainVars, jobVars, history
<1>12. CASE StopIdle
  BY <1>12 DEF StopIdle, threadVars, queueVars, mainVars, jobVars, history
<1>13. CASE Join
  BY <1>13 DEF Join, ThreadsFreed, threadVars, queueVars, mainVars, jobVars, history
<1>14. CASE checkThreadJobs
  BY <1>14 DEF checkThreadJobs, workerInterrupt, threadVars, queueVars,
     mainVars, jobVars, history
<1>15. CASE Shutdown
  BY <1>15 DEF Shutdown, threadVars, queueVars, mainVars, jobVars, history
<1>16. ASSUME NEW t \in Threads, JobDoneWait(t) PROVE Handshake'
  BY <1>16 DEF JobDoneWait, threadVars, queueVars, mainVars, jobVars, history
<1>17. ASSUME NEW t \in Threads, NEW j \in Jobs, WorkerEnqueue(t, j)
      PROVE  Handshake'
  BY <1>17 DEF WorkerEnqueue, enqueueJob, threadVars, queueVars, mainVars,
     jobVars, history
<1>18. ASSUME NEW t \in Threads, Begin(t) PROVE Handshake'
  BY <1>18 DEF Begin, threadVars, queueVars, mainVars, jobVars, history
<1>19. ASSUME NEW t \in Threads, LockFirst(t) PROVE Handshake'
  BY <1>19 DEF LockFirst, threadVars, queueVars, mainVars, jobVars, history
<1>20. ASSUME NEW t \in Threads, LoopTop(t) PROVE Handshake'
  BY <1>20 DEF LoopTop, threadVars, queueVars, mainVars, jobVars, history
<1>21. ASSUME NEW t \in Threads, WakeStop(t) PROVE Handshake'
  BY <1>21 DEF WakeStop, threadVars, queueVars, mainVars, jobVars, history
<1>22. ASSUME NEW t \in Threads, WakeRun(t) PROVE Handshake'
  BY <1>22 DEF WakeRun, threadVars, queueVars, mainVars, jobVars, history
<1>23. ASSUME NEW t \in Threads, ProcEnds(t) PROVE Handshake'
  BY <1>23 DEF ProcEnds, threadVars, queueVars, mainVars, jobVars, history
<1>24. ASSUME NEW t \in Threads, ProcPanics(t) PROVE Handshake'
  BY <1>24 DEF ProcPanics, threadVars, queueVars, mainVars, jobVars, history
<1>25. ASSUME NEW t \in Threads, SignalDone(t) PROVE Handshake'
  BY <1>25 DEF SignalDone, threadVars, queueVars, mainVars, jobVars, history
<1>26. CASE UNCHANGED vars
  BY <1>26 DEF vars, threadVars, queueVars, mainVars, jobVars, history
<1> QED
  BY <1>1, <1>2, <1>3, <1>4, <1>5, <1>6, <1>7, <1>8, <1>9, <1>10, <1>11,
     <1>12, <1>13, <1>14, <1>15, <1>16, <1>17, <1>18, <1>19, <1>20, <1>21,
     <1>22, <1>23, <1>24, <1>25, <1>26
  DEF Next, Environment, MainStep, WorkerStep

(* A queued job gets exactly one owner, a refused one none.                *)
LEMMA EnqueueOwner ==
  ASSUME TypeOK, mpc # "down", QueueConsistent, Owned, NEW j \in Jobs, enqueueJob(j),
         UNCHANGED <<job, mainVars>>
  PROVE  Owned'
<1> USE NoJobAssumption DEF TypeOK, TypeThreads, TypeQueue, TypeMain, TypeJobs, mainVars
<1>1. CASE queueAvail = 0
  BY <1>1 DEF enqueueJob, queueVars, Owned, Held, Queued, InHand
<1>2. CASE queueAvail # 0
  <2>1. /\ jobQueue' = [jobQueue EXCEPT ![nextIdx] = j]
        /\ life' = [life EXCEPT ![j] = "live"]
        /\ life[j] = "new"
    BY <1>2 DEF enqueueJob
  <2>2. jobQueue[nextIdx] = NoJob
    BY <1>2, QueueSizeAssumption DEF QueueConsistent, InUse, Slots
  <2>3. \A i \in Slots : jobQueue[i] # j
    BY <2>1 DEF Owned, Queued
  <2>4. \A t \in Threads : job[t] # j
    BY <2>1 DEF Owned, Held
  <2>5. ~InHand(j)
    BY <2>1 DEF Owned
  <2> QED BY <2>1, <2>2, <2>3, <2>4, <2>5 DEF Owned, Held, Queued, InHand
<1> QED BY <1>1, <1>2

(* Every step moves a job from one owner to the next, or frees it.         *)
LEMMA OwnedStep ==
    ASSUME TypeOK, TypeOK', QueueConsistent, Handshake, Owned,
                    [Next]_vars
    PROVE  Owned'
<1> USE NThreadsAssumption, NoJobAssumption
<1> USE DEF TypeOK, TypeThreads, TypeQueue, TypeMain, TypeJobs, MainPCs,
            Owned, Held, Queued, InHand
<1>1. ASSUME NEW j \in Jobs, Submit(j) PROVE Owned'
  <2>1. CASE FreeThreads # {}
    <3>1. /\ life[j] = "new" /\ life' = [life EXCEPT ![j] = "live"]
          /\ mpc # "start" /\ mpc' = "start" /\ mj' = j
          /\ UNCHANGED <<job, jobQueue>>
      BY <1>1, <2>1 DEF Submit, threadVars, queueVars
    <3>2. Held(j) = {} /\ Queued(j) = {} /\ InHand(j)'
      BY <3>1
    <3>3. \A i \in Jobs \ {j} : ~InHand(i) /\ ~InHand(i)'
      BY <3>1
    <3>4. \A i \in Jobs : Held(i)' = Held(i) /\ Queued(i)' = Queued(i)
      BY <3>1
    <3>5. \A i \in Jobs : life'[i] = IF i = j THEN "live" ELSE life[i]
      BY <3>1
    <3>6. \A i \in Jobs : (life[i] = "live")' <=> (Held(i) # {} \/ Queued(i) # {} \/ InHand(i))'
      <4> HIDE DEF Held, Queued, InHand
      <4> QED BY <3>2, <3>3, <3>4, <3>5, ZenonT(30)
    <3>7. \A i \in Jobs : InHand(i)' => Held(i)' = {} /\ Queued(i)' = {}
      <4> HIDE DEF Held, Queued, InHand
      <4> QED BY <3>2, <3>3, <3>4
    <3> QED  BY <3>1, <3>6, <3>7
  <2>2. CASE FreeThreads = {}
    BY <1>1, <2>2, EnqueueOwner DEF Submit, threadVars
  <2> QED  BY <2>1, <2>2
<1>2. ASSUME NEW j \in Jobs, CancelRunning(j) PROVE Owned'
  BY <1>2 DEF CancelRunning, workerInterrupt, threadVars, queueVars, mainVars,
     jobVars, history
<1>3. ASSUME NEW j \in Jobs, CancelQueued(j) PROVE Owned'
  BY <1>3 DEF CancelQueued, threadVars, queueVars, mainVars, jobVars, history
<1>4. CASE LockStart
  BY <1>4 DEF LockStart, threadVars, queueVars, mainVars, jobVars, history,
     Handshake
<1>5. CASE LockDone
  BY <1>5 DEF LockDone, threadVars, queueVars, mainVars, jobVars, history
<1>6. CASE JobDonePanic
  <2>1. /\ job[cur] \in Jobs
        /\ life' = [life EXCEPT ![job[cur]] = "freed"]
        /\ job' = [job EXCEPT ![cur] = NoJob]
        /\ mpc = "wokedone" /\ mpc' = "stop"
        /\ UNCHANGED <<jobQueue, mj>>
    BY <1>6 DEF JobDonePanic, Handshake, queueVars
  <2> QED  BY <2>1
<1>7. CASE JobDoneRaise
  BY <1>7 DEF JobDoneRaise, threadVars, queueVars, mainVars, jobVars, history
<1>8. CASE JobDoneFree
  BY <1>8 DEF JobDoneFree, threadVars, queueVars, mainVars, jobVars, history,
     Handshake
<1>9. CASE dequeueJob
  BY <1>9 DEF dequeueJob, threadVars, queueVars, mainVars, jobVars, history,
     Handshake
<1>10. CASE StopBusy
  BY <1>10 DEF StopBusy, workerInterrupt, threadVars, queueVars, mainVars,
     jobVars, history
<1>11. CASE StopBusyWoke
  BY <1>11 DEF StopBusyWoke, threadVars, queueVars, mainVars, jobVars, history
<1>12. CASE StopIdle
  BY <1>12 DEF StopIdle, threadVars, queueVars, mainVars, jobVars, history
<1>13. CASE Join
  BY <1>13 DEF Join, ThreadsFreed, threadVars, queueVars, mainVars, jobVars, history
<1>14. CASE checkThreadJobs
  BY <1>14 DEF checkThreadJobs, workerInterrupt, threadVars, queueVars,
     mainVars, jobVars, history
<1>15. CASE Shutdown
  BY <1>15 DEF Shutdown, threadVars, queueVars, mainVars, jobVars, history
<1>16. ASSUME NEW t \in Threads, JobDoneWait(t) PROVE Owned'
  BY <1>16 DEF JobDoneWait, threadVars, queueVars, mainVars, jobVars, history
<1>17. ASSUME NEW t \in Threads, NEW j \in Jobs, WorkerEnqueue(t, j)
      PROVE  Owned'
  <2>1. mpc # "down"
    <3>1. t < NThreads \/ t = NThreads
      BY DEF Threads
    <3> QED  BY <1>17, <3>1 DEF WorkerEnqueue, Handshake, Stopping
  <2> QED
    BY <1>17, <2>1, EnqueueOwner DEF WorkerEnqueue, threadVars
<1>18. ASSUME NEW t \in Threads, Begin(t) PROVE Owned'
  BY <1>18 DEF Begin, threadVars, queueVars, mainVars, jobVars, history
<1>19. ASSUME NEW t \in Threads, LockFirst(t) PROVE Owned'
  BY <1>19 DEF LockFirst, threadVars, queueVars, mainVars, jobVars, history
<1>20. ASSUME NEW t \in Threads, LoopTop(t) PROVE Owned'
  BY <1>20 DEF LoopTop, threadVars, queueVars, mainVars, jobVars, history
<1>21. ASSUME NEW t \in Threads, WakeStop(t) PROVE Owned'
  BY <1>21 DEF WakeStop, threadVars, queueVars, mainVars, jobVars, history
<1>22. ASSUME NEW t \in Threads, WakeRun(t) PROVE Owned'
  BY <1>22 DEF WakeRun, threadVars, queueVars, mainVars, jobVars, history
<1>23. ASSUME NEW t \in Threads, ProcEnds(t) PROVE Owned'
  BY <1>23 DEF ProcEnds, threadVars, queueVars, mainVars, jobVars, history
<1>24. ASSUME NEW t \in Threads, ProcPanics(t) PROVE Owned'
  BY <1>24 DEF ProcPanics, threadVars, queueVars, mainVars, jobVars, history
<1>25. ASSUME NEW t \in Threads, SignalDone(t) PROVE Owned'
  BY <1>25 DEF SignalDone, threadVars, queueVars, mainVars, jobVars, history
<1>26. CASE UNCHANGED vars
  BY <1>26 DEF vars, threadVars, queueVars, mainVars, jobVars, history
<1> QED
  BY <1>1, <1>2, <1>3, <1>4, <1>5, <1>6, <1>7, <1>8, <1>9, <1>10, <1>11,
     <1>12, <1>13, <1>14, <1>15, <1>16, <1>17, <1>18, <1>19, <1>20, <1>21,
     <1>22, <1>23, <1>24, <1>25, <1>26
  DEF Next, Environment, MainStep, WorkerStep

-----------------------------------------------------------------------------
(* The execution of jobs.                                                  *)

(* Every step leaves each job in the phase its thread's place tells.       *)
LEMMA JobPhasesStep ==
    ASSUME TypeOK, TypeOK', Handshake, Owned, JobPhases, [Next]_vars
    PROVE  JobPhases'
<1> USE NThreadsAssumption, NoJobAssumption
<1> USE DEF TypeOK, TypeThreads, TypeMain, TypeJobs, TypeHistory, MainPCs,
            WorkerPCs, Owned, Held, Queued, InHand, JobPhases,
            Handshake, Raising, Stopping
<1>1. ASSUME NEW j \in Jobs, Submit(j) PROVE JobPhases'
  BY <1>1 DEF Submit, enqueueJob, availableThread, FreeThreads, threadVars,
     queueVars, mainVars, jobVars, history
<1>2. ASSUME NEW j \in Jobs, CancelRunning(j) PROVE JobPhases'
  BY <1>2 DEF CancelRunning, workerInterrupt, threadVars, queueVars, mainVars,
     jobVars, history
<1>3. ASSUME NEW j \in Jobs, CancelQueued(j) PROVE JobPhases'
  BY <1>3 DEF CancelQueued, threadVars, queueVars, mainVars, jobVars, history
<1>4. CASE LockStart
  BY <1>4 DEF LockStart, threadVars, queueVars, mainVars, jobVars, history
<1>5. CASE LockDone
  BY <1>5 DEF LockDone, threadVars, queueVars, mainVars, jobVars, history
<1>6. CASE JobDonePanic
  BY <1>6 DEF JobDonePanic, threadVars, queueVars, mainVars, jobVars, history
<1>7. CASE JobDoneRaise
  BY <1>7 DEF JobDoneRaise, threadVars, queueVars, mainVars, jobVars, history
<1>8. CASE JobDoneFree
  BY <1>8 DEF JobDoneFree, threadVars, queueVars, mainVars, jobVars, history
<1>9. CASE dequeueJob
  BY <1>9 DEF dequeueJob, threadVars, queueVars, mainVars, jobVars, history
<1>10. CASE StopBusy
  BY <1>10 DEF StopBusy, workerInterrupt, threadVars, queueVars, mainVars,
     jobVars, history
<1>11. CASE StopBusyWoke
  BY <1>11 DEF StopBusyWoke, threadVars, queueVars, mainVars, jobVars, history
<1>12. CASE StopIdle
  BY <1>12 DEF StopIdle, threadVars, queueVars, mainVars, jobVars, history
<1>13. CASE Join
  BY <1>13 DEF Join, ThreadsFreed, threadVars, queueVars, mainVars, jobVars, history
<1>14. CASE checkThreadJobs
  BY <1>14 DEF checkThreadJobs, workerInterrupt, threadVars, queueVars,
     mainVars, jobVars, history
<1>15. CASE Shutdown
  BY <1>15 DEF Shutdown, threadVars, queueVars, mainVars, jobVars, history
<1>16. ASSUME NEW t \in Threads, JobDoneWait(t) PROVE JobPhases'
  BY <1>16 DEF JobDoneWait, threadVars, queueVars, mainVars, jobVars, history
<1>17. ASSUME NEW t \in Threads, NEW j \in Jobs, WorkerEnqueue(t, j)
      PROVE  JobPhases'
  BY <1>17, SMTT(30) DEF WorkerEnqueue, enqueueJob, threadVars, queueVars, mainVars,
     jobVars, history
<1>18. ASSUME NEW t \in Threads, Begin(t) PROVE JobPhases'
  BY <1>18 DEF Begin, threadVars, queueVars, mainVars, jobVars, history
<1>19. ASSUME NEW t \in Threads, LockFirst(t) PROVE JobPhases'
  BY <1>19 DEF LockFirst, threadVars, queueVars, mainVars, jobVars, history
<1>20. ASSUME NEW t \in Threads, LoopTop(t) PROVE JobPhases'
  BY <1>20 DEF LoopTop, threadVars, queueVars, mainVars, jobVars, history
<1>21. ASSUME NEW t \in Threads, WakeStop(t) PROVE JobPhases'
  BY <1>21 DEF WakeStop, threadVars, queueVars, mainVars, jobVars, history
<1>22. ASSUME NEW t \in Threads, WakeRun(t) PROVE JobPhases'
  BY <1>22 DEF WakeRun, threadVars, queueVars, mainVars, jobVars, history
<1>23. ASSUME NEW t \in Threads, ProcEnds(t) PROVE JobPhases'
  BY <1>23 DEF ProcEnds, threadVars, queueVars, mainVars, jobVars, history
<1>24. ASSUME NEW t \in Threads, ProcPanics(t) PROVE JobPhases'
  BY <1>24 DEF ProcPanics, threadVars, queueVars, mainVars, jobVars, history
<1>25. ASSUME NEW t \in Threads, SignalDone(t) PROVE JobPhases'
  BY <1>25 DEF SignalDone, threadVars, queueVars, mainVars, jobVars, history
<1>26. CASE UNCHANGED vars
  BY <1>26 DEF vars, threadVars, queueVars, mainVars, jobVars, history
<1> QED
  BY <1>1, <1>2, <1>3, <1>4, <1>5, <1>6, <1>7, <1>8, <1>9, <1>10, <1>11,
     <1>12, <1>13, <1>14, <1>15, <1>16, <1>17, <1>18, <1>19, <1>20, <1>21,
     <1>22, <1>23, <1>24, <1>25, <1>26
  DEF Next, Environment, MainStep, WorkerStep

(* Main goes on to the next thread only after the done signal of this one. *)
LEMMA StoppedAfterJobStep ==
    ASSUME TypeOK, TypeOK', Handshake, Owned, JobPhases, StoppedAfterJob, [Next]_vars
    PROVE  StoppedAfterJob'
<1> USE NThreadsAssumption, NoJobAssumption
<1> USE DEF TypeOK, TypeThreads, TypeMain, TypeJobs, TypeHistory, Threads
<1>1. ASSUME NEW t \in Threads, Stopped(t)
      PROVE  wpc[t] \notin {"run", "signal"} /\ (wpc[t] = "wake" => stoprq[t])
  BY <1>1 DEF Stopped, Stopping, Handshake
<1>2. CASE mpc \in Stopping
  <2>1. ASSUME NEW t \in Threads, job'[t] # NoJob
        PROVE  job'[t] = job[t]
    <3>1. UNCHANGED job \/ Join
      BY <1>2
      DEF Next, Environment, MainStep, WorkerStep, Submit, CancelRunning,
          CancelQueued, checkThreadJobs, Shutdown, WorkerEnqueue, LockStart,
          LockDone, JobDoneWait, JobDonePanic, JobDoneRaise, JobDoneFree,
          dequeueJob, StopBusy, StopBusyWoke, StopIdle, Begin, LockFirst,
          LoopTop, WakeStop, WakeRun, ProcEnds, ProcPanics, SignalDone, vars,
          threadVars, Stopping
    <3>2. CASE UNCHANGED job
      BY <3>2
    <3>3. CASE Join /\ ~UNCHANGED job
      <4>1. job' = [u \in Threads |-> NoJob]
        BY <3>3 DEF Join, ThreadsFreed
      <4>2. job'[t] = NoJob
        BY <4>1
      <4> QED BY ONLY <2>1, <4>2
    <3> QED BY ONLY <3>1, <3>2, <3>3
  <2>2. ASSUME NEW t \in Threads, job[t] # NoJob, Stopped(t)
        PROVE  /\ calls'[job[t]] = calls[job[t]] /\ ended'[job[t]] = ended[job[t]]
               /\ panicmsg'[job[t]] = panicmsg[job[t]]
    <3>0. job[t] \in Jobs
      BY <2>2
    <3>1. ASSUME NEW u \in Threads, wpc[u] \in {"run", "signal"} \/ WakeRun(u)
          PROVE  job[u] # job[t]
      <4>1. u # t
        BY <1>1, <2>2, <3>1 DEF WakeRun
      <4> QED BY <2>2, <4>1 DEF Owned
    <3>2. UNCHANGED calls \/ \E u \in Threads : WakeRun(u)
      BY DEF Next, Environment, MainStep, WorkerStep, Submit, CancelRunning,
        CancelQueued, checkThreadJobs, Shutdown, WorkerEnqueue, LockStart,
        LockDone, JobDoneWait, JobDonePanic, JobDoneRaise, JobDoneFree,
        dequeueJob, StopBusy, StopBusyWoke, StopIdle, Join, ThreadsFreed,
        Begin, LockFirst,
        LoopTop, WakeStop, ProcEnds, ProcPanics, SignalDone, vars, history
    <3>3. calls'[job[t]] = calls[job[t]]
      <4>1. ASSUME NEW u \in Threads, WakeRun(u) PROVE calls'[job[t]] = calls[job[t]]
        <5>1. job[u] # job[t]
          BY <3>1, <4>1
        <5> QED BY <3>0, <4>1, <5>1 DEF WakeRun
      <4> QED BY <3>2, <4>1
    <3>4. UNCHANGED ended \/ \E u \in Threads : ProcEnds(u)
      BY DEF Next, Environment, MainStep, WorkerStep, Submit, CancelRunning,
        CancelQueued, checkThreadJobs, Shutdown, WorkerEnqueue, LockStart,
        LockDone, JobDoneWait, JobDonePanic, JobDoneRaise, JobDoneFree,
        dequeueJob, StopBusy, StopBusyWoke, StopIdle, Join, ThreadsFreed,
        Begin, LockFirst,
        LoopTop, WakeStop, WakeRun, ProcPanics, SignalDone, vars, history
    <3>5. ended'[job[t]] = ended[job[t]]
      <4>1. ASSUME NEW u \in Threads, ProcEnds(u) PROVE ended'[job[t]] = ended[job[t]]
        <5>1. job[u] # job[t] /\ ended' = [ended EXCEPT ![job[u]] = ended[job[u]] + 1]
          BY <3>1, <4>1 DEF ProcEnds
        <5> QED BY <3>0, <5>1
      <4> QED BY <3>4, <4>1
    <3>6. UNCHANGED panicmsg \/ \E u \in Threads : ProcPanics(u)
      BY DEF Next, Environment, MainStep, WorkerStep, Submit, CancelRunning,
        CancelQueued, checkThreadJobs, Shutdown, WorkerEnqueue, LockStart,
        LockDone, JobDoneWait, JobDonePanic, JobDoneRaise, JobDoneFree,
        dequeueJob, StopBusy, StopBusyWoke, StopIdle, Join, ThreadsFreed,
        Begin, LockFirst,
        LoopTop, WakeStop, WakeRun, ProcEnds, SignalDone, vars, jobVars
    <3>7. panicmsg'[job[t]] = panicmsg[job[t]]
      BY <3>0, <3>1, <3>6, ZenonT(30) DEF ProcPanics
    <3> QED BY <3>3, <3>5, <3>7
  <2>3. ASSUME NEW t \in Threads, Stopped(t)', ~Stopped(t), job[t] # NoJob
        PROVE  /\ calls[job[t]] = 1 /\ (ended[job[t]] = 1 \/ panicmsg[job[t]])
               /\ UNCHANGED <<calls, ended, panicmsg>>
    <3>1. \/ UNCHANGED <<mpc, tgt>> \/ StopBusy \/ StopBusyWoke \/ StopIdle \/ Join
          \/ \E u \in Threads : SignalDone(u)
      BY <1>2
      DEF Next, Environment, MainStep, WorkerStep, Submit, CancelRunning,
          CancelQueued, checkThreadJobs, Shutdown, WorkerEnqueue, LockStart,
          LockDone, JobDoneWait, JobDonePanic, JobDoneRaise, JobDoneFree,
          dequeueJob, Begin, LockFirst, LoopTop, WakeStop, WakeRun, ProcEnds,
          ProcPanics, vars, mainVars, Stopping
    <3>2. ~UNCHANGED <<mpc, tgt>>
      BY <2>3 DEF Stopped
    <3>3. ~StopBusy /\ ~StopBusyWoke /\ ~StopIdle
      BY <2>3 DEF Stopped, Stopping, StopBusy, StopBusyWoke, StopIdle
    <3>4. ~Join
      <4>1. Join => (mpc' = "stop" /\ tgt' = tgt + 1) \/ (mpc' = "down" /\ tgt' = tgt)
        BY DEF Join, ThreadsFreed
      <4>2. Join => mpc = "join"
        BY DEF Join, ThreadsFreed
      <4>3. t \in Int /\ tgt \in Int
        OBVIOUS
      <4> QED BY ONLY <2>3, <4>1, <4>2, <4>3 DEF Stopped, Stopping
    <3>5. ASSUME NEW u \in Threads, SignalDone(u) PROVE u = t
      BY <2>3, <3>5 DEF Stopped, Stopping, SignalDone
    <3>6. SignalDone(t)
      BY <3>1, <3>2, <3>3, <3>4, <3>5
    <3> QED BY <2>3, <3>6 DEF SignalDone, JobPhases, jobVars, history
  <2> QED BY <2>1, <2>2, <2>3, ZenonT(30) DEF StoppedAfterJob
<1>3. CASE mpc \notin Stopping
  <2>1. mpc' \notin Stopping \/ (mpc' = "stop" /\ tgt' = 1)
    BY <1>3
    DEF Next, Environment, MainStep, WorkerStep, Submit, CancelRunning,
        CancelQueued, checkThreadJobs, Shutdown, WorkerEnqueue, LockStart,
        LockDone, JobDoneWait, JobDonePanic, JobDoneRaise, JobDoneFree,
        dequeueJob, StopBusy, StopBusyWoke, StopIdle, Join, ThreadsFreed,
        Begin, LockFirst,
        LoopTop, WakeStop, WakeRun, ProcEnds, ProcPanics, SignalDone, vars,
        mainVars, Stopping
  <2>2. \A t \in Threads : ~Stopped(t)'
    BY <2>1 DEF Stopped
  <2> QED BY <2>2 DEF StoppedAfterJob
<1> QED BY <1>2, <1>3

(* Only ThreadPool_done forgets jobs, and nothing happens to them then.    *)
LEMMA LeftBehindStep ==
    ASSUME TypeOK, Handshake, Owned, LeftBehind, JobPhases,
           StoppedAfterJob, [Next]_vars
    PROVE  LeftBehind'
<1>1. CASE mpc = "down"
  <2>1. \A t \in Threads : wpc[t] = "dead"
    BY <1>1, NThreadsAssumption DEF Handshake, Stopping, Threads
  <2>2. UNCHANGED <<life, mpc, raised, calls, ended, panicmsg>>
    BY <1>1, <2>1
    DEF Next, Environment, MainStep, WorkerStep, Submit, CancelRunning,
        CancelQueued, checkThreadJobs, Shutdown, WorkerEnqueue, LockStart,
        LockDone, JobDoneWait, JobDonePanic, JobDoneRaise, JobDoneFree,
        dequeueJob, StopBusy, StopBusyWoke, StopIdle, Join, ThreadsFreed,
        Begin, LockFirst,
        LoopTop, WakeStop, WakeRun, ProcEnds, ProcPanics, SignalDone, vars,
        mainVars, jobVars, history
  <2> QED BY <2>2 DEF LeftBehind
<1>2. CASE mpc # "down" /\ Join
  <2>1. SUFFICES ASSUME NEW j \in Jobs, life'[j] = "lost"
                 PROVE  /\ mpc' = "down" /\ raised'[j] = 0
                        /\ calls'[j] = 1 /\ (ended'[j] = 1 \/ panicmsg'[j])
    BY DEF LeftBehind
  <2>2. life[j] # "lost"
    BY <1>2 DEF LeftBehind
  <2>3. mpc' = "down" /\ tgt = NThreads
    BY <1>2, <2>1, <2>2, NThreadsAssumption DEF Join, ThreadsFreed, TypeOK, TypeMain, Threads
  <2>4. PICK t \in Threads : job[t] = j
    BY <1>2, <2>1, <2>2, <2>3, NThreadsAssumption DEF Join, ThreadsFreed, TypeOK, TypeJobs
  <2>5. job[t] # NoJob /\ Stopped(t) /\ ~Raising
    BY <1>2, <2>3, <2>4, NThreadsAssumption, NoJobAssumption
    DEF Join, ThreadsFreed, Stopped, Stopping, Threads, Raising
  <2>6. raised[j] = 0 /\ calls[j] = 1 /\ (ended[j] = 1 \/ panicmsg[j])
    BY <2>4, <2>5 DEF JobPhases, StoppedAfterJob
  <2>7. UNCHANGED <<raised, calls, ended, panicmsg>>
    BY <1>2 DEF Join, ThreadsFreed, history
  <2> QED BY <2>3, <2>6, <2>7
<1>3. CASE mpc # "down" /\ ~Join
  <2>1. \A j \in Jobs : life[j] # "lost"
    BY <1>3 DEF LeftBehind
  <2>2. \/ UNCHANGED life
        \/ \E i \in Jobs \cup {NoJob} : \E s \in {"live", "refused", "freed"} :
              life' = [life EXCEPT ![i] = s]
    <3>1. CASE \E j \in Jobs : Submit(j)
      <4>1. PICK j \in Jobs : Submit(j)
        BY <3>1
      <4>2. \/ life' = [life EXCEPT ![j] = "live"]
            \/ life' = [life EXCEPT ![j] = "refused"]
        BY <4>1 DEF Submit, enqueueJob
      <4> QED BY <4>2
    <3>2. CASE MainStep
      BY <1>3, <3>2
      DEF MainStep, LockStart, LockDone, JobDoneWait, JobDonePanic,
          JobDoneRaise, JobDoneFree, dequeueJob, StopBusy, StopBusyWoke,
          StopIdle, vars, jobVars, TypeOK, TypeJobs
    <3>3. CASE \E t \in Threads : WorkerStep(t)
      BY <3>3
      DEF WorkerStep, Begin, LockFirst, LoopTop, WakeStop, WakeRun, ProcEnds,
          ProcPanics, SignalDone, jobVars
    <3>4. CASE \E t \in Threads, j \in Jobs : WorkerEnqueue(t, j)
      BY <3>4 DEF WorkerEnqueue, enqueueJob, jobVars
    <3> QED
      BY <3>1, <3>2, <3>3, <3>4
      DEF Next, Environment, CancelRunning, CancelQueued, checkThreadJobs,
          Shutdown, vars, jobVars
  <2>3. \A j \in Jobs : life'[j] # "lost"
    BY <2>1, <2>2 DEF TypeOK, TypeJobs
  <2> QED BY <2>3 DEF LeftBehind
<1> QED BY <1>1, <1>2, <1>3

(* finished is raised only for what is over.                               *)
LEMMA FinishedMeansOverStep ==
    ASSUME TypeOK, TypeOK', Handshake, Owned, JobPhases,
                    FinishedMeansOver, [Next]_vars
    PROVE  FinishedMeansOver'
<1> USE NThreadsAssumption, NoJobAssumption
<1> USE DEF TypeOK, TypeThreads, TypeMain, TypeJobs, TypeHistory, Owned,
            Held, Queued, InHand, JobPhases, FinishedMeansOver,
            Handshake, Raising, Stopping
<1>1. ASSUME NEW j \in Jobs, Submit(j) PROVE FinishedMeansOver'
  BY <1>1 DEF Submit, enqueueJob, availableThread, FreeThreads, threadVars,
     queueVars, mainVars, jobVars, history
<1>2. ASSUME NEW j \in Jobs, CancelRunning(j) PROVE FinishedMeansOver'
  BY <1>2 DEF CancelRunning, workerInterrupt, threadVars, queueVars, mainVars,
     jobVars, history
<1>3. ASSUME NEW j \in Jobs, CancelQueued(j) PROVE FinishedMeansOver'
  BY <1>3 DEF CancelQueued, threadVars, queueVars, mainVars, jobVars, history
<1>4. CASE LockStart
  BY <1>4 DEF LockStart, threadVars, queueVars, mainVars, jobVars, history
<1>5. CASE LockDone
  BY <1>5 DEF LockDone, threadVars, queueVars, mainVars, jobVars, history
<1>6. CASE JobDonePanic
  BY <1>6 DEF JobDonePanic, threadVars, queueVars, mainVars, jobVars, history
<1>7. CASE JobDoneRaise
  BY <1>7 DEF JobDoneRaise, threadVars, queueVars, mainVars, jobVars, history
<1>8. CASE JobDoneFree
  BY <1>8 DEF JobDoneFree, threadVars, queueVars, mainVars, jobVars, history
<1>9. CASE dequeueJob
  BY <1>9 DEF dequeueJob, threadVars, queueVars, mainVars, jobVars, history
<1>10. CASE StopBusy
  BY <1>10 DEF StopBusy, workerInterrupt, threadVars, queueVars, mainVars,
     jobVars, history
<1>11. CASE StopBusyWoke
  BY <1>11 DEF StopBusyWoke, threadVars, queueVars, mainVars, jobVars, history
<1>12. CASE StopIdle
  BY <1>12 DEF StopIdle, threadVars, queueVars, mainVars, jobVars, history
<1>13. CASE Join
  BY <1>13 DEF Join, ThreadsFreed, threadVars, queueVars, mainVars, jobVars, history
<1>14. CASE checkThreadJobs
  BY <1>14 DEF checkThreadJobs, workerInterrupt, threadVars, queueVars,
     mainVars, jobVars, history
<1>15. CASE Shutdown
  BY <1>15 DEF Shutdown, threadVars, queueVars, mainVars, jobVars, history
<1>16. ASSUME NEW t \in Threads, JobDoneWait(t) PROVE FinishedMeansOver'
  BY <1>16 DEF JobDoneWait, threadVars, queueVars, mainVars, jobVars, history
<1>17. ASSUME NEW t \in Threads, NEW j \in Jobs, WorkerEnqueue(t, j)
      PROVE  FinishedMeansOver'
  BY <1>17 DEF WorkerEnqueue, enqueueJob, threadVars, queueVars, mainVars,
     jobVars, history
<1>18. ASSUME NEW t \in Threads, Begin(t) PROVE FinishedMeansOver'
  BY <1>18 DEF Begin, threadVars, queueVars, mainVars, jobVars, history
<1>19. ASSUME NEW t \in Threads, LockFirst(t) PROVE FinishedMeansOver'
  BY <1>19 DEF LockFirst, threadVars, queueVars, mainVars, jobVars, history
<1>20. ASSUME NEW t \in Threads, LoopTop(t) PROVE FinishedMeansOver'
  BY <1>20 DEF LoopTop, threadVars, queueVars, mainVars, jobVars, history
<1>21. ASSUME NEW t \in Threads, WakeStop(t) PROVE FinishedMeansOver'
  BY <1>21 DEF WakeStop, threadVars, queueVars, mainVars, jobVars, history
<1>22. ASSUME NEW t \in Threads, WakeRun(t) PROVE FinishedMeansOver'
  BY <1>22 DEF WakeRun, threadVars, queueVars, mainVars, jobVars, history
<1>23. ASSUME NEW t \in Threads, ProcEnds(t) PROVE FinishedMeansOver'
  BY <1>23 DEF ProcEnds, threadVars, queueVars, mainVars, jobVars, history
<1>24. ASSUME NEW t \in Threads, ProcPanics(t) PROVE FinishedMeansOver'
  BY <1>24 DEF ProcPanics, threadVars, queueVars, mainVars, jobVars, history
<1>25. ASSUME NEW t \in Threads, SignalDone(t) PROVE FinishedMeansOver'
  BY <1>25 DEF SignalDone, threadVars, queueVars, mainVars, jobVars, history
<1>26. CASE UNCHANGED vars
  BY <1>26 DEF vars, threadVars, queueVars, mainVars, jobVars, history
<1> QED
  BY <1>1, <1>2, <1>3, <1>4, <1>5, <1>6, <1>7, <1>8, <1>9, <1>10, <1>11,
     <1>12, <1>13, <1>14, <1>15, <1>16, <1>17, <1>18, <1>19, <1>20, <1>21,
     <1>22, <1>23, <1>24, <1>25, <1>26
  DEF Next, Environment, MainStep, WorkerStep

(* Signals are sent only for the job at hand, and forgotten before the     *)
(* next one.                                                               *)
LEMMA InterruptsStep ==
    ASSUME TypeOK, TypeOK', Handshake, Owned, Interrupts,
                    [Next]_vars
    PROVE  Interrupts'
<1> USE NThreadsAssumption, NoJobAssumption
<1> USE DEF TypeOK, TypeThreads, TypeMain, TypeJobs, MainPCs, WorkerPCs,
            Interrupts, Handshake, Raising, Stopping
<1>1. ASSUME NEW j \in Jobs, Submit(j) PROVE Interrupts'
  BY <1>1 DEF Submit, enqueueJob, availableThread, FreeThreads, threadVars,
     queueVars, mainVars, jobVars, history
<1>2. ASSUME NEW j \in Jobs, CancelRunning(j) PROVE Interrupts'
  BY <1>2 DEF CancelRunning, workerInterrupt, threadVars, queueVars, mainVars,
     jobVars, history
<1>3. ASSUME NEW j \in Jobs, CancelQueued(j) PROVE Interrupts'
  BY <1>3 DEF CancelQueued, threadVars, queueVars, mainVars, jobVars, history
<1>4. CASE LockStart
  BY <1>4 DEF LockStart, threadVars, queueVars, mainVars, jobVars, history
<1>5. CASE LockDone
  BY <1>5 DEF LockDone, threadVars, queueVars, mainVars, jobVars, history
<1>6. CASE JobDonePanic
  BY <1>6 DEF JobDonePanic, threadVars, queueVars, mainVars, jobVars, history
<1>7. CASE JobDoneRaise
  BY <1>7 DEF JobDoneRaise, threadVars, queueVars, mainVars, jobVars, history
<1>8. CASE JobDoneFree
  BY <1>8 DEF JobDoneFree, threadVars, queueVars, mainVars, jobVars, history
<1>9. CASE dequeueJob
  BY <1>9 DEF dequeueJob, threadVars, queueVars, mainVars, jobVars, history
<1>10. CASE StopBusy
  BY <1>10 DEF StopBusy, workerInterrupt, threadVars, queueVars, mainVars,
     jobVars, history
<1>11. CASE StopBusyWoke
  BY <1>11 DEF StopBusyWoke, threadVars, queueVars, mainVars, jobVars, history
<1>12. CASE StopIdle
  BY <1>12 DEF StopIdle, threadVars, queueVars, mainVars, jobVars, history
<1>13. CASE Join
  <2>1. mpc = "join" /\ ~Raising' /\ mpc' # "wokedone"
    BY <1>13 DEF Join, ThreadsFreed
  <2>2. UNCHANGED <<wpc, jobcanceled, hasCompleted, stoprq>>
    BY <1>13 DEF Join, ThreadsFreed
  <2>3. CASE tgt < NThreads
    <3>1. UNCHANGED job
      BY <1>13, <2>3 DEF Join, ThreadsFreed
    <3> QED BY <2>1, <2>2, <3>1
  <2>4. CASE ~(tgt < NThreads)
    <3>1. \A t \in Threads : wpc[t] = "dead"
      BY <1>13, <2>1, <2>4 DEF Join, ThreadsFreed, Threads
    <3> QED BY <2>1, <2>2, <3>1
  <2> QED BY <2>3, <2>4
<1>14. CASE checkThreadJobs
  BY <1>14 DEF checkThreadJobs, workerInterrupt, threadVars, queueVars,
     mainVars, jobVars, history, Assigned, Ticking, Expiring
<1>15. CASE Shutdown
  BY <1>15 DEF Shutdown, threadVars, queueVars, mainVars, jobVars, history
<1>16. ASSUME NEW t \in Threads, JobDoneWait(t) PROVE Interrupts'
  BY <1>16 DEF JobDoneWait, threadVars, queueVars, mainVars, jobVars, history
<1>17. ASSUME NEW t \in Threads, NEW j \in Jobs, WorkerEnqueue(t, j)
      PROVE  Interrupts'
  BY <1>17 DEF WorkerEnqueue, enqueueJob, threadVars, queueVars, mainVars,
     jobVars, history
<1>18. ASSUME NEW t \in Threads, Begin(t) PROVE Interrupts'
  BY <1>18 DEF Begin, threadVars, queueVars, mainVars, jobVars, history
<1>19. ASSUME NEW t \in Threads, LockFirst(t) PROVE Interrupts'
  BY <1>19 DEF LockFirst, threadVars, queueVars, mainVars, jobVars, history
<1>20. ASSUME NEW t \in Threads, LoopTop(t) PROVE Interrupts'
  BY <1>20 DEF LoopTop, threadVars, queueVars, mainVars, jobVars, history
<1>21. ASSUME NEW t \in Threads, WakeStop(t) PROVE Interrupts'
  BY <1>21 DEF WakeStop, threadVars, queueVars, mainVars, jobVars, history
<1>22. ASSUME NEW t \in Threads, WakeRun(t) PROVE Interrupts'
  BY <1>22 DEF WakeRun, threadVars, queueVars, mainVars, jobVars, history
<1>23. ASSUME NEW t \in Threads, ProcEnds(t) PROVE Interrupts'
  BY <1>23 DEF ProcEnds, threadVars, queueVars, mainVars, jobVars, history
<1>24. ASSUME NEW t \in Threads, ProcPanics(t) PROVE Interrupts'
  BY <1>24 DEF ProcPanics, threadVars, queueVars, mainVars, jobVars, history
<1>25. ASSUME NEW t \in Threads, SignalDone(t) PROVE Interrupts'
  BY <1>25 DEF SignalDone, threadVars, queueVars, mainVars, jobVars, history
<1>26. CASE UNCHANGED vars
  BY <1>26 DEF vars, threadVars, queueVars, mainVars, jobVars, history
<1> QED
  BY <1>1, <1>2, <1>3, <1>4, <1>5, <1>6, <1>7, <1>8, <1>9, <1>10, <1>11,
     <1>12, <1>13, <1>14, <1>15, <1>16, <1>17, <1>18, <1>19, <1>20, <1>21,
     <1>22, <1>23, <1>24, <1>25, <1>26
  DEF Next, Environment, MainStep, WorkerStep

(* The queue is never left to itself.                                      *)
LEMMA NoStrandedJobStep ==
    ASSUME TypeOK, TypeOK', QueueConsistent, Handshake, NoStrandedJob,
                    [Next]_vars
    PROVE  NoStrandedJob'
<1> USE NThreadsAssumption, NoJobAssumption
<1> USE DEF TypeOK, TypeThreads, TypeQueue, TypeMain, MainPCs, NoStrandedJob,
            Handshake, Stopping, Threads
<1>1. ASSUME NEW j \in Jobs, Submit(j) PROVE NoStrandedJob'
  BY <1>1 DEF Submit, enqueueJob, availableThread, FreeThreads, threadVars,
     queueVars, mainVars, jobVars, history
<1>2. ASSUME NEW j \in Jobs, CancelRunning(j) PROVE NoStrandedJob'
  BY <1>2 DEF CancelRunning, workerInterrupt, threadVars, queueVars, mainVars,
     jobVars, history
<1>3. ASSUME NEW j \in Jobs, CancelQueued(j) PROVE NoStrandedJob'
  BY <1>3 DEF CancelQueued, threadVars, queueVars, mainVars, jobVars, history
<1>4. CASE LockStart
  BY <1>4 DEF LockStart, threadVars, queueVars, mainVars, jobVars, history
<1>5. CASE LockDone
  BY <1>5 DEF LockDone, threadVars, queueVars, mainVars, jobVars, history
<1>6. CASE JobDonePanic
  BY <1>6 DEF JobDonePanic, threadVars, queueVars, mainVars, jobVars, history
<1>7. CASE JobDoneRaise
  BY <1>7 DEF JobDoneRaise, threadVars, queueVars, mainVars, jobVars, history
<1>8. CASE JobDoneFree
  BY <1>8 DEF JobDoneFree, threadVars, queueVars, mainVars, jobVars, history
<1>9. CASE dequeueJob
  BY <1>9 DEF dequeueJob, threadVars, queueVars, mainVars, jobVars, history,
     QueueConsistent, InUse
<1>10. CASE StopBusy
  BY <1>10 DEF StopBusy, workerInterrupt, threadVars, queueVars, mainVars,
     jobVars, history
<1>11. CASE StopBusyWoke
  BY <1>11 DEF StopBusyWoke, threadVars, queueVars, mainVars, jobVars, history
<1>12. CASE StopIdle
  BY <1>12 DEF StopIdle, threadVars, queueVars, mainVars, jobVars, history
<1>13. CASE Join
  BY <1>13 DEF Join, ThreadsFreed, threadVars, queueVars, mainVars, jobVars, history
<1>14. CASE checkThreadJobs
  BY <1>14 DEF checkThreadJobs, workerInterrupt, threadVars, queueVars,
     mainVars, jobVars, history
<1>15. CASE Shutdown
  BY <1>15 DEF Shutdown, threadVars, queueVars, mainVars, jobVars, history
<1>16. ASSUME NEW t \in Threads, JobDoneWait(t) PROVE NoStrandedJob'
  BY <1>16 DEF JobDoneWait, threadVars, queueVars, mainVars, jobVars, history
<1>17. ASSUME NEW t \in Threads, NEW j \in Jobs, WorkerEnqueue(t, j)
      PROVE  NoStrandedJob'
  BY <1>17 DEF WorkerEnqueue, enqueueJob, threadVars, queueVars, mainVars,
     jobVars, history
<1>18. ASSUME NEW t \in Threads, Begin(t) PROVE NoStrandedJob'
  BY <1>18 DEF Begin, threadVars, queueVars, mainVars, jobVars, history
<1>19. ASSUME NEW t \in Threads, LockFirst(t) PROVE NoStrandedJob'
  BY <1>19 DEF LockFirst, threadVars, queueVars, mainVars, jobVars, history
<1>20. ASSUME NEW t \in Threads, LoopTop(t) PROVE NoStrandedJob'
  BY <1>20 DEF LoopTop, threadVars, queueVars, mainVars, jobVars, history
<1>21. ASSUME NEW t \in Threads, WakeStop(t) PROVE NoStrandedJob'
  BY <1>21 DEF WakeStop, threadVars, queueVars, mainVars, jobVars, history
<1>22. ASSUME NEW t \in Threads, WakeRun(t) PROVE NoStrandedJob'
  BY <1>22 DEF WakeRun, threadVars, queueVars, mainVars, jobVars, history
<1>23. ASSUME NEW t \in Threads, ProcEnds(t) PROVE NoStrandedJob'
  BY <1>23 DEF ProcEnds, threadVars, queueVars, mainVars, jobVars, history
<1>24. ASSUME NEW t \in Threads, ProcPanics(t) PROVE NoStrandedJob'
  BY <1>24 DEF ProcPanics, threadVars, queueVars, mainVars, jobVars, history
<1>25. ASSUME NEW t \in Threads, SignalDone(t) PROVE NoStrandedJob'
  BY <1>25 DEF SignalDone, threadVars, queueVars, mainVars, jobVars, history
<1>26. CASE UNCHANGED vars
  BY <1>26 DEF vars, threadVars, queueVars, mainVars, jobVars, history
<1> QED
  BY <1>1, <1>2, <1>3, <1>4, <1>5, <1>6, <1>7, <1>8, <1>9, <1>10, <1>11,
     <1>12, <1>13, <1>14, <1>15, <1>16, <1>17, <1>18, <1>19, <1>20, <1>21,
     <1>22, <1>23, <1>24, <1>25, <1>26
  DEF Next, Environment, MainStep, WorkerStep

-----------------------------------------------------------------------------
(* The theorems.                                                           *)

(* The pool as ThreadPool_init leaves it satisfies the inductive invariant,*)
(* whether its workers have not run yet or wait already.                   *)
LEMMA InitInv ==
    ASSUME NEW w \in {"create", "wait"}, PoolInit(w)
    PROVE  IndInv
<1> USE NThreadsAssumption, QueueSizeAssumption, NoJobAssumption, JobTicksAssumption
<1> USE DEF PoolInit
<1>1. TypeOK
  BY DEF TypeOK, TypeThreads, TypeQueue, TypeMain, TypeJobs, TypeHistory,
         Threads, Slots, MainPCs, WorkerPCs
<1>2. QueueConsistent
  BY DEF QueueConsistent, InUse, Slots
<1>3. Handshake
  BY DEF Handshake, Raising, Stopping, Threads
<1>4. Owned /\ LeftBehind
  BY DEF Owned, LeftBehind, Held, Queued, InHand
<1>5. JobPhases /\ FinishedMeansOver /\ Interrupts /\ NoStrandedJob
  BY DEF JobPhases, FinishedMeansOver, Interrupts, NoStrandedJob, Raising
<1>6. StoppedAfterJob
  BY DEF StoppedAfterJob
<1> QED
  BY <1>1, <1>2, <1>3, <1>4, <1>5, <1>6 DEF IndInv

(* The invariant is inductive.                                             *)
LEMMA InvStep == IndInv /\ [Next]_vars => IndInv'
  BY TypeStep, QueueConsistentStep, HandshakeStep, OwnedStep, LeftBehindStep,
     JobPhasesStep, StoppedAfterJobStep, FinishedMeansOverStep, InterruptsStep, NoStrandedJobStep DEF IndInv

(* The invariant holds in every state of the pool.                         *)
LEMMA Invariance == Spec => []IndInv
<1>1. Init => IndInv
  BY InitInv DEF Init
<1> QED
  BY <1>1, InvStep, PTL DEF Spec

(* The variables always have their types: the ring's indices stay inside   *)
(* the array and no counter leaves its range.                              *)
THEOREM TypeCorrect == Spec => []TypeOK
<1>1. IndInv => TypeOK
  BY DEF IndInv
<1> QED
  BY <1>1, Invariance, PTL

(* The job queue's indices, count and contents always agree (enqueueJob,   *)
(* dequeueJob, ThreadPool_cancel).                                         *)
THEOREM QueueCorrect == Spec => []QueueConsistent
<1>1. IndInv => QueueConsistent
  BY DEF IndInv
<1> QED
  BY <1>1, Invariance, PTL

(* A job is allocated as long as exactly one owner knows it: no job is     *)
(* destroyed twice or used after it was destroyed.  Only the jobs whose    *)
(* threads ThreadPool_done frees are forgotten, all of them executed.      *)
THEOREM OwnershipCorrect == Spec => []OneOwner
<1>1. IndInv => OneOwner
  BY DEF IndInv, OneOwner
<1> QED
  BY <1>1, Invariance, PTL

(* Every use of t->job, by worker() and threadJobDone, is of an allocated  *)
(* job.                                                                    *)
THEOREM JobUseCorrect == Spec => []JobUseSafe
<1>1. IndInv => JobUseSafe
  BY NoJobAssumption
  DEF IndInv, TypeOK, TypeThreads, TypeMain, TypeJobs, Handshake, Owned,
      Held, JobUseSafe
<1> QED
  BY <1>1, Invariance, PTL

(* The done signal of worker() always finds main waiting for it, and every *)
(* worker has ended when ThreadPool_done returns.                          *)
THEOREM DoneSignalCorrect == Spec => []DoneSignalHeard
<1>1. IndInv => DoneSignalHeard
  BY NThreadsAssumption
  DEF IndInv, TypeOK, TypeThreads, TypeMain, MainPCs, Threads, Handshake,
      Stopping, DoneSignalHeard
<1> QED
  BY <1>1, Invariance, PTL

(* The finished handlers run at most once, and only when the job's         *)
(* procedure is not running and never will be.                             *)
THEOREM FinishedCorrect == Spec => []FinishedMeansOver
<1>1. IndInv => FinishedMeansOver
  BY DEF IndInv
<1> QED
  BY <1>1, Invariance, PTL

(* A waiting job always has a thread that will look at the queue again.    *)
THEOREM QueueServed == Spec => []NoStrandedJob
<1>1. IndInv => NoStrandedJob
  BY DEF IndInv
<1> QED
  BY <1>1, Invariance, PTL

(* ThreadJob_canceled() never tells a job of the cancellation of another.  *)
THEOREM CancelCorrect == Spec => []NoStaleCancel
<1>1. IndInv => NoStaleCancel
  BY DEF IndInv, Interrupts, NoStaleCancel
<1> QED
  BY <1>1, Invariance, PTL

(* No step changes the outcome of a job whose finished handlers have read  *)
(* it.                                                                     *)
THEOREM OutcomeCorrect == Spec => OutcomeFinal
<1> DEFINE Frozen == \A j \in Jobs : raised[j] > 0 =>
                       hasCompleted'[j] = hasCompleted[j] /\ ended'[j] = ended[j]
<1>1. ASSUME IndInv, [Next]_vars PROVE [Frozen]_vars
  <2>0. TypeJobs
    BY <1>1 DEF IndInv, TypeOK
  <2>1. ASSUME NEW j \in Jobs, CancelRunning(j) PROVE Frozen
    <3>1. PICK t \in Threads : job[t] = j
      BY <2>1 DEF CancelRunning
    <3>2. raised[j] = 0
      BY <1>1, <2>1, <3>1, NoJobAssumption DEF CancelRunning, IndInv, JobPhases, Raising
    <3>3. \A k \in Jobs : raised[k] > 0 => k # j
      BY <3>2
    <3>4. \A k \in Jobs : k # j => hasCompleted'[k] = hasCompleted[k]
      BY <2>0, <2>1, Zenon DEF CancelRunning, TypeJobs
    <3> QED  BY <2>1, <3>3, <3>4 DEF CancelRunning, history
  <2>2. ASSUME NEW j \in Jobs, CancelQueued(j) PROVE Frozen
    <3>1. Held(j) = {} /\ life[j] = "live"
      BY <1>1, <2>2 DEF CancelQueued, IndInv, Owned, Held, Queued
    <3>2. raised[j] = 0
      BY <1>1, <3>1 DEF IndInv, JobPhases
    <3>3. \A k \in Jobs : raised[k] > 0 => k # j
      BY <3>2
    <3>4. \A k \in Jobs : k # j => hasCompleted'[k] = hasCompleted[k]
      BY <2>0, <2>2, Zenon DEF CancelQueued, TypeJobs
    <3> QED  BY <2>2, <3>3, <3>4 DEF CancelQueued
  <2>3. CASE checkThreadJobs
    <3>1. \A t \in Expiring : job[t] \in Jobs /\ raised[job[t]] = 0
      BY <1>1, <2>3 DEF checkThreadJobs, Expiring, Assigned, IndInv, TypeOK,
                        TypeThreads, JobPhases, Raising
    <3> QED  BY <2>0, <2>3, <3>1 DEF checkThreadJobs, history, TypeJobs
  <2>4. ASSUME NEW t \in Threads, ProcEnds(t) PROVE Frozen
    <3>1. job[t] \in Jobs /\ raised[job[t]] = 0
      BY <1>1, <2>4 DEF ProcEnds, IndInv, TypeOK, TypeThreads, Handshake,
                        JobPhases, Raising
    <3> QED  BY <1>1, <2>4, <3>1 DEF ProcEnds, jobVars, IndInv, TypeOK, TypeHistory
  <2>5. CASE UNCHANGED <<hasCompleted, ended>>
    BY <2>5
  <2> QED
    BY <1>1, <2>1, <2>2, <2>3, <2>4, <2>5
    DEF Next, Environment, MainStep, WorkerStep, Submit, Shutdown,
        WorkerEnqueue, LockStart, LockDone, JobDoneWait, JobDonePanic,
        JobDoneRaise, JobDoneFree, dequeueJob, StopBusy, StopBusyWoke,
        StopIdle, Join, ThreadsFreed, Begin, LockFirst, LoopTop, WakeStop, WakeRun,
        ProcPanics, SignalDone, vars, jobVars, history
<1> QED
  BY <1>1, Invariance, PTL DEF Spec, OutcomeFinal

-----------------------------------------------------------------------------
(* The refinement of JobPool.                                              *)

(* How far a destroyed job and one whose finished handlers run have come.  *)
Closed ==
    /\ \A j \in Jobs : life[j] = "freed" =>
          calls[j] = 0 \/ panicmsg[j] \/ (raised[j] = 1 /\ calls[j] = 1)
    /\ Raising => raised[job[cur]] = 1 /\ calls[job[cur]] = 1

(* Which thread's job is at which point, for the steps below.              *)
LEMMA AtWork ==
    ASSUME IndInv, NEW t \in Threads, wpc[t] \in {"run", "signal"}
    PROVE  /\ job[t] \in Jobs /\ life[job[t]] = "live" /\ Queued(job[t]) = {}
           /\ raised[job[t]] = 0 /\ ~(Raising /\ cur = t)
<1>1. job[t] \in Jobs
  BY DEF IndInv, TypeOK, TypeThreads, Handshake
<1>2. job[t] # NoJob
  BY <1>1, NoJobAssumption
<1>3. life[job[t]] = "live" /\ Queued(job[t]) = {}
  BY <1>1, <1>2 DEF IndInv, Owned, Held, Queued
<1>4. ~(Raising /\ cur = t)
  BY DEF IndInv, Handshake
<1>5. raised[job[t]] = 0
  BY <1>2, <1>4 DEF IndInv, JobPhases
<1> QED BY <1>1, <1>3, <1>4, <1>5

(* The job main deals with in threadJobDone.                               *)
LEMMA AtDone ==
    ASSUME IndInv, mpc = "wokedone" \/ Raising
    PROVE  /\ cur \in Threads /\ job[cur] \in Jobs
           /\ life[job[cur]] = "live" /\ Queued(job[cur]) = {}
           /\ \A j \in Jobs : InHand(j) => j # job[cur]
<1>1. cur \in Threads /\ job[cur] \in Jobs
  BY DEF IndInv, TypeOK, TypeThreads, TypeMain, Handshake
<1>2. job[cur] # NoJob
  BY <1>1, NoJobAssumption
<1>3. life[job[cur]] = "live" /\ Queued(job[cur]) = {}
  BY <1>1, <1>2 DEF IndInv, Owned, Held, Queued
<1>4. \A j \in Jobs : InHand(j) => j # job[cur]
  BY <1>1 DEF IndInv, Owned, Held
<1> QED BY <1>1, <1>3, <1>4

LEMMA ClosedStep ==
    ASSUME IndInv, Closed, [Next]_vars
    PROVE  Closed'
<1> USE DEF Closed
<1>0. TypeOK
  BY DEF IndInv
<1>1. ASSUME NEW j \in Jobs, Submit(j) PROVE Closed'
  <2>1. \A k \in Jobs : life'[k] = "freed" => life[k] = "freed"
    BY <1>0, <1>1 DEF Submit, enqueueJob, TypeOK, TypeJobs
  <2>2. UNCHANGED <<calls, panicmsg, raised, job>>
    BY <1>1 DEF Submit, threadVars, history
  <2>3. Raising' => Raising /\ cur' = cur
    BY <1>1 DEF Submit, Raising, mainVars
  <2> QED BY <2>1, <2>2, <2>3
<1>2. ASSUME NEW j \in Jobs, CancelRunning(j) PROVE Closed'
  BY <1>2 DEF CancelRunning, Raising, mainVars, history
<1>3. ASSUME NEW j \in Jobs, CancelQueued(j) PROVE Closed'
  <2>1. Held(j) = {} /\ life[j] = "live"
    BY <1>3 DEF CancelQueued, IndInv, Owned, Held, Queued
  <2>2. calls[j] = 0
    BY <2>1 DEF IndInv, JobPhases
  <2>3. \A k \in Jobs : k # j => life'[k] = life[k] /\ raised'[k] = raised[k]
    BY <1>0, <1>3 DEF CancelQueued, TypeOK, TypeJobs, TypeHistory
  <2>4. UNCHANGED <<calls, panicmsg>> /\ ~Raising'
    BY <1>3 DEF CancelQueued, mainVars, Raising
  <2> QED BY <2>2, <2>3, <2>4
<1>4. CASE LockStart
  BY <1>4 DEF LockStart, Raising, jobVars, history, IndInv, TypeOK, TypeThreads, TypeMain, Handshake
<1>5. CASE LockDone
  BY <1>5 DEF LockDone, Raising, jobVars, history
<1>6. CASE JobDonePanic
  <2>1. \A k \in Jobs : life'[k] = "freed" => life[k] = "freed" \/ k = job[cur]
    BY <1>0, <1>6 DEF JobDonePanic, TypeOK, TypeJobs
  <2>2. UNCHANGED <<calls, panicmsg, raised>> /\ ~Raising' /\ panicmsg[job[cur]]
    BY <1>6 DEF JobDonePanic, Raising, history
  <2> QED BY <2>1, <2>2
<1>7. CASE JobDoneRaise
  <2>1. job[cur] \in Jobs /\ life[job[cur]] = "live" /\ cur \in Threads
    BY <1>7, AtDone DEF JobDoneRaise
  <2>2. calls[job[cur]] = 1 /\ raised[job[cur]] = 0
    BY <1>7, <2>1, NoJobAssumption DEF JobDoneRaise, IndInv, JobPhases, Raising
  <2>3. \A k \in Jobs : k # job[cur] => raised'[k] = raised[k]
    BY <1>0, <1>7 DEF JobDoneRaise, TypeOK, TypeHistory
  <2>4. raised'[job[cur]] = 1
    BY <1>0, <1>7, <2>1, <2>2 DEF JobDoneRaise, TypeOK, TypeHistory
  <2>5. UNCHANGED <<calls, panicmsg, life, job, cur>>
    BY <1>7 DEF JobDoneRaise, jobVars
  <2> QED BY <2>1, <2>2, <2>3, <2>4, <2>5
<1>8. CASE JobDoneFree
  <2>1. \A k \in Jobs : life'[k] = "freed" => life[k] = "freed" \/ k = job[cur]
    BY <1>0, <1>8 DEF JobDoneFree, TypeOK, TypeJobs
  <2>2. UNCHANGED <<calls, panicmsg, raised>> /\ ~Raising' /\ Raising
    BY <1>8 DEF JobDoneFree, Raising, history
  <2> QED BY <2>1, <2>2
<1>9. CASE dequeueJob
  BY <1>9 DEF dequeueJob, Raising, threadVars, jobVars, history
<1>10. CASE StopBusy
  BY <1>10 DEF StopBusy, Raising, jobVars, history
<1>11. CASE StopBusyWoke
  BY <1>11 DEF StopBusyWoke, Raising, jobVars, history
<1>12. CASE StopIdle
  BY <1>12 DEF StopIdle, Raising, jobVars, history
<1>13. CASE Join
  <2>1. \A k \in Jobs : life'[k] = "freed" => life[k] = "freed" \/ Queued(k) # {}
    BY <1>0, <1>13 DEF Join, ThreadsFreed, Queued, TypeOK, TypeJobs
  <2>2. \A k \in Jobs : Queued(k) # {} => calls[k] = 0
    <3>1. \A k \in Jobs : Queued(k) # {} => Held(k) = {} /\ life[k] = "live"
      BY NoJobAssumption DEF IndInv, Owned, Held, Queued
    <3> QED BY <3>1 DEF IndInv, JobPhases
  <2>3. UNCHANGED <<calls, panicmsg, raised>> /\ ~Raising'
    BY <1>13 DEF Join, ThreadsFreed, Raising, history
  <2> QED BY <2>1, <2>2, <2>3
<1>14. CASE checkThreadJobs
  BY <1>14 DEF checkThreadJobs, Raising, mainVars, history
<1>15. CASE Shutdown
  BY <1>15 DEF Shutdown, Raising, jobVars, history
<1>16. ASSUME NEW t \in Threads, JobDoneWait(t) PROVE Closed'
  BY <1>16 DEF JobDoneWait, Raising, jobVars, history
<1>17. ASSUME NEW t \in Threads, NEW j \in Jobs, WorkerEnqueue(t, j) PROVE Closed'
  <2>1. \A k \in Jobs : life'[k] = "freed" => life[k] = "freed"
    BY <1>0, <1>17 DEF WorkerEnqueue, enqueueJob, TypeOK, TypeJobs
  <2>2. UNCHANGED <<calls, panicmsg, raised, job, mpc, ret, cur>>
    BY <1>17 DEF WorkerEnqueue, threadVars, mainVars, history
  <2> QED BY <2>1, <2>2 DEF Raising
<1>18. ASSUME NEW t \in Threads, Begin(t) PROVE Closed'
  BY <1>18 DEF Begin, Raising, mainVars, jobVars, history
<1>19. ASSUME NEW t \in Threads, LockFirst(t) PROVE Closed'
  BY <1>19 DEF LockFirst, Raising, mainVars, jobVars, history
<1>20. ASSUME NEW t \in Threads, LoopTop(t) PROVE Closed'
  BY <1>20 DEF LoopTop, Raising, mainVars, jobVars, history
<1>21. ASSUME NEW t \in Threads, WakeStop(t) PROVE Closed'
  BY <1>21 DEF WakeStop, Raising, mainVars, jobVars, history
<1>22. ASSUME NEW t \in Threads, WakeRun(t) PROVE Closed'
  <2>1. job[t] \in Jobs /\ life[job[t]] = "live"
    BY <1>22, NoJobAssumption DEF WakeRun, IndInv, TypeOK, TypeThreads, Handshake, Owned, Held
  <2>2. \A k \in Jobs : k # job[t] => calls'[k] = calls[k]
    BY <1>0, <1>22 DEF WakeRun, TypeOK, TypeHistory
  <2>3. UNCHANGED <<panicmsg, raised, life, job, mpc, ret, cur>>
    BY <1>22 DEF WakeRun, mainVars, jobVars
  <2>4. Raising => cur # t
    BY <1>22 DEF WakeRun, IndInv, Handshake
  <2>5. Raising => job[cur] \in Jobs /\ job[cur] # job[t]
    BY <2>1, <2>4, <1>22, AtDone, NoJobAssumption DEF IndInv, Owned
  <2> QED BY <2>1, <2>2, <2>3, <2>5 DEF Raising
<1>23. ASSUME NEW t \in Threads, ProcEnds(t) PROVE Closed'
  BY <1>23 DEF ProcEnds, Raising, mainVars, jobVars
<1>24. ASSUME NEW t \in Threads, ProcPanics(t) PROVE Closed'
  <2>1. job[t] \in Jobs /\ life[job[t]] = "live"
    BY <1>24, AtWork DEF ProcPanics
  <2>2. \A k \in Jobs : k # job[t] => panicmsg'[k] = panicmsg[k]
    BY <1>0, <1>24, Zenon DEF ProcPanics, TypeOK, TypeJobs
  <2>3. UNCHANGED <<calls, raised, life, job, mpc, ret, cur>>
    BY <1>24 DEF ProcPanics, mainVars, history
  <2> QED BY <2>1, <2>2, <2>3 DEF Raising
<1>25. ASSUME NEW t \in Threads, SignalDone(t) PROVE Closed'
  BY <1>25 DEF SignalDone, Raising, jobVars, history
<1>26. CASE UNCHANGED vars
  BY <1>26 DEF Raising, vars, threadVars, mainVars, jobVars, history
<1> QED
  BY <1>1, <1>2, <1>3, <1>4, <1>5, <1>6, <1>7, <1>8, <1>9, <1>10, <1>11,
     <1>12, <1>13, <1>14, <1>15, <1>16, <1>17, <1>18, <1>19, <1>20, <1>21,
     <1>22, <1>23, <1>24, <1>25, <1>26
  DEF Next, Environment, MainStep, WorkerStep
(* A job's state, from where it is.                                        *)
LEMMA States ==
    ASSUME NEW j \in Jobs
    PROVE  /\ life[j] = "new" => JobState(j) = "new"
           /\ life[j] = "refused" => JobState(j) = "refused"
           /\ life[j] = "live" /\ Queued(j) # {} => JobState(j) = "waiting"
           /\ life[j] = "freed" /\ calls[j] = 0 =>
                 JobState(j) = IF raised[j] = 1 THEN "cancelled" ELSE "dropped"
           /\ life[j] = "freed" /\ calls[j] # 0 /\ panicmsg[j] =>
                 JobState(j) = "panicked"
           /\ life[j] = "freed" /\ calls[j] = 1 /\ ~panicmsg[j] /\ raised[j] = 1 =>
                 JobState(j) = "finished"
           /\ life[j] = "live" /\ Queued(j) = {} =>
                 JobState(j) = IF raised[j] = 1 /\ calls[j] = 1 THEN "finished"
                               ELSE IF ended[j] = 1 \/ panicmsg[j] THEN "executed"
                               ELSE IF calls[j] = 1 THEN "executing"
                               ELSE "assigned"
BY DEF JobState

(* A step that changes nothing about a job leaves its state.               *)
SameJob(j) ==
    /\ life'[j] = life[j] /\ calls'[j] = calls[j] /\ ended'[j] = ended[j]
    /\ raised'[j] = raised[j] /\ panicmsg'[j] = panicmsg[j]
    /\ Queued(j)' = {} <=> Queued(j) = {}

LEMMA SameState ==
    ASSUME NEW j \in Jobs, SameJob(j)
    PROVE  JobState(j)' = JobState(j)
BY DEF SameJob, JobState

(* One job's state changes at most.                                        *)
LEMMA OneState ==
    ASSUME NEW j \in Jobs, \A k \in Jobs : k # j => SameJob(k)
    PROVE  JobStates' = [JobStates EXCEPT ![j] = JobState(j)']
<1>1. \A k \in Jobs : k # j => JobState(k)' = JobState(k)
  BY SameState
<1> QED BY <1>1 DEF JobStates

(* A step of neither the jobs nor the queue.                               *)
LEMMA Stutters ==
    ASSUME UNCHANGED <<life, calls, ended, raised, panicmsg>>,
           UNCHANGED <<jobQueue, queueAvail, lastIdx>>,
           mpc # "down", mpc' # "down"
    PROVE  UNCHANGED <<JobStates, Entries>>
<1>1. \A j \in Jobs : SameJob(j)
  BY DEF SameJob, Queued
<1>2. JobStates' = JobStates
  BY <1>1, SameState DEF JobStates
<1>3. Entries' = Entries
  BY DEF Entries, SlotOf
<1> QED BY <1>2, <1>3

(* The queue as a sequence.                                                *)
LEMMA EntriesAre ==
    ASSUME TypeQueue, mpc # "down"
    PROVE  /\ Entries \in Seq(Jobs \cup {NoJob})
           /\ Len(Entries) = QueueSize - queueAvail
           /\ QueueSize - queueAvail \in Nat
           /\ \A i \in 1..(QueueSize - queueAvail) :
                 SlotOf(i) \in Slots /\ Entries[i] = jobQueue[SlotOf(i)]
<1>1. QueueSize - queueAvail \in Nat
  BY QueueSizeAssumption DEF TypeQueue
<1>2. \A i \in 1..(QueueSize - queueAvail) : SlotOf(i) \in Slots
  BY QueueSizeAssumption DEF TypeQueue, Slots, SlotOf
<1>3. \A i \in 1..(QueueSize - queueAvail) : jobQueue[SlotOf(i)] \in Jobs \cup {NoJob}
  BY <1>2 DEF TypeQueue
<1>4. Entries = [i \in 1..(QueueSize - queueAvail) |-> jobQueue[SlotOf(i)]]
  BY DEF Entries
<1> DEFINE n == QueueSize - queueAvail
<1>5. n \in Nat /\ Entries \in [1..n -> Jobs \cup {NoJob}]
  BY <1>1, <1>3, <1>4
<1> HIDE DEF n
<1>6. Entries \in Seq(Jobs \cup {NoJob}) /\ Len(Entries) = n
  BY <1>5
<1> QED BY <1>1, <1>2, <1>4, <1>6 DEF n

(* The jobs under way have a thread each, or main hands one to a thread.   *)
LEMMA UnderWayHeld ==
    ASSUME IndInv, Closed, mpc # "down", NEW j \in Pool!UnderWay, ~InHand(j)
    PROVE  \E t \in Threads : job[t] = j
<1>1. j \in Jobs /\ JobState(j) \in {"assigned", "executing", "executed"}
  BY DEF Pool!UnderWay, JobStates
<1>2. life[j] \in {"new", "live", "refused", "freed"}
  BY <1>1 DEF IndInv, TypeOK, TypeJobs, LeftBehind
<1>3. life[j] # "freed"
  <2> SUFFICES ASSUME life[j] = "freed" PROVE FALSE
    OBVIOUS
  <2>1. calls[j] = 0 \/ (calls[j] # 0 /\ panicmsg[j])
        \/ (calls[j] = 1 /\ ~panicmsg[j] /\ raised[j] = 1)
    BY <1>1 DEF Closed
  <2> QED BY <1>1, <2>1, States
<1>4. life[j] = "live" /\ Queued(j) = {}
  BY <1>1, <1>2, <1>3, States
<1>5. Held(j) # {}
  BY <1>1, <1>4 DEF IndInv, Owned
<1> QED BY <1>5 DEF Held

LEMMA SameCardinality == \A S : Pool!Cardinality(S) = Cardinality(S)
BY DEF Pool!Cardinality, Cardinality

(* So a thread without a job is one that the pool promises to use.         *)
LEMMA ThreadLeft ==
    ASSUME IndInv, Closed, NEW t \in Threads, job[t] = NoJob, mpc \notin {"start", "down"}
    PROVE  Pool!Cardinality(Pool!UnderWay) < NThreads
<1> DEFINE T == Threads \ {t}
           H == {job[u] : u \in T}
<1>1. NThreads \in Nat /\ IsFiniteSet(Threads) /\ Cardinality(Threads) = NThreads
  BY NThreadsAssumption, FS_Interval DEF Threads
<1>2. IsFiniteSet(T) /\ Cardinality(T) = NThreads - 1
  BY <1>1, FS_RemoveElement
<1>3. Pool!UnderWay \subseteq H
  <2>1. \A j \in Pool!UnderWay : \E u \in Threads : job[u] = j
    BY UnderWayHeld DEF InHand
  <2>2. Pool!UnderWay \subseteq Jobs
    BY DEF Pool!UnderWay
  <2> QED BY <2>1, <2>2, NoJobAssumption
<1> DEFINE f == [u \in T |-> job[u]]
<1>4. f \in Surjection(T, H)
  BY DEF Surjection
<1> HIDE DEF T, H, f
<1>5. IsFiniteSet(H) /\ Cardinality(H) <= Cardinality(T)
  BY <1>2, <1>4, FS_Surjection
<1>6. IsFiniteSet(Pool!UnderWay) /\ Cardinality(Pool!UnderWay) <= Cardinality(H)
  BY <1>3, <1>5, FS_Subset
<1>7. Cardinality(Pool!UnderWay) \in Nat /\ Cardinality(H) \in Nat
  BY <1>5, <1>6, FS_CardinalityType
<1>8. Cardinality(Pool!UnderWay) < NThreads
  BY <1>1, <1>2, <1>5, <1>6, <1>7
<1> QED BY <1>8, SameCardinality

(* What a slot of the ring is used for, and where the next entry goes.     *)
LEMMA RingSlots ==
    ASSUME TypeQueue, QueueConsistent, mpc # "down"
    PROVE  /\ queueAvail # 0 => SlotOf(QueueSize - queueAvail + 1) = nextIdx
           /\ \A i, k \in 1..(QueueSize - queueAvail) :
                 SlotOf(i) = SlotOf(k) => i = k
           /\ queueAvail # QueueSize => SlotOf(1) = lastIdx
           /\ queueAvail # 0 => \A i \in 1..(QueueSize - queueAvail) : SlotOf(i) # nextIdx
<1>1. QueueSize \in Nat \ {0} /\ queueAvail \in 0..QueueSize
      /\ lastIdx \in 0..(QueueSize - 1) /\ nextIdx \in 0..(QueueSize - 1)
  BY QueueSizeAssumption DEF TypeQueue, Slots
<1>2. QueueSize - queueAvail =
             IF queueAvail = QueueSize THEN 0
             ELSE IF lastIdx < nextIdx THEN nextIdx - lastIdx
             ELSE QueueSize - lastIdx + nextIdx
  BY DEF QueueConsistent
<1>3. queueAvail = QueueSize => nextIdx = lastIdx
  BY DEF QueueConsistent
<1>4. queueAvail # 0 => SlotOf(QueueSize - queueAvail + 1) = nextIdx
  BY <1>1, <1>2, <1>3 DEF SlotOf
<1>5. \A i, k \in 1..(QueueSize - queueAvail) : SlotOf(i) = SlotOf(k) => i = k
  BY <1>1 DEF SlotOf
<1>6. queueAvail # QueueSize => SlotOf(1) = lastIdx
  BY <1>1 DEF SlotOf
<1>7. queueAvail # 0 => \A i \in 1..(QueueSize - queueAvail) : SlotOf(i) # nextIdx
  BY <1>1, <1>2, <1>3 DEF SlotOf
<1> QED BY <1>4, <1>5, <1>6, <1>7
-----------------------------------------------------------------------------
(* Every step of the pool is one of JobPool, or none.                      *)

(* A sequence is the function that has its length and its elements.        *)
LEMMA SeqIsFunction ==
    ASSUME NEW S, NEW n \in Nat, NEW f \in [1..n -> S], NEW s \in Seq(S),
           Len(s) = n, \A i \in 1..n : f[i] = s[i]
    PROVE  f = s
<1>1. f \in Seq(S) /\ Len(f) = n
  OBVIOUS
<1> QED BY <1>1, SeqEqual

(* A job nobody knows has not been called.                                 *)
LEMMA NewJob ==
    ASSUME IndInv, NEW j \in Jobs, life[j] = "new"
    PROVE  /\ Held(j) = {} /\ Queued(j) = {} /\ ~InHand(j)
           /\ calls[j] = 0 /\ ended[j] = 0 /\ raised[j] = 0 /\ ~panicmsg[j]
<1>1. Held(j) = {} /\ Queued(j) = {} /\ ~InHand(j)
  BY DEF IndInv, Owned
<1> QED BY <1>1 DEF IndInv, JobPhases

LEMMA EnqueueStep ==
    ASSUME IndInv, NEW j \in Jobs, enqueueJob(j), mpc # "down", mpc' # "down",
           UNCHANGED <<calls, ended, raised, panicmsg>>
    PROVE  Pool!Wait(j) \/ Pool!Refuse(j)
<1>1. TypeQueue /\ TypeJobs /\ QueueConsistent
  BY DEF IndInv, TypeOK
<1>2. life[j] = "new" /\ Queued(j) = {}
  BY NewJob DEF enqueueJob
<1>3. JobStates[j] = "new"
  BY <1>2, States DEF JobStates
<1>4. /\ Entries \in Seq(Jobs \cup {NoJob})
      /\ Len(Entries) = QueueSize - queueAvail /\ QueueSize - queueAvail \in Nat
      /\ \A i \in 1..(QueueSize - queueAvail) :
            SlotOf(i) \in Slots /\ Entries[i] = jobQueue[SlotOf(i)]
  BY <1>1, EntriesAre
<1>5. queueAvail \in Nat /\ QueueSize \in Nat
  BY <1>1, QueueSizeAssumption DEF TypeQueue
<1>6. CASE queueAvail = 0
  <2>1. life' = [life EXCEPT ![j] = "refused"]
    BY <1>6 DEF enqueueJob
  <2>2. UNCHANGED <<jobQueue, nextIdx, queueAvail, lastIdx>>
    BY <1>6 DEF enqueueJob, queueVars
  <2>3. life'[j] = "refused" /\ \A k \in Jobs : k # j => life'[k] = life[k]
    BY <1>1, <2>1 DEF TypeJobs
  <2>4. \A k \in Jobs : k # j => SameJob(k)
    BY <2>2, <2>3 DEF SameJob, Queued
  <2>5. JobState(j)' = "refused"
    BY <2>3 DEF JobState
  <2>6. JobStates' = [JobStates EXCEPT ![j] = "refused"]
    BY <2>4, <2>5, OneState
  <2>7. Entries' = Entries
    BY <2>2 DEF Entries, SlotOf
  <2>8. Len(Entries) = QueueSize
    BY <1>4, <1>5, <1>6
  <2> QED BY <1>3, <2>6, <2>7, <2>8 DEF Pool!Refuse
<1>7. CASE queueAvail # 0
  <2>1. /\ life' = [life EXCEPT ![j] = "live"]
        /\ jobQueue' = [jobQueue EXCEPT ![nextIdx] = j]
        /\ queueAvail' = queueAvail - 1
        /\ lastIdx' = lastIdx
    BY <1>7 DEF enqueueJob
  <2>2. life'[j] = "live" /\ \A k \in Jobs : k # j => life'[k] = life[k]
    BY <1>1, <2>1 DEF TypeJobs
  <2>3. nextIdx \in Slots /\ jobQueue \in [Slots -> Jobs \cup {NoJob}]
    BY <1>1 DEF TypeQueue
  <2>4. jobQueue[nextIdx] = NoJob
    <3>1. ~InUse(nextIdx)
      BY <1>1, <1>5, <1>7, QueueSizeAssumption DEF QueueConsistent, InUse, TypeQueue, Slots
    <3> QED BY <1>1, <2>3, <3>1 DEF QueueConsistent
  <2>5. /\ jobQueue'[nextIdx] = j
        /\ \A i \in Slots : i # nextIdx => jobQueue'[i] = jobQueue[i]
    BY <2>1, <2>3
  <2>6. \A k \in Jobs : k # j => (Queued(k)' = {} <=> Queued(k) = {})
    BY <2>3, <2>4, <2>5, NoJobAssumption DEF Queued
  <2>7. \A k \in Jobs : k # j => SameJob(k)
    BY <2>2, <2>6 DEF SameJob
  <2>8. Queued(j)' # {}
    BY <2>3, <2>5 DEF Queued
  <2>9. JobState(j)' = "waiting"
    BY <2>2, <2>8 DEF JobState
  <2>10. JobStates' = [JobStates EXCEPT ![j] = "waiting"]
    BY <2>7, <2>9, OneState
  <2>11. \A i : SlotOf(i)' = SlotOf(i)
    BY <2>1 DEF SlotOf
  <2>12. Entries' = Append(Entries, j)
    <3> DEFINE n == QueueSize - queueAvail
    <3>1. QueueSize - queueAvail' = n + 1
      BY <1>5, <2>1
    <3>2. Entries' = [i \in 1..(n + 1) |-> jobQueue'[SlotOf(i)]]
      BY <2>11, <3>1 DEF Entries
    <3>3. \A i \in 1..n : jobQueue'[SlotOf(i)] = Entries[i]
      BY <1>1, <1>4, <1>7, <2>5, RingSlots
    <3>4. jobQueue'[SlotOf(n + 1)] = j
      BY <1>1, <1>7, <2>5, RingSlots
    <3>5. n \in Nat /\ Len(Entries) = n /\ Entries \in Seq(Jobs \cup {NoJob})
      BY <1>4
    <3> HIDE DEF n
    <3> DEFINE S == Jobs \cup {NoJob}
    <3>6. /\ Append(Entries, j) \in Seq(S) /\ Len(Append(Entries, j)) = n + 1
          /\ \A i \in 1..n : Append(Entries, j)[i] = Entries[i]
          /\ Append(Entries, j)[n + 1] = j
      BY <3>5, AppendProperties
    <3>7. \A i \in 1..(n + 1) : i = n + 1 \/ i \in 1..n
      BY <3>5
    <3>8. n + 1 \in Nat
      BY <3>5
    <3> DEFINE s == Append(Entries, j)
    <3> HIDE DEF S, s
    <3>9. \A i \in 1..(n + 1) : s[i] \in S
      BY <3>6, <3>8 DEF s
    <3>10. \A i \in 1..(n + 1) : jobQueue'[SlotOf(i)] = s[i]
      BY <3>3, <3>4, <3>6, <3>7 DEF s
    <3>11. Entries' \in [1..(n + 1) -> S] /\ \A i \in 1..(n + 1) : Entries'[i] = s[i]
      BY <3>2, <3>9, <3>10
    <3>12. Entries' = s
      BY <3>6, <3>8, <3>11, SeqIsFunction DEF s
    <3> QED BY <3>12 DEF s
  <2>13. Len(Entries) < QueueSize
    BY <1>4, <1>5, <1>7
  <2> QED BY <1>3, <2>10, <2>12, <2>13 DEF Pool!Wait
<1> QED BY <1>6, <1>7

LEMMA SubmitStep ==
    ASSUME IndInv, Closed, NEW j \in Jobs, Submit(j)
    PROVE  Pool!Assign(j) \/ Pool!Wait(j) \/ Pool!Refuse(j)
<1>1. mpc # "down" /\ mpc # "start" /\ mpc' # "down"
  BY DEF Submit, mainVars
<1>2. UNCHANGED <<calls, ended, raised, panicmsg>>
  BY DEF Submit, history
<1>3. CASE FreeThreads # {}
  <2>1. life[j] = "new" /\ life' = [life EXCEPT ![j] = "live"]
    BY <1>3 DEF Submit
  <2>2. UNCHANGED <<jobQueue, nextIdx, queueAvail, lastIdx>>
    BY <1>3 DEF Submit, queueVars
  <2>3. life'[j] = "live" /\ \A k \in Jobs : k # j => life'[k] = life[k]
    BY <2>1 DEF IndInv, TypeOK, TypeJobs
  <2>4. \A k \in Jobs : k # j => SameJob(k)
    BY <1>2, <2>2, <2>3 DEF SameJob, Queued
  <2>5. Queued(j) = {} /\ calls[j] = 0 /\ ended[j] = 0 /\ raised[j] = 0 /\ ~panicmsg[j]
    BY <2>1, NewJob
  <2>6. Queued(j)' = {}
    BY <2>2, <2>5 DEF Queued
  <2>7. JobState(j)' = "assigned"
    BY <1>2, <2>3, <2>5, <2>6 DEF JobState
  <2>8. JobStates' = [JobStates EXCEPT ![j] = "assigned"]
    BY <2>4, <2>7, OneState
  <2>9. Entries' = Entries
    BY <1>1, <2>2 DEF Entries, SlotOf
  <2>10. JobStates[j] = "new"
    BY <2>1, States DEF JobStates
  <2>11. Pool!Cardinality(Pool!UnderWay) < NThreads
    <3>1. PICK t \in Threads : job[t] = NoJob
      BY <1>3 DEF FreeThreads
    <3> QED BY <1>1, <3>1, ThreadLeft
  <2> QED BY <2>8, <2>9, <2>10, <2>11 DEF Pool!Assign
<1>4. CASE FreeThreads = {}
  <2>1. enqueueJob(j)
    BY <1>4 DEF Submit
  <2> QED BY <1>1, <1>2, <2>1, EnqueueStep
<1> QED BY <1>3, <1>4

(* A job somebody waits for in the queue has not been called.              *)
LEMMA WaitingJob ==
    ASSUME IndInv, NEW j \in Jobs, Queued(j) # {}
    PROVE  /\ life[j] = "live" /\ Held(j) = {} /\ ~InHand(j)
           /\ calls[j] = 0 /\ ended[j] = 0 /\ raised[j] = 0 /\ ~panicmsg[j]
<1>1. life[j] = "live" /\ ~InHand(j)
  BY DEF IndInv, Owned
<1>2. Held(j) = {}
  BY NoJobAssumption DEF IndInv, Owned, Held, Queued
<1> QED BY <1>1, <1>2 DEF IndInv, JobPhases

LEMMA CancelStep ==
    ASSUME IndInv, NEW j \in Jobs, CancelQueued(j)
    PROVE  Pool!Cancel(j)
<1>1. TypeQueue /\ TypeJobs /\ QueueConsistent /\ TypeHistory
  BY DEF IndInv, TypeOK
<1>2. PICK s \in Slots : jobQueue[s] = j /\ jobQueue' = [jobQueue EXCEPT ![s] = NoJob]
  BY DEF CancelQueued
<1>3. Queued(j) # {}
  BY <1>2 DEF Queued
<1>4. life[j] = "live" /\ calls[j] = 0 /\ raised[j] = 0
  BY <1>3, WaitingJob
<1>5. /\ life'[j] = "freed" /\ \A k \in Jobs : k # j => life'[k] = life[k]
      /\ raised'[j] = 1 /\ \A k \in Jobs : k # j => raised'[k] = raised[k]
  BY <1>1, <1>4 DEF CancelQueued, TypeJobs, TypeHistory
<1>6. UNCHANGED <<calls, ended, panicmsg, queueAvail, lastIdx, mpc>> /\ mpc = "loop"
  BY DEF CancelQueued, mainVars
<1>7. /\ \A i \in Slots : jobQueue[i] = j => i = s
      /\ jobQueue'[s] = NoJob
      /\ \A i \in Slots : i # s => jobQueue'[i] = jobQueue[i]
  BY <1>1, <1>2, NoJobAssumption DEF TypeQueue, IndInv, Owned
<1>8. \A k \in Jobs : k # j => SameJob(k)
  BY <1>2, <1>5, <1>6, <1>7, NoJobAssumption DEF SameJob, Queued
<1>9. JobState(j)' = "cancelled"
  BY <1>4, <1>5, <1>6 DEF JobState
<1>10. JobStates' = [JobStates EXCEPT ![j] = "cancelled"]
  BY <1>8, <1>9, OneState
<1>11. JobStates[j] = "waiting"
  BY <1>3, <1>4, States DEF JobStates
<1>12. /\ Len(Entries) = QueueSize - queueAvail
       /\ \A i \in 1..(QueueSize - queueAvail) :
             SlotOf(i) \in Slots /\ Entries[i] = jobQueue[SlotOf(i)]
  BY <1>1, <1>6, EntriesAre
<1>13. Entries' = [i \in 1..(QueueSize - queueAvail) |-> jobQueue'[SlotOf(i)]]
  BY <1>6 DEF Entries, SlotOf
<1>14. \A i \in 1..(QueueSize - queueAvail) :
          jobQueue'[SlotOf(i)] = IF Entries[i] = j THEN NoJob ELSE Entries[i]
  BY <1>2, <1>7, <1>12
<1>15. Entries' = [i \in 1..Len(Entries) |-> IF Entries[i] = j THEN NoJob ELSE Entries[i]]
  BY <1>12, <1>13, <1>14
<1> QED BY <1>10, <1>11, <1>15 DEF Pool!Cancel

LEMMA DequeueStep ==
    ASSUME IndInv, Closed, dequeueJob
    PROVE  Pool!Take \/ UNCHANGED <<JobStates, Entries>>
<1>1. TypeQueue /\ TypeJobs /\ QueueConsistent
  BY DEF IndInv, TypeOK
<1>2. UNCHANGED <<life, calls, ended, raised, panicmsg>> /\ mpc = "deq"
  BY DEF dequeueJob, jobVars, history
<1>3. CASE queueAvail = QueueSize
  <2>1. UNCHANGED <<jobQueue, queueAvail, lastIdx>> /\ mpc' # "down"
    BY <1>3 DEF dequeueJob, queueVars
  <2> QED BY <1>2, <2>1, Stutters
<1>4. CASE queueAvail # QueueSize
  <2>1. /\ jobQueue' = [jobQueue EXCEPT ![lastIdx] = NoJob]
        /\ lastIdx' = Wrap(lastIdx + 1)
        /\ queueAvail' = queueAvail + 1
        /\ mpc' # "down"
    BY <1>2, <1>4 DEF dequeueJob
  <2>2. lastIdx \in Slots /\ jobQueue \in [Slots -> Jobs \cup {NoJob}]
    BY <1>1 DEF TypeQueue
  <2>3. /\ Entries \in Seq(Jobs \cup {NoJob})
        /\ Len(Entries) = QueueSize - queueAvail /\ QueueSize - queueAvail \in Nat
        /\ \A i \in 1..(QueueSize - queueAvail) :
              SlotOf(i) \in Slots /\ Entries[i] = jobQueue[SlotOf(i)]
    BY <1>1, <1>2, EntriesAre
  <2>4. queueAvail \in 0..QueueSize /\ QueueSize \in Nat \ {0} /\ QueueSize - queueAvail > 0
    BY <1>1, <1>4, QueueSizeAssumption DEF TypeQueue
  <2>5. Entries # <<>> /\ Head(Entries) = jobQueue[lastIdx]
    <3>1. 1 \in 1..(QueueSize - queueAvail) /\ SlotOf(1) = lastIdx
      BY <1>1, <1>2, <1>4, <2>4, RingSlots
    <3>2. Entries[1] = jobQueue[lastIdx]
      BY <2>3, <3>1
    <3>3. Len(Entries) > 0
      BY <2>3, <2>4
    <3>4. Entries # <<>>
      BY <2>3, <3>3
    <3> QED BY <2>3, <3>2, <3>4
  <2>6. Entries' = Tail(Entries)
    <3> DEFINE n == QueueSize - queueAvail
    <3>1. n \in Nat /\ n > 0 /\ QueueSize - queueAvail' = n - 1 /\ n <= QueueSize
      BY <2>1, <2>4
    <3>2. \A i \in 1..(n - 1) : SlotOf(i)' = SlotOf(i + 1) /\ SlotOf(i + 1) # lastIdx
      BY <2>1, <2>2, <2>4, <3>1 DEF SlotOf, Wrap, Slots
    <3>3. \A i \in 1..(n - 1) : i + 1 \in 1..n
      BY <3>1
    <3>4. \A i \in 1..(n - 1) : jobQueue'[SlotOf(i)'] = Entries[i + 1]
      BY <2>1, <2>2, <2>3, <3>2, <3>3
    <3>5. Entries' = [i \in 1..(n - 1) |-> jobQueue'[SlotOf(i)']]
      BY <2>1, <3>1 DEF Entries
    <3>6. Len(Entries) = n /\ Entries \in Seq(Jobs \cup {NoJob})
      BY <2>3
    <3> HIDE DEF n
    <3> DEFINE S == Jobs \cup {NoJob}
               s == Tail(Entries)
    <3>7. /\ Tail(Entries) \in Seq(S) /\ Len(Tail(Entries)) = n - 1
          /\ \A i \in 1..(n - 1) : Tail(Entries)[i] = Entries[i + 1]
      BY <2>5, <3>6, HeadTailProperties
    <3>8. n - 1 \in Nat
      BY <3>1
    <3> HIDE DEF S, s
    <3>9. \A i \in 1..(n - 1) : s[i] \in S
      BY <3>7, <3>8 DEF s
    <3>10. \A i \in 1..(n - 1) : jobQueue'[SlotOf(i)'] = s[i]
      BY <3>4, <3>7 DEF s
    <3>11. Entries' \in [1..(n - 1) -> S] /\ \A i \in 1..(n - 1) : Entries'[i] = s[i]
      BY <3>5, <3>9, <3>10
    <3>12. Entries' = s
      BY <3>7, <3>8, <3>11, SeqIsFunction DEF s
    <3> QED BY <3>12 DEF s
  <2>7. CASE jobQueue[lastIdx] = NoJob
    <3>1. \A i \in Slots : jobQueue'[i] = jobQueue[i]
      BY <2>1, <2>2, <2>7
    <3>2. \A k \in Jobs : SameJob(k)
      BY <1>2, <3>1 DEF SameJob, Queued
    <3>3. JobStates' = JobStates
      BY <3>2, SameState DEF JobStates
    <3> QED BY <2>5, <2>6, <2>7, <3>3 DEF Pool!Take
  <2>8. CASE jobQueue[lastIdx] # NoJob
    <3>1. PICK j \in Jobs : jobQueue[lastIdx] = j
      BY <2>2, <2>8
    <3>2. Queued(j) # {}
      BY <2>2, <3>1 DEF Queued
    <3>3. life[j] = "live" /\ calls[j] = 0 /\ ended[j] = 0 /\ raised[j] = 0 /\ ~panicmsg[j]
      BY <3>2, WaitingJob
    <3>4. /\ \A i \in Slots : jobQueue[i] = j => i = lastIdx
          /\ jobQueue'[lastIdx] = NoJob
          /\ \A i \in Slots : i # lastIdx => jobQueue'[i] = jobQueue[i]
      BY <2>1, <2>2, <2>8, <3>1 DEF IndInv, Owned
    <3>5. Queued(j)' = {}
      BY <3>2, <3>4, NoJobAssumption DEF Queued
    <3>6. \A k \in Jobs : k # j => (Queued(k)' = {} <=> Queued(k) = {})
      BY <2>2, <3>4, <3>1, NoJobAssumption DEF Queued
    <3>7. \A k \in Jobs : k # j => SameJob(k)
      BY <1>2, <3>6 DEF SameJob
    <3>8. JobState(j)' = "assigned"
      BY <1>2, <3>3, <3>5 DEF JobState
    <3>9. JobStates' = [JobStates EXCEPT ![j] = "assigned"]
      BY <3>2, <3>7, <3>8, OneState
    <3>10. cur \in Threads /\ job[cur] = NoJob
      BY <1>2, <3>2 DEF IndInv, TypeOK, TypeMain, Handshake
    <3>11. Pool!Cardinality(Pool!UnderWay) < NThreads
      BY <1>2, <3>10, ThreadLeft
    <3>12. j # NoJob /\ Head(Entries) = j
      BY <2>5, <3>2, <3>1, NoJobAssumption
    <3>13. JobStates' = [JobStates EXCEPT ![Head(Entries)] = "assigned"]
      BY <3>9, <3>12
    <3>14. Head(Entries) # NoJob
      BY <3>12
    <3> QED BY <2>5, <2>6, <3>11, <3>13, <3>14 DEF Pool!Take
  <2> QED BY <2>7, <2>8
<1> QED BY <1>3, <1>4
LEMMA PanicStep ==
    ASSUME IndInv, JobDonePanic
    PROVE  \E j \in Jobs : Pool!Finish(j)
<1> DEFINE j == job[cur]
<1>1. /\ mpc = "wokedone" /\ panicmsg[j] /\ mpc' = "stop"
      /\ life' = [life EXCEPT ![j] = "freed"]
  BY DEF JobDonePanic
<1>2. UNCHANGED <<calls, ended, raised, panicmsg, jobQueue, queueAvail, lastIdx>>
  BY DEF JobDonePanic, history, queueVars
<1>3. cur \in Threads /\ j \in Jobs /\ life[j] = "live" /\ Queued(j) = {}
  BY <1>1, AtDone
<1>4. calls[j] = 1 /\ raised[j] = 0
  BY <1>1, <1>3, NoJobAssumption DEF IndInv, JobPhases, Raising
<1> HIDE DEF j
<1>5. life'[j] = "freed" /\ \A k \in Jobs : k # j => life'[k] = life[k]
  BY <1>1, <1>3 DEF IndInv, TypeOK, TypeJobs
<1>6. \A k \in Jobs : k # j => SameJob(k)
  BY <1>2, <1>5 DEF SameJob, Queued
<1>7. PICK i \in Jobs : i = j
  BY <1>3
<1>8. JobState(i)' = "panicked"
  <2>1. life'[i] = "freed" /\ calls'[i] = 1 /\ panicmsg'[i]
    BY <1>1, <1>2, <1>4, <1>5, <1>7
  <2>2. calls'[i] # 0 /\ life'[i] \notin {"new", "refused", "live"}
    BY <2>1
  <2> QED BY <2>1, <2>2 DEF JobState
<1>9. JobStates' = [JobStates EXCEPT ![i] = "panicked"]
  BY <1>6, <1>7, <1>8, OneState
<1>10. JobStates[i] = "executed"
  <2>1. ~(raised[i] = 1)
    BY <1>4, <1>7
  <2> QED BY <1>1, <1>3, <1>7, <2>1, States DEF JobStates
<1>11. Entries' = Entries
  BY <1>1, <1>2 DEF Entries, SlotOf
<1> QED BY <1>9, <1>10, <1>11 DEF Pool!Finish

LEMMA RaiseStep ==
    ASSUME IndInv, JobDoneRaise
    PROVE  \E j \in Jobs : Pool!Finish(j)
<1> DEFINE j == job[cur]
<1>1. /\ mpc = "wokedone" /\ ~panicmsg[j] /\ mpc' = "raise"
      /\ raised' = [raised EXCEPT ![j] = @ + 1]
  BY DEF JobDoneRaise
<1>2. UNCHANGED <<life, calls, ended, panicmsg, jobQueue, queueAvail, lastIdx>>
  BY DEF JobDoneRaise, jobVars, queueVars
<1>3. cur \in Threads /\ j \in Jobs /\ life[j] = "live" /\ Queued(j) = {}
  BY <1>1, AtDone
<1>4. calls[j] = 1 /\ raised[j] = 0 /\ (ended[j] = 1 \/ panicmsg[j])
  BY <1>1, <1>3, NoJobAssumption DEF IndInv, JobPhases, Raising
<1> HIDE DEF j
<1>5. raised'[j] = 1 /\ \A k \in Jobs : k # j => raised'[k] = raised[k]
  BY <1>1, <1>3, <1>4 DEF IndInv, TypeOK, TypeHistory
<1>6. \A k \in Jobs : k # j => SameJob(k)
  BY <1>2, <1>5 DEF SameJob, Queued
<1>7. PICK i \in Jobs : i = j
  BY <1>3
<1>8. JobState(i)' = "finished"
  <2>1. life'[i] = "live" /\ calls'[i] = 1 /\ raised'[i] = 1
    BY <1>2, <1>3, <1>4, <1>5, <1>7
  <2>2. Queued(i)' = {}
    BY <1>2, <1>3, <1>7 DEF Queued
  <2> QED BY <2>1, <2>2 DEF JobState
<1>9. JobStates' = [JobStates EXCEPT ![i] = "finished"]
  BY <1>6, <1>7, <1>8, OneState
<1>10. JobStates[i] = "executed"
  <2>1. ~(raised[i] = 1)
    BY <1>4, <1>7
  <2> QED BY <1>3, <1>4, <1>7, <2>1, States DEF JobStates
<1>11. Entries' = Entries
  BY <1>1, <1>2 DEF Entries, SlotOf
<1> QED BY <1>9, <1>10, <1>11 DEF Pool!Finish

(* JobPool's job was finished when the handlers ran; that it is destroyed  *)
(* does not concern it.                                                    *)
LEMMA FreeStep ==
    ASSUME IndInv, Closed, JobDoneFree
    PROVE  UNCHANGED <<JobStates, Entries>>
<1> DEFINE j == job[cur]
<1>1. Raising /\ mpc # "down" /\ mpc' # "down" /\ life' = [life EXCEPT ![j] = "freed"]
  BY DEF JobDoneFree, Raising
<1>2. UNCHANGED <<calls, ended, raised, panicmsg, jobQueue, queueAvail, lastIdx>>
  BY DEF JobDoneFree, history, queueVars
<1>3. j \in Jobs /\ life[j] = "live" /\ Queued(j) = {}
  BY <1>1, AtDone
<1>4. raised[j] = 1 /\ calls[j] = 1
  BY <1>1 DEF Closed
<1>5. ~panicmsg[j]
  BY <1>3, <1>4 DEF IndInv, FinishedMeansOver
<1> HIDE DEF j
<1>6. life'[j] = "freed" /\ \A k \in Jobs : k # j => life'[k] = life[k]
  BY <1>1, <1>3 DEF IndInv, TypeOK, TypeJobs
<1>7. \A k \in Jobs : k # j => SameJob(k)
  BY <1>2, <1>6 DEF SameJob, Queued
<1>8. PICK i \in Jobs : i = j
  BY <1>3
<1>9. JobState(i)' = "finished"
  <2>1. life'[i] = "freed" /\ calls'[i] = 1 /\ raised'[i] = 1 /\ ~panicmsg'[i]
    BY <1>2, <1>4, <1>5, <1>6, <1>8
  <2>2. calls'[i] # 0 /\ life'[i] \notin {"new", "refused", "live"}
    BY <2>1
  <2> QED BY <2>1, <2>2 DEF JobState
<1>10. JobState(i) = "finished"
  BY <1>3, <1>4, <1>8, States
<1>11. \A k \in Jobs : JobState(k)' = JobState(k)
  BY <1>7, <1>8, <1>9, <1>10, SameState
<1>12. JobStates' = JobStates
  BY <1>11 DEF JobStates
<1>13. Entries' = Entries
  BY <1>1, <1>2 DEF Entries, SlotOf
<1> QED BY <1>12, <1>13

(* A step of the procedure of thread t's job.                              *)
LEMMA RunStep ==
    ASSUME IndInv, NEW t \in Threads, WakeRun(t)
    PROVE  \E j \in Jobs : Pool!Execute(j)
<1>1. /\ wpc[t] = "wake" /\ ~stoprq[t]
      /\ calls' = [calls EXCEPT ![job[t]] = @ + 1]
  BY DEF WakeRun
<1>2. UNCHANGED <<life, ended, raised, panicmsg, jobQueue, queueAvail, lastIdx, mpc>>
  BY DEF WakeRun, mainVars, jobVars, queueVars
<1>3. job[t] \in Jobs
  BY <1>1 DEF IndInv, TypeOK, TypeThreads, Handshake
<1>4. PICK j \in Jobs : job[t] = j
  BY <1>3
<1>5. j # NoJob
  BY NoJobAssumption
<1>6. life[j] = "live" /\ Queued(j) = {}
  BY <1>4, <1>5 DEF IndInv, Owned, Held, Queued
<1>7. ~(Raising /\ cur = t)
  BY <1>1 DEF IndInv, Handshake
<1>8. calls[j] = 0 /\ ended[j] = 0 /\ ~panicmsg[j] /\ raised[j] = 0
  BY <1>1, <1>4, <1>5, <1>7 DEF IndInv, JobPhases
<1>9. calls'[j] = 1 /\ \A k \in Jobs : k # j => calls'[k] = calls[k]
  BY <1>1, <1>4, <1>8 DEF IndInv, TypeOK, TypeHistory
<1>10. \A k \in Jobs : k # j => SameJob(k)
  BY <1>2, <1>9 DEF SameJob, Queued
<1>11. JobState(j)' = "executing"
  <2>1. life'[j] = "live" /\ Queued(j)' = {}
    BY <1>2, <1>6 DEF Queued
  <2>2. ~(raised'[j] = 1) /\ ~(ended'[j] = 1) /\ ~panicmsg'[j]
    BY <1>2, <1>8
  <2> QED BY <1>9, <2>1, <2>2 DEF JobState
<1>12. JobStates' = [JobStates EXCEPT ![j] = "executing"]
  BY <1>10, <1>11, OneState
<1>13. JobStates[j] = "assigned"
  <2>1. ~(raised[j] = 1) /\ ~(ended[j] = 1) /\ ~(calls[j] = 1)
    BY <1>8
  <2> QED BY <1>6, <1>8, <2>1, States DEF JobStates
<1>14. Entries' = Entries
  BY <1>2 DEF Entries, SlotOf
<1> QED BY <1>12, <1>13, <1>14 DEF Pool!Execute

LEMMA ReturnStep ==
    ASSUME IndInv, NEW t \in Threads, ProcEnds(t) \/ ProcPanics(t)
    PROVE  \E j \in Jobs : Pool!Return(j)
<1>1. wpc[t] = "run"
  BY DEF ProcEnds, ProcPanics
<1>2. UNCHANGED <<life, calls, raised, jobQueue, queueAvail, lastIdx, mpc>>
  BY DEF ProcEnds, ProcPanics, mainVars, jobVars, queueVars, history
<1>3. job[t] \in Jobs /\ life[job[t]] = "live" /\ Queued(job[t]) = {} /\ raised[job[t]] = 0
  BY <1>1, AtWork
<1>4. PICK j \in Jobs : job[t] = j
  BY <1>3
<1>5. calls[j] = 1 /\ ended[j] = 0 /\ ~panicmsg[j]
  BY <1>1, <1>4, NoJobAssumption DEF IndInv, JobPhases
<1>6. /\ ended'[j] = 1 \/ panicmsg'[j]
      /\ \A k \in Jobs : k # j => ended'[k] = ended[k]
      /\ \A k \in Jobs : k # j => panicmsg'[k] = panicmsg[k]
  <2>1. CASE ProcEnds(t)
    <3>1. ended' = [ended EXCEPT ![j] = @ + 1] /\ panicmsg' = panicmsg
      BY <1>4, <2>1 DEF ProcEnds, jobVars
    <3>2. ended'[j] = 1 /\ \A k \in Jobs : k # j => ended'[k] = ended[k]
      BY <1>5, <3>1 DEF IndInv, TypeOK, TypeHistory
    <3> QED BY <3>1, <3>2
  <2>2. CASE ProcPanics(t)
    <3>1. panicmsg' = [panicmsg EXCEPT ![j] = TRUE] /\ ended' = ended
      BY <1>4, <2>2 DEF ProcPanics, history
    <3>2. panicmsg \in [Jobs -> BOOLEAN]
      BY DEF IndInv, TypeOK, TypeJobs
    <3>3. panicmsg'[j] /\ \A k \in Jobs : k # j => panicmsg'[k] = panicmsg[k]
      BY <3>1, <3>2, Zenon
    <3> QED BY <3>1, <3>3
  <2> QED BY <2>1, <2>2
<1>7. \A k \in Jobs : k # j => SameJob(k)
  BY <1>2, <1>6 DEF SameJob, Queued
<1>8. JobState(j)' = "executed"
  <2>1. life'[j] = "live" /\ Queued(j)' = {}
    BY <1>2, <1>3, <1>4 DEF Queued
  <2>2. ~(raised'[j] = 1)
    BY <1>2, <1>3, <1>4
  <2> QED BY <1>6, <2>1, <2>2 DEF JobState
<1>9. JobStates' = [JobStates EXCEPT ![j] = "executed"]
  BY <1>7, <1>8, OneState
<1>10. JobStates[j] = "executing"
  <2>1. ~(raised[j] = 1) /\ ~(ended[j] = 1)
    BY <1>3, <1>4, <1>5
  <2> QED BY <1>3, <1>4, <1>5, <2>1, States DEF JobStates
<1>11. Entries' = Entries
  BY <1>2 DEF Entries, SlotOf
<1> QED BY <1>9, <1>10, <1>11 DEF Pool!Return

(* What still waits is destroyed with the pool.                            *)
LEMMA JoinStep ==
    ASSUME IndInv, Join
    PROVE  Pool!Close \/ UNCHANGED <<JobStates, Entries>>
<1>1. UNCHANGED <<calls, ended, raised, panicmsg>> /\ mpc = "join"
  BY DEF Join, ThreadsFreed, history
<1>2. CASE tgt < NThreads
  <2>1. UNCHANGED <<life, jobQueue, queueAvail, lastIdx>> /\ mpc' # "down"
    BY <1>2 DEF Join, ThreadsFreed, queueVars
  <2> QED BY <1>1, <2>1, Stutters
<1>3. CASE ~(tgt < NThreads)
  <2>1. /\ mpc' = "down"
        /\ \A j \in Jobs : life'[j] = IF Queued(j) # {} THEN "freed"
                                      ELSE IF Held(j) # {} THEN "lost" ELSE life[j]
        /\ jobQueue' = [i \in Slots |-> NoJob]
    BY <1>3 DEF Join, ThreadsFreed, Queued, Held
  <2>2. \A j \in Jobs : Queued(j)' = {}
    BY <2>1, NoJobAssumption DEF Queued
  <2>3. ASSUME NEW j \in Jobs
        PROVE  JobState(j)' = IF JobState(j) = "waiting" THEN "dropped" ELSE JobState(j)
    <3>1. CASE Queued(j) # {}
      <4>1. life[j] = "live" /\ calls[j] = 0 /\ raised[j] = 0
        BY <3>1, WaitingJob
      <4>2. JobState(j) = "waiting"
        BY <3>1, <4>1, States
      <4>3. life'[j] = "freed" /\ calls'[j] = 0 /\ ~(raised'[j] = 1)
        BY <1>1, <2>1, <3>1, <4>1
      <4>4. JobState(j)' = "dropped"
        BY <2>2, <4>3 DEF JobState
      <4> QED BY <4>2, <4>4
    <3>2. CASE Queued(j) = {} /\ Held(j) = {}
      <4>1. SameJob(j)
        BY <1>1, <2>1, <2>2, <3>2 DEF SameJob
      <4>2. JobState(j) # "waiting"
        BY <3>2 DEF JobState, IndInv, TypeOK, TypeJobs
      <4> QED BY <4>1, <4>2, SameState
    <3>3. CASE Queued(j) = {} /\ Held(j) # {}
      <4>1. PICK t \in Threads : job[t] = j
        BY <3>3 DEF Held
      <4>2. Stopped(t) /\ job[t] # NoJob
        BY <1>1, <1>3, <4>1, NThreadsAssumption, NoJobAssumption
        DEF Stopped, Stopping, IndInv, TypeOK, TypeMain, Threads
      <4>3. calls[j] = 1 /\ (ended[j] = 1 \/ panicmsg[j]) /\ life[j] = "live"
        BY <3>3, <4>1, <4>2 DEF IndInv, StoppedAfterJob, Owned
      <4>4. raised[j] = 0
        BY <1>1, <4>1, <4>2 DEF IndInv, JobPhases, Raising
      <4>5. JobState(j) = "executed"
        BY <3>3, <4>3, <4>4, States
      <4>6. life'[j] = "lost"
        BY <2>1, <3>3
      <4>7. JobState(j)' = "executed"
        BY <1>1, <4>3, <4>4, <4>6 DEF JobState
      <4> QED BY <4>5, <4>7
    <3> QED BY <3>1, <3>2, <3>3
  <2>4. JobStates' = [j \in Jobs |-> IF JobStates[j] = "waiting" THEN "dropped" ELSE JobStates[j]]
    BY <2>3 DEF JobStates
  <2>5. Entries' = <<>>
    BY <2>1 DEF Entries
  <2> QED BY <2>4, <2>5 DEF Pool!Close
<1> QED BY <1>2, <1>3

(* The steps JobPool knows nothing of: locks, signals, pipes, timeouts.    *)
LEMMA HiddenStep ==
    ASSUME IndInv,
           \/ \E j \in Jobs : CancelRunning(j)
           \/ LockStart \/ LockDone \/ StopBusy \/ StopBusyWoke \/ StopIdle
           \/ checkThreadJobs \/ Shutdown
           \/ \E t \in Threads : \/ JobDoneWait(t) \/ Begin(t) \/ LockFirst(t)
                                 \/ LoopTop(t) \/ WakeStop(t) \/ SignalDone(t)
    PROVE  UNCHANGED <<JobStates, Entries>>
<1>1. UNCHANGED <<life, calls, ended, raised, panicmsg>>
  BY DEF CancelRunning, LockStart, LockDone, StopBusy, StopBusyWoke, StopIdle,
     checkThreadJobs, Shutdown, JobDoneWait, Begin, LockFirst, LoopTop, WakeStop,
     SignalDone, jobVars, history
<1>2. UNCHANGED <<jobQueue, queueAvail, lastIdx>>
  BY DEF CancelRunning, LockStart, LockDone, StopBusy, StopBusyWoke, StopIdle,
     checkThreadJobs, Shutdown, JobDoneWait, Begin, LockFirst, LoopTop, WakeStop,
     SignalDone, queueVars
<1>3. ret # "down"
  BY DEF IndInv, TypeOK, TypeMain
<1>4. mpc' = "down" <=> mpc = "down"
  BY <1>3 DEF CancelRunning, LockStart, LockDone, StopBusy, StopBusyWoke, StopIdle,
     checkThreadJobs, Shutdown, JobDoneWait, Begin, LockFirst, LoopTop, WakeStop,
     SignalDone, mainVars
<1>5. CASE mpc = "down"
  <2>1. \A j \in Jobs : SameJob(j)
    BY <1>1, <1>2 DEF SameJob, Queued
  <2>2. JobStates' = JobStates
    BY <2>1, SameState DEF JobStates
  <2> QED BY <1>4, <1>5, <2>2 DEF Entries
<1>6. CASE mpc # "down"
  BY <1>1, <1>2, <1>4, <1>6, Stutters
<1> QED BY <1>5, <1>6

LEMMA PoolStep ==
    ASSUME IndInv, Closed, [Next]_vars
    PROVE  Pool!Next \/ UNCHANGED <<JobStates, Entries>>
<1>1. ASSUME NEW j \in Jobs, Submit(j) PROVE Pool!Next
  BY <1>1, SubmitStep DEF Pool!Next
<1>2. ASSUME NEW j \in Jobs, CancelQueued(j) PROVE Pool!Next
  BY <1>2, CancelStep DEF Pool!Next
<1>3. ASSUME NEW t \in Threads, NEW j \in Jobs, WorkerEnqueue(t, j) PROVE Pool!Next
  <2>1. wpc[t] = "run" /\ enqueueJob(j) /\ mpc' = mpc
        /\ UNCHANGED <<calls, ended, raised, panicmsg>>
    BY <1>3 DEF WorkerEnqueue, mainVars, history
  <2>2. mpc # "down"
    <3> SUFFICES ASSUME mpc = "down" PROVE FALSE
      OBVIOUS
    <3>1. tgt = NThreads /\ wpc[tgt] = "dead"
      BY DEF IndInv, Handshake
    <3>2. t = tgt \/ t < tgt
      BY <3>1, NThreadsAssumption DEF Threads
    <3>3. wpc[t] = "dead"
      BY <3>1, <3>2 DEF IndInv, Handshake, Stopping
    <3> QED BY <2>1, <3>3
  <2>3. Pool!Wait(j) \/ Pool!Refuse(j)
    BY <2>1, <2>2, EnqueueStep
  <2> QED BY <2>3 DEF Pool!Next
<1>4. CASE JobDonePanic
  BY <1>4, PanicStep DEF Pool!Next
<1>5. CASE JobDoneRaise
  BY <1>5, RaiseStep DEF Pool!Next
<1>6. CASE JobDoneFree
  BY <1>6, FreeStep
<1>7. CASE dequeueJob
  BY <1>7, DequeueStep DEF Pool!Next
<1>8. CASE Join
  BY <1>8, JoinStep DEF Pool!Next
<1>9. ASSUME NEW t \in Threads, WakeRun(t) PROVE Pool!Next
  BY <1>9, RunStep DEF Pool!Next
<1>10. ASSUME NEW t \in Threads, ProcEnds(t) \/ ProcPanics(t) PROVE Pool!Next
  BY <1>10, ReturnStep DEF Pool!Next
<1>11. CASE UNCHANGED vars
  <2>1. \A j \in Jobs : SameJob(j)
    BY <1>11 DEF SameJob, Queued, vars, jobVars, history, queueVars
  <2>2. JobStates' = JobStates
    BY <2>1, SameState DEF JobStates
  <2>3. Entries' = Entries
    BY <1>11 DEF Entries, SlotOf, vars, mainVars, queueVars
  <2> QED BY <2>2, <2>3
<1> QED
  BY <1>1, <1>2, <1>3, <1>4, <1>5, <1>6, <1>7, <1>8, <1>9, <1>10, <1>11, HiddenStep
  DEF Next, Environment, MainStep, WorkerStep

(* The pool of threadpool.c is the bounded first-in-first-out pool that    *)
(* JobPool describes: every step of main or of a worker is one step of it  *)
(* or leaves it alone.                                                     *)
THEOREM PoolRefines == Spec => ImplementsJobPool
<1>1. ASSUME Init PROVE Closed /\ Pool!Init
  <2>1. Closed
    BY <1>1 DEF Init, PoolInit, Closed, Raising
  <2>2. JobStates = [j \in Jobs |-> "new"]
    BY <1>1 DEF Init, PoolInit, JobStates, JobState
  <2>3. IndInv
    BY <1>1, InitInv DEF Init
  <2>4. mpc # "down" /\ queueAvail = QueueSize /\ QueueSize \in Nat
    BY <1>1, QueueSizeAssumption DEF Init, PoolInit
  <2>5. Entries \in Seq(Jobs \cup {NoJob}) /\ Len(Entries) = QueueSize - queueAvail
    BY <2>3, <2>4, EntriesAre DEF IndInv, TypeOK
  <2>6. Len(Entries) = 0
    BY <2>4, <2>5
  <2>7. Entries = <<>>
    BY <2>5, <2>6
  <2> QED BY <2>1, <2>2, <2>7 DEF Pool!Init
<1>2. IndInv /\ Closed /\ [Next]_vars => Closed'
  BY ClosedStep
<1>3. IndInv /\ Closed /\ [Next]_vars => [Pool!Next]_<<JobStates, Entries>>
  BY PoolStep
<1> QED BY <1>1, <1>2, <1>3, Invariance, PTL DEF Spec, ImplementsJobPool, Pool!Spec
=============================================================================
