--------------------------- MODULE PidFileProofs ---------------------------
(***************************************************************************)
(* Proofs about PidFile, for any number of instances: whoever runs holds   *)
(* its lock, and instances that start and stop one after the other are     *)
(* never two at a time, leave the right pidfile and are turned away only   *)
(* by a daemon that runs.                                                  *)
(***************************************************************************)
EXTENDS PidFile, FiniteSetTheorems, TLAPS

(* A child exists only once its parent has left it the file.               *)
Phases ==
    \A i \in Instances :
        /\ pc[i].S # "unborn" => pc[i].L \in {"leave", "over"}
        /\ pc[i].D # "unborn" => pc[i].S \in {"leave", "over"}
        /\ pc[i].L \notin {"start", "openw"} => pf[i] # None

(* A lock belongs to a process that has the file open and has not come to  *)
(* the call that ends the lock.                                            *)
Writer(f, i, p) == wlock[f] = <<i, p>>
Reader(f, i, p) == <<i, p>> \in rlock[f]
WriteHolders ==
    \A f, i \in Instances :
        /\ Writer(f, i, "L") => pf[i] = f /\ pc[i].L \in {"fork", "leave"}
        /\ Writer(f, i, "S") => pf[i] = f /\ pc[i].S \in {"fork", "leave"}
        /\ Writer(f, i, "D") => pf[i] = f /\ pc[i].D \in {"run", "close"}
ReadHolders ==
    \A f, i \in Instances :
        /\ Reader(f, i, "L") => pf[i] = f /\ pc[i].L \in {"unlink", "close"}
        /\ ~Reader(f, i, "S")
        /\ ~Reader(f, i, "D")

RunLocks ==
    \A f, i \in Instances : pc[i].D = "run" /\ pf[i] = f => Writer(f, i, "D")

(* Without overlap only one instance at a time starts or stops, and beside *)
(* a daemon that runs it gets no further than to look at its lock.         *)
Alone ==
    /\ \A i, k \in Instances : i # k => Settled(i) \/ Settled(k)
    /\ \A i, k \in Instances : i # k /\ pc[i].D = "run" =>
          pc[k].D # "run" /\ (Settled(k) \/ pc[k].L = "getlk")
    /\ \A i \in Instances :
          pc[i].D \in {"close", "unlink"} => pc[i].L = "over" /\ pc[i].S = "over"

(* An instance that is going to use the name of the pidfile finds the file *)
(* it has opened there.                                                    *)
Active(i) ==
    \/ pc[i].L \in {"getlk", "rdlck", "unlink", "wrlck", "fork", "leave"}
    \/ pc[i].S \in {"wrlck", "fork", "leave"}
    \/ pc[i].D \in {"wrlck", "run", "close"}
PathMine == \A i \in Instances : Active(i) => path = pf[i]

(* The daemon's pid is in its file once the session leader is gone.        *)
Named ==
    \A i \in Instances :
        pc[i].S = "over" /\ pc[i].D \in {"wrlck", "run"} => content[pf[i]] = i

(* The inductive invariant.                                                *)
Locking == TypeOK /\ Phases /\ WriteHolders /\ ReadHolders /\ RunLocks
Orderly == apart => Alone /\ PathMine /\ Named
IndInv == Locking /\ Orderly

-----------------------------------------------------------------------------
(* What a step does to the processes and the locks.                        *)

Labels ==
    [L : {"start", "getlk", "rdlck", "unlink", "close", "openw", "wrlck",
          "fork", "leave", "over", "failed"},
     S : {"unborn", "wrlck", "fork", "leave", "over", "failed"},
     D : {"unborn", "wrlck", "run", "close", "unlink", "over"}]

(* The processes of i go to these calls, no other moves.                   *)
Moved(i, l, s, d) ==
    \A k \in Instances :
        /\ pc'[k].L = IF k = i THEN l ELSE pc[k].L
        /\ pc'[k].S = IF k = i THEN s ELSE pc[k].S
        /\ pc'[k].D = IF k = i THEN d ELSE pc[k].D

(* Goto moves one process and keeps the type of pc.                        *)
LEMMA GotoMoves ==
    ASSUME TypeOK, NEW i \in Instances, NEW next
    PROVE  /\ Goto(i, "L", next) => Moved(i, next, pc[i].S, pc[i].D)
           /\ Goto(i, "S", next) => Moved(i, pc[i].L, next, pc[i].D)
           /\ Goto(i, "D", next) => Moved(i, pc[i].L, pc[i].S, next)
<1>1. Goto(i, "L", next) => Moved(i, next, pc[i].S, pc[i].D)
  BY DEF Goto, TypeOK, Moved
<1>2. Goto(i, "S", next) => Moved(i, pc[i].L, next, pc[i].D)
  BY DEF Goto, TypeOK, Moved
<1>3. Goto(i, "D", next) => Moved(i, pc[i].L, pc[i].S, next)
  BY DEF Goto, TypeOK, Moved
<1> QED BY <1>1, <1>2, <1>3

LEMMA GotoTyped ==
    ASSUME TypeOK, NEW i \in Instances, NEW next,
           \/ /\ Goto(i, "L", next)
              /\ next \in {"getlk", "rdlck", "unlink", "close", "openw", "wrlck",
                           "fork", "leave", "over", "failed"}
           \/ /\ Goto(i, "S", next)
              /\ next \in {"wrlck", "fork", "leave", "over", "failed"}
           \/ /\ Goto(i, "D", next)
              /\ next \in {"wrlck", "run", "close", "unlink", "over"}
    PROVE  pc' \in [Instances -> Labels]
BY DEF Goto, TypeOK, Labels

LEMMA Forked ==
    ASSUME TypeOK, NEW i \in Instances
    PROVE  /\ pc' = [pc EXCEPT ![i].L = "leave", ![i].S = "wrlck"]
                => pc' \in [Instances -> Labels] /\ Moved(i, "leave", "wrlck", pc[i].D)
           /\ pc' = [pc EXCEPT ![i].S = "leave", ![i].D = "wrlck"]
                => pc' \in [Instances -> Labels] /\ Moved(i, pc[i].L, "leave", "wrlck")
<1>1. ASSUME pc' = [pc EXCEPT ![i].L = "leave", ![i].S = "wrlck"]
      PROVE  pc' \in [Instances -> Labels] /\ Moved(i, "leave", "wrlck", pc[i].D)
  BY <1>1 DEF TypeOK, Labels, Moved
<1>2. ASSUME pc' = [pc EXCEPT ![i].S = "leave", ![i].D = "wrlck"]
      PROVE  pc' \in [Instances -> Labels] /\ Moved(i, pc[i].L, "leave", "wrlck")
  BY <1>2 DEF TypeOK, Labels, Moved
<1> QED BY <1>1, <1>2

(* Only the locks of the process that lets go of the file go.              *)
LEMMA Released ==
    ASSUME TypeOK, NEW f \in Instances, NEW me, Release(f, me)
    PROVE  /\ rlock' \in [Instances -> SUBSET Processes]
           /\ wlock' \in [Instances -> Processes \cup {NoProc}]
           /\ \A g \in Instances : \A q \in rlock'[g] :
                 q \in rlock[g] /\ (g = f => q # me)
           /\ \A g \in Instances : wlock'[g] \in {wlock[g], NoProc}
           /\ me # NoProc => wlock'[f] # me
           /\ \A g \in Instances : wlock[g] # me => wlock'[g] = wlock[g]
<1>1. rlock' \in [Instances -> SUBSET Processes]
  BY DEF Release, TypeOK
<1>2. wlock' \in [Instances -> Processes \cup {NoProc}]
  BY DEF Release, TypeOK
<1>3. \A g \in Instances : \A q \in rlock'[g] : q \in rlock[g] /\ (g = f => q # me)
  BY DEF Release, TypeOK
<1>4. \A g \in Instances : wlock'[g] \in {wlock[g], NoProc}
  BY DEF Release, TypeOK
<1>5. me # NoProc => wlock'[f] # me
  BY DEF Release, TypeOK
<1>6. \A g \in Instances : wlock[g] # me => wlock'[g] = wlock[g]
  BY DEF Release, TypeOK
<1> QED BY <1>1, <1>2, <1>3, <1>4, <1>5, <1>6

(* No process is the one that stands for none.                             *)
LEMMA NoProcFree ==
    ASSUME NEW q \in Processes
    PROVE  q # NoProc
BY NoneAssumption DEF Processes, Procs, NoProc

(* p of instance i loses its locks, every other process keeps its own.     *)
LosesLocks(i, p) ==
    \A f, k \in Instances : \A r \in Procs :
        /\ Writer(f, k, r)' => Writer(f, k, r) /\ ~(k = i /\ r = p)
        /\ Writer(f, k, r) => Writer(f, k, r)' \/ (k = i /\ r = p)
        /\ Reader(f, k, r)' => Reader(f, k, r) /\ ~(k = i /\ r = p)

(* A process has locks on the file it has open only.                       *)
LEMMA ReleaseLoses ==
    ASSUME Locking, NEW i \in Instances, NEW p \in Procs, pf[i] \in Instances,
           Release(pf[i], <<i, p>>)
    PROVE  LosesLocks(i, p)
<1> DEFINE me == <<i, p>>
<1>1. me \in Processes /\ me # NoProc
  BY NoProcFree DEF Processes
<1>2. \A f \in Instances : /\ Writer(f, i, p) => f = pf[i]
                           /\ Reader(f, i, p) => f = pf[i]
  BY DEF Locking, WriteHolders, ReadHolders, Procs
<1> SUFFICES ASSUME NEW f \in Instances, NEW k \in Instances, NEW r \in Procs
             PROVE  /\ Writer(f, k, r)' => Writer(f, k, r) /\ ~(k = i /\ r = p)
                    /\ Writer(f, k, r) => Writer(f, k, r)' \/ (k = i /\ r = p)
                    /\ Reader(f, k, r)' => Reader(f, k, r) /\ ~(k = i /\ r = p)
  BY DEF LosesLocks
<1> DEFINE q == <<k, r>>
<1>3. q \in Processes /\ q # NoProc /\ (q = me <=> k = i /\ r = p)
  BY NoProcFree DEF Processes
<1>4. TypeOK /\ Release(pf[i], me)
  BY DEF Locking
<1>5. /\ wlock[f] = me => f = pf[i]
      /\ me \in rlock[f] => f = pf[i]
  BY <1>2 DEF Writer, Reader
<1>6. /\ wlock'[f] = q => wlock[f] = q /\ q # me
      /\ wlock[f] = q => wlock'[f] = q \/ q = me
      /\ q \in rlock'[f] => q \in rlock[f] /\ q # me
  <2> HIDE DEF q, me
  <2> QED BY <1>1, <1>3, <1>4, <1>5, Released
<1> QED BY <1>3, <1>6 DEF Writer, Reader

SameLocks ==
    \A f, k \in Instances : \A r \in Procs :
        /\ Writer(f, k, r)' <=> Writer(f, k, r)
        /\ Reader(f, k, r)' <=> Reader(f, k, r)

LEMMA LocksSame ==
    ASSUME UNCHANGED locks
    PROVE  SameLocks
BY DEF locks, SameLocks, Writer, Reader

(* p of instance i gets the write lock nobody else has.                    *)
TakesLock(i, p) ==
    \A f, k \in Instances : \A r \in Procs :
        /\ Writer(f, k, r)' => Writer(f, k, r) \/ (f = pf[i] /\ k = i /\ r = p)
        /\ Writer(f, k, r) => Writer(f, k, r)'
        /\ f = pf[i] /\ k = i /\ r = p => Writer(f, k, r)'
        /\ Reader(f, k, r)' <=> Reader(f, k, r)

LEMMA LockTaken ==
    ASSUME TypeOK, NEW i \in Instances, NEW p \in Procs, pf[i] \in Instances,
           ~WriteLocked(pf[i], <<i, p>>), UNCHANGED rlock,
           wlock' = [wlock EXCEPT ![pf[i]] = <<i, p>>]
    PROVE  TakesLock(i, p) /\ wlock' \in [Instances -> Processes \cup {NoProc}]
<1> DEFINE me == <<i, p>>
<1>1. me \in Processes /\ me # NoProc
  BY NoProcFree DEF Processes
<1>2. wlock' \in [Instances -> Processes \cup {NoProc}]
  <2>1. wlock' = [wlock EXCEPT ![pf[i]] = me]
    OBVIOUS
  <2> HIDE DEF me
  <2> QED BY <1>1, <2>1 DEF TypeOK
<1>3. SUFFICES ASSUME NEW f \in Instances, NEW k \in Instances, NEW r \in Procs
      PROVE  /\ Writer(f, k, r)' => Writer(f, k, r) \/ (f = pf[i] /\ k = i /\ r = p)
             /\ Writer(f, k, r) => Writer(f, k, r)'
             /\ f = pf[i] /\ k = i /\ r = p => Writer(f, k, r)'
             /\ Reader(f, k, r)' <=> Reader(f, k, r)
  BY <1>2 DEF TakesLock
<1> DEFINE q == <<k, r>>
<1>4. q \in Processes /\ q # NoProc /\ (q = me <=> k = i /\ r = p)
  BY NoProcFree DEF Processes
<1>5. /\ wlock'[f] = q => wlock[f] = q \/ (f = pf[i] /\ q = me)
      /\ wlock[f] = q => wlock'[f] = q
      /\ f = pf[i] /\ q = me => wlock'[f] = q
  <2>1. wlock[pf[i]] \in {NoProc, me}
    BY DEF WriteLocked
  <2> HIDE DEF q, me
  <2>2. wlock'[f] = IF f = pf[i] THEN me ELSE wlock[f]
    BY DEF TypeOK, me
  <2> QED BY <1>1, <1>4, <2>1, <2>2
<1> QED BY <1>4, <1>5 DEF Writer, Reader

(* The launching process of i gets a read lock.                            *)
ReadTaken(i) ==
    \A f, k \in Instances : \A r \in Procs :
        /\ Writer(f, k, r)' <=> Writer(f, k, r)
        /\ Reader(f, k, r)' => Reader(f, k, r) \/ (f = pf[i] /\ k = i /\ r = "L")

LEMMA ReadLockTaken ==
    ASSUME TypeOK, NEW i \in Instances, pf[i] \in Instances, UNCHANGED wlock,
           rlock' = [rlock EXCEPT ![pf[i]] = @ \cup {<<i, "L">>}]
    PROVE  ReadTaken(i) /\ rlock' \in [Instances -> SUBSET Processes]
<1>1. ReadTaken(i)
  BY DEF ReadTaken, Writer, Reader, TypeOK
<1>2. rlock' \in [Instances -> SUBSET Processes]
  BY DEF TypeOK, Processes, Procs
<1> QED BY <1>1, <1>2

(* A process that has the write lock keeps every other from it.            *)
LEMMA WriterLocks ==
    ASSUME NEW f \in Instances, NEW k \in Instances, NEW r \in Procs,
           NEW i \in Instances, NEW p \in Procs, k # i \/ r # p,
           Writer(f, k, r)
    PROVE  WriteLocked(f, <<i, p>>)
<1>1. <<k, r>> \in Processes /\ <<k, r>> # NoProc /\ <<k, r>> # <<i, p>>
  BY NoProcFree DEF Processes
<1> QED BY <1>1 DEF Writer, WriteLocked

-----------------------------------------------------------------------------
(* Every action preserves the inductive invariant.                         *)

(* openpidfile.                                                            *)
LEMMA OpenReadPreserves ==
    ASSUME IndInv, NEW i \in Instances, OpenRead(i),
           apart' \in BOOLEAN, apart' => apart /\ AllSettled
    PROVE  IndInv'
<1> USE DEF IndInv, Locking
<1>1. \A k \in Instances : pf'[k] = IF k = i THEN path ELSE pf[k]
  BY DEF OpenRead, TypeOK
<1>2. /\ Moved(i, IF path = None THEN "openw" ELSE "getlk", pc[i].S, pc[i].D)
      /\ pc' \in [Instances -> Labels]
  BY GotoMoves, GotoTyped DEF OpenRead
<1>3. SameLocks
  BY LocksSame DEF OpenRead
<1>4. TypeOK'
  BY <1>2 DEF OpenRead, files, locks, TypeOK, Labels
<1>5. Phases'
  BY <1>1, <1>2 DEF OpenRead, files, Phases, Moved
<1>6. WriteHolders'
  BY <1>2, <1>3 DEF OpenRead, files, WriteHolders, Moved, Phases, SameLocks,
     Procs
<1>7. ReadHolders'
  BY <1>2, <1>3 DEF OpenRead, files, ReadHolders, Moved, SameLocks, Procs
<1>8. RunLocks'
  BY <1>2, <1>3 DEF OpenRead, files, RunLocks, Moved, Phases, SameLocks, Procs
<1>9. \A k \in Instances : apart /\ pc[k].D = "run" => path # None
  BY DEF Orderly, PathMine, Active, Phases
<1>10. apart' => Alone'
  BY <1>2, <1>9 DEF Orderly, Alone, Settled, Moved, AllSettled
<1>11. apart' => PathMine'
  BY <1>1, <1>2 DEF OpenRead, files, Orderly, PathMine, Active, Moved
<1>12. apart' => Named'
  BY <1>2 DEF OpenRead, files, Orderly, Named, Moved, Phases
<1> QED BY <1>4, <1>5, <1>6, <1>7, <1>8, <1>10, <1>11, <1>12 DEF Orderly

LEMMA GetLockPreserves ==
    ASSUME IndInv, NEW i \in Instances, GetLock(i),
           apart' \in BOOLEAN, apart' => apart
    PROVE  IndInv'
<1> USE DEF IndInv, Locking
<1>1. pf[i] \in Instances
  BY DEF GetLock, Phases, TypeOK
<1>2. /\ Moved(i, IF WriteLocked(pf[i], <<i, "L">>) THEN "failed" ELSE "rdlck",
               pc[i].S, pc[i].D)
      /\ pc' \in [Instances -> Labels]
  BY GotoMoves, GotoTyped DEF GetLock
<1>3. SameLocks
  BY LocksSame DEF GetLock
<1>4. TypeOK'
  BY <1>2 DEF GetLock, files, locks, TypeOK, Labels
<1>5. Phases'
  BY <1>2 DEF GetLock, files, Phases, Moved
<1>6. WriteHolders'
  BY <1>2, <1>3 DEF GetLock, files, WriteHolders, Moved, SameLocks, Procs
<1>7. ReadHolders'
  BY <1>2, <1>3 DEF GetLock, files, ReadHolders, Moved, SameLocks, Procs
<1>8. RunLocks'
  BY <1>2, <1>3 DEF GetLock, files, RunLocks, Moved, SameLocks, Procs
<1>9. \A k \in Instances : apart /\ k # i /\ pc[k].D = "run"
         => WriteLocked(pf[i], <<i, "L">>)
  BY <1>1, WriterLocks DEF GetLock, Orderly, PathMine, Active, RunLocks, Procs
<1>10. apart' => Alone'
  BY <1>2, <1>9 DEF GetLock, Orderly, Alone, Settled, Moved, Phases
<1>11. apart' => PathMine'
  BY <1>2 DEF GetLock, files, Orderly, PathMine, Active, Moved
<1>12. apart' => Named'
  BY <1>2 DEF GetLock, files, Orderly, Named, Moved
<1> QED BY <1>4, <1>5, <1>6, <1>7, <1>8, <1>10, <1>11, <1>12 DEF Orderly

LEMMA ReadLockPreserves ==
    ASSUME IndInv, NEW i \in Instances, ReadLock(i),
           apart' \in BOOLEAN, apart' => apart
    PROVE  IndInv'
<1> USE DEF IndInv, Locking
<1>1. pf[i] \in Instances
  BY DEF ReadLock, Phases, TypeOK
<1>2. CASE WriteLocked(pf[i], <<i, "L">>)
  <2>1. Moved(i, "failed", pc[i].S, pc[i].D) /\ pc' \in [Instances -> Labels]
    BY <1>2, GotoMoves, GotoTyped DEF ReadLock
  <2>2. SameLocks
    BY <1>2, LocksSame DEF ReadLock, locks
  <2>3. TypeOK'
    BY <1>2, <2>1 DEF ReadLock, files, locks, TypeOK, Labels
  <2>4. Phases'
    BY <2>1 DEF ReadLock, files, Phases, Moved
  <2>5. WriteHolders'
    BY <2>1, <2>2 DEF ReadLock, files, WriteHolders, Moved, SameLocks, Procs
  <2>6. ReadHolders'
    BY <2>1, <2>2 DEF ReadLock, files, ReadHolders, Moved, SameLocks, Procs
  <2>7. RunLocks'
    BY <2>1, <2>2 DEF ReadLock, files, RunLocks, Moved, SameLocks, Procs
  <2>8. apart' => Alone'
    BY <2>1 DEF ReadLock, Orderly, Alone, Settled, Moved
  <2>9. apart' => PathMine'
    BY <2>1 DEF ReadLock, Orderly, PathMine, Active, Alone, Settled, Moved,
       Phases
  <2>10. apart' => Named'
    BY <2>1 DEF ReadLock, Orderly, Named, Alone, Settled, Moved, Phases
  <2> QED BY <2>3, <2>4, <2>5, <2>6, <2>7, <2>8, <2>9, <2>10 DEF Orderly
<1>3. CASE ~WriteLocked(pf[i], <<i, "L">>)
  <2>1. Moved(i, "unlink", pc[i].S, pc[i].D) /\ pc' \in [Instances -> Labels]
    BY <1>3, GotoMoves, GotoTyped DEF ReadLock
  <2>2. ReadTaken(i)
    BY <1>3, <1>1, ReadLockTaken DEF ReadLock
  <2>3. TypeOK'
    BY <1>1, <2>1, ReadLockTaken DEF ReadLock, files, locks, TypeOK, Labels
  <2>4. Phases'
    BY <2>1 DEF ReadLock, files, Phases, Moved
  <2>5. WriteHolders'
    BY <2>1, <2>2 DEF ReadLock, files, WriteHolders, Moved, ReadTaken, Procs
  <2>6. ReadHolders'
    BY <2>1, <2>2 DEF ReadLock, files, ReadHolders, Moved, ReadTaken, Procs
  <2>7. RunLocks'
    BY <2>1, <2>2 DEF ReadLock, files, RunLocks, Moved, ReadTaken, Procs
  <2>8. apart' => Alone'
    BY <2>1 DEF ReadLock, Orderly, Alone, Settled, Moved
  <2>9. apart' => PathMine'
    BY <2>1 DEF ReadLock, files, Orderly, PathMine, Active, Moved
  <2>10. apart' => Named'
    BY <2>1 DEF ReadLock, Orderly, Named, Alone, Settled, Moved, Phases
  <2> QED BY <2>3, <2>4, <2>5, <2>6, <2>7, <2>8, <2>9, <2>10 DEF Orderly
<1> QED BY <1>2, <1>3 DEF ReadLock

LEMMA UnlinkPreserves ==
    ASSUME IndInv, NEW i \in Instances, Unlink(i),
           apart' \in BOOLEAN, apart' => apart
    PROVE  IndInv'
<1> USE DEF IndInv, Locking
<1>1. pf[i] \in Instances
  BY DEF Unlink, Phases, TypeOK
<1>2. CASE path = None
  <2>1. Moved(i, "failed", pc[i].S, pc[i].D) /\ pc' \in [Instances -> Labels]
    BY <1>2, GotoMoves, GotoTyped DEF Unlink
  <2>2. LosesLocks(i, "L")
    BY <1>2, <1>1, ReleaseLoses DEF Unlink, Procs
  <2>3. TypeOK'
    BY <1>2, <1>1, <2>1, Released DEF Unlink, TypeOK, Labels
  <2>4. Phases'
    BY <2>1 DEF Unlink, files, Phases, Moved
  <2>5. WriteHolders'
    BY <2>1, <2>2 DEF Unlink, files, WriteHolders, Moved, LosesLocks, Procs
  <2>6. ReadHolders'
    BY <2>1, <2>2 DEF Unlink, files, ReadHolders, Moved, LosesLocks, Procs
  <2>7. RunLocks'
    BY <2>1, <2>2 DEF Unlink, files, RunLocks, Moved, LosesLocks, Procs
  <2>8. apart' => Alone'
    BY <2>1 DEF Unlink, files, Orderly, Alone, Settled, Moved
  <2>9. apart' => PathMine'
    BY <2>1 DEF Unlink, files, Orderly, PathMine, Active, Alone, Settled,
       Moved, Phases
  <2>10. apart' => Named'
    BY <2>1 DEF Unlink, files, Orderly, Named, Moved
  <2> QED BY <2>3, <2>4, <2>5, <2>6, <2>7, <2>8, <2>9, <2>10 DEF Orderly
<1>3. CASE path # None
  <2>1. Moved(i, "close", pc[i].S, pc[i].D) /\ pc' \in [Instances -> Labels]
    BY <1>3, GotoMoves, GotoTyped DEF Unlink
  <2>2. SameLocks
    BY <1>3, LocksSame DEF Unlink
  <2>3. TypeOK'
    BY <1>3, <2>1 DEF Unlink, files, locks, TypeOK, Labels
  <2>4. Phases'
    BY <2>1 DEF Unlink, files, Phases, Moved
  <2>5. WriteHolders'
    BY <2>1, <2>2 DEF Unlink, files, WriteHolders, Moved, SameLocks, Procs
  <2>6. ReadHolders'
    BY <2>1, <2>2 DEF Unlink, files, ReadHolders, Moved, SameLocks, Procs
  <2>7. RunLocks'
    BY <2>1, <2>2 DEF Unlink, files, RunLocks, Moved, SameLocks, Procs
  <2>8. apart' => Alone'
    BY <2>1 DEF Unlink, files, Orderly, Alone, Settled, Moved
  <2>9. apart' => PathMine'
    BY <2>1 DEF Unlink, files, Orderly, PathMine, Active, Alone, Settled,
       Moved, Phases
  <2>10. apart' => Named'
    BY <2>1 DEF Unlink, files, Orderly, Named, Moved
  <2> QED BY <2>3, <2>4, <2>5, <2>6, <2>7, <2>8, <2>9, <2>10 DEF Orderly
<1> QED BY <1>2, <1>3 DEF Unlink

LEMMA CloseStalePreserves ==
    ASSUME IndInv, NEW i \in Instances, CloseStale(i),
           apart' \in BOOLEAN, apart' => apart
    PROVE  IndInv'
<1> USE DEF IndInv, Locking
<1>1. pf[i] \in Instances
  BY DEF CloseStale, Phases, TypeOK
<1>2. Moved(i, "openw", pc[i].S, pc[i].D) /\ pc' \in [Instances -> Labels]
  BY GotoMoves, GotoTyped DEF CloseStale
<1>3. LosesLocks(i, "L")
  BY <1>1, ReleaseLoses DEF CloseStale, Procs
<1>4. TypeOK'
  BY <1>1, <1>2, Released DEF CloseStale, files, locks, TypeOK, Labels
<1>5. Phases'
  BY <1>2 DEF CloseStale, files, Phases, Moved
<1>6. WriteHolders'
  BY <1>2, <1>3 DEF CloseStale, files, WriteHolders, Moved, LosesLocks, Procs
<1>7. ReadHolders'
  BY <1>2, <1>3 DEF CloseStale, files, ReadHolders, Moved, LosesLocks, Procs
<1>8. RunLocks'
  BY <1>2, <1>3 DEF CloseStale, files, RunLocks, Moved, LosesLocks, Procs
<1>9. apart' => Alone'
  BY <1>2 DEF CloseStale, Orderly, Alone, Settled, Moved
<1>10. apart' => PathMine'
  BY <1>2 DEF CloseStale, Orderly, PathMine, Active, Alone, Settled, Moved,
     Phases
<1>11. apart' => Named'
  BY <1>2 DEF CloseStale, Orderly, Named, Alone, Settled, Moved, Phases
<1> QED BY <1>4, <1>5, <1>6, <1>7, <1>8, <1>9, <1>10, <1>11 DEF Orderly

LEMMA OpenWritePreserves ==
    ASSUME IndInv, NEW i \in Instances, OpenWrite(i),
           apart' \in BOOLEAN, apart' => apart
    PROVE  IndInv'
<1> USE DEF IndInv, Locking
<1>1. /\ path' \in Instances
      /\ \A k \in Instances : pf'[k] = IF k = i THEN path' ELSE pf[k]
  BY DEF OpenWrite, TypeOK
<1>2. Moved(i, "wrlck", pc[i].S, pc[i].D) /\ pc' \in [Instances -> Labels]
  BY GotoMoves, GotoTyped DEF OpenWrite
<1>3. SameLocks
  BY LocksSame DEF OpenWrite
<1>4. TypeOK'
  BY <1>2 DEF OpenWrite, files, locks, TypeOK, Labels
<1>5. Phases'
  BY <1>1, NoneAssumption, <1>2 DEF OpenWrite, files, Phases, Moved
<1>6. WriteHolders'
  BY <1>2, <1>3 DEF OpenWrite, files, WriteHolders, Moved, Phases, SameLocks,
     Procs
<1>7. ReadHolders'
  BY <1>2, <1>3 DEF OpenWrite, files, ReadHolders, Moved, SameLocks, Procs
<1>8. RunLocks'
  BY <1>2, <1>3 DEF OpenWrite, files, RunLocks, Moved, Phases, SameLocks, Procs
<1>9. apart' => Alone'
  BY <1>2 DEF OpenWrite, files, Orderly, Alone, Settled, Moved
<1>10. apart' => PathMine'
  BY <1>1, <1>2 DEF OpenWrite, files, Orderly, PathMine, Active, Alone,
     Settled, Moved
<1>11. apart' => Named'
  BY <1>2 DEF OpenWrite, Orderly, Named, Alone, Settled, Moved, Phases
<1> QED BY <1>4, <1>5, <1>6, <1>7, <1>8, <1>9, <1>10, <1>11 DEF Orderly

LEMMA WriteLockPreserves ==
    ASSUME IndInv, NEW i \in Instances, WriteLock(i),
           apart' \in BOOLEAN, apart' => apart
    PROVE  IndInv'
<1> USE DEF IndInv, Locking
<1>1. pf[i] \in Instances
  BY DEF WriteLock, Phases, TypeOK
<1>2. CASE Locked(pf[i], <<i, "L">>)
  <2>1. Moved(i, "failed", pc[i].S, pc[i].D) /\ pc' \in [Instances -> Labels]
    BY <1>2, GotoMoves, GotoTyped DEF WriteLock
  <2>2. SameLocks
    BY <1>2, LocksSame DEF WriteLock, locks
  <2>3. TypeOK'
    BY <1>2, <2>1 DEF WriteLock, files, locks, TypeOK, Labels
  <2>4. Phases'
    BY <2>1 DEF WriteLock, files, Phases, Moved
  <2>5. WriteHolders'
    BY <2>1, <2>2 DEF WriteLock, files, WriteHolders, Moved, SameLocks, Procs
  <2>6. ReadHolders'
    BY <2>1, <2>2 DEF WriteLock, files, ReadHolders, Moved, SameLocks, Procs
  <2>7. RunLocks'
    BY <2>1, <2>2 DEF WriteLock, files, RunLocks, Moved, SameLocks, Procs
  <2>8. apart' => Alone'
    BY <2>1 DEF WriteLock, Orderly, Alone, Settled, Moved
  <2>9. apart' => PathMine'
    BY <2>1 DEF WriteLock, Orderly, PathMine, Active, Alone, Settled, Moved,
       Phases
  <2>10. apart' => Named'
    BY <2>1 DEF WriteLock, Orderly, Named, Alone, Settled, Moved, Phases
  <2> QED BY <2>3, <2>4, <2>5, <2>6, <2>7, <2>8, <2>9, <2>10 DEF Orderly
<1>3. CASE ~Locked(pf[i], <<i, "L">>)
  <2>1. Moved(i, "fork", pc[i].S, pc[i].D) /\ pc' \in [Instances -> Labels]
    BY <1>3, GotoMoves, GotoTyped DEF WriteLock
  <2>2. TakesLock(i, "L")
    BY <1>3, <1>1, LockTaken DEF WriteLock, Locked, Procs
  <2>3. TypeOK'
    BY <1>1, <2>1, LockTaken DEF WriteLock, files, locks, TypeOK, Labels,
       Procs, Locked
  <2>4. Phases'
    BY <2>1 DEF WriteLock, files, Phases, Moved
  <2>5. WriteHolders'
    BY <2>1, <2>2 DEF WriteLock, files, WriteHolders, Moved, TakesLock, Procs
  <2>6. ReadHolders'
    BY <2>1, <2>2 DEF WriteLock, files, ReadHolders, Moved, TakesLock, Procs
  <2>7. RunLocks'
    BY <2>1, <2>2 DEF WriteLock, files, RunLocks, Moved, TakesLock, Procs
  <2>8. apart' => Alone'
    BY <2>1 DEF WriteLock, Orderly, Alone, Settled, Moved
  <2>9. apart' => PathMine'
    BY <2>1 DEF WriteLock, files, Orderly, PathMine, Active, Moved
  <2>10. apart' => Named'
    BY <2>1 DEF WriteLock, Orderly, Named, Alone, Settled, Moved, Phases
  <2> QED BY <2>3, <2>4, <2>5, <2>6, <2>7, <2>8, <2>9, <2>10 DEF Orderly
<1> QED BY <1>2, <1>3 DEF WriteLock

(* daemon_run.                                                             *)
LEMMA LaunchForkPreserves ==
    ASSUME IndInv, NEW i \in Instances, Fork(i, "L", "S"),
           apart' \in BOOLEAN, apart' => apart
    PROVE  IndInv'
<1> USE DEF IndInv, Locking
<1>1. pf[i] \in Instances
  BY DEF Fork, Phases, TypeOK
<1>2. CASE UNCHANGED locks /\ pc' = [pc EXCEPT ![i].L = "leave", ![i].S = "wrlck"]
  <2>1. Moved(i, "leave", "wrlck", pc[i].D) /\ pc' \in [Instances -> Labels]
    BY <1>2, Forked
  <2>2. SameLocks
    BY <1>2, LocksSame
  <2>3. TypeOK'
    BY <1>2 DEF Fork, files, locks, TypeOK
  <2>4. Phases'
    BY <2>1 DEF Fork, files, Phases, Moved
  <2>5. WriteHolders'
    BY <2>1, <2>2 DEF Fork, files, WriteHolders, Moved, Phases, SameLocks, Procs
  <2>6. ReadHolders'
    BY <2>1, <2>2 DEF Fork, files, ReadHolders, Moved, SameLocks, Procs
  <2>7. RunLocks'
    BY <2>1, <2>2 DEF Fork, files, RunLocks, Moved, SameLocks, Procs
  <2>8. apart' => Alone'
    BY <2>1 DEF Fork, Orderly, Alone, Settled, Moved
  <2>9. apart' => PathMine'
    BY <2>1 DEF Fork, files, Orderly, PathMine, Active, Moved
  <2>10. apart' => Named'
    BY <2>1 DEF Fork, Orderly, Named, Alone, Settled, Moved
  <2> QED BY <2>3, <2>4, <2>5, <2>6, <2>7, <2>8, <2>9, <2>10 DEF Orderly
<1>3. CASE Release(pf[i], <<i, "L">>) /\ Goto(i, "L", "failed")
  <2>1. Moved(i, "failed", pc[i].S, pc[i].D) /\ pc' \in [Instances -> Labels]
    BY <1>3, GotoMoves, GotoTyped
  <2>2. LosesLocks(i, "L")
    BY <1>3, <1>1, ReleaseLoses DEF Procs
  <2>3. TypeOK'
    BY <1>3, <1>1, <2>1, Released DEF Fork, files, TypeOK, Labels
  <2>4. Phases'
    BY <2>1 DEF Fork, files, Phases, Moved
  <2>5. WriteHolders'
    BY <2>1, <2>2 DEF Fork, files, WriteHolders, Moved, LosesLocks, Procs
  <2>6. ReadHolders'
    BY <2>1, <2>2 DEF Fork, files, ReadHolders, Moved, LosesLocks, Procs
  <2>7. RunLocks'
    BY <2>1, <2>2 DEF Fork, files, RunLocks, Moved, LosesLocks, Procs
  <2>8. apart' => Alone'
    BY <2>1 DEF Fork, Orderly, Alone, Settled, Moved
  <2>9. apart' => PathMine'
    BY <2>1 DEF Fork, Orderly, PathMine, Active, Alone, Settled, Moved, Phases
  <2>10. apart' => Named'
    BY <2>1 DEF Fork, Orderly, Named, Alone, Settled, Moved, Phases
  <2> QED BY <2>3, <2>4, <2>5, <2>6, <2>7, <2>8, <2>9, <2>10 DEF Orderly
<1> QED BY <1>2, <1>3 DEF Fork

LEMMA SessionForkPreserves ==
    ASSUME IndInv, NEW i \in Instances, Fork(i, "S", "D"),
           apart' \in BOOLEAN, apart' => apart
    PROVE  IndInv'
<1> USE DEF IndInv, Locking
<1>1. pf[i] \in Instances
  BY DEF Fork, Phases, TypeOK
<1>2. CASE UNCHANGED locks /\ pc' = [pc EXCEPT ![i].S = "leave", ![i].D = "wrlck"]
  <2>1. Moved(i, pc[i].L, "leave", "wrlck") /\ pc' \in [Instances -> Labels]
    BY <1>2, Forked
  <2>2. SameLocks
    BY <1>2, LocksSame
  <2>3. TypeOK'
    BY <1>2, <2>1 DEF Fork, files, locks, TypeOK
  <2>4. Phases'
    BY <2>1 DEF Fork, files, Phases, Moved
  <2>5. WriteHolders'
    BY <2>1, <2>2 DEF Fork, files, WriteHolders, Moved, Phases, SameLocks, Procs
  <2>6. ReadHolders'
    BY <2>1, <2>2 DEF Fork, files, ReadHolders, Moved, SameLocks, Procs
  <2>7. RunLocks'
    BY <2>1, <2>2 DEF Fork, files, RunLocks, Moved, SameLocks, Procs
  <2>8. apart' => Alone'
    BY <2>1 DEF Fork, Orderly, Alone, Settled, Moved
  <2>9. apart' => PathMine'
    BY <2>1 DEF Fork, files, Orderly, PathMine, Active, Moved
  <2>10. apart' => Named'
    BY <2>1 DEF Fork, Orderly, Named, Alone, Settled, Moved, Phases
  <2> QED BY <2>3, <2>4, <2>5, <2>6, <2>7, <2>8, <2>9, <2>10 DEF Orderly
<1>3. CASE Release(pf[i], <<i, "S">>) /\ Goto(i, "S", "failed")
  <2>1. Moved(i, pc[i].L, "failed", pc[i].D) /\ pc' \in [Instances -> Labels]
    BY <1>3, GotoMoves, GotoTyped
  <2>2. LosesLocks(i, "S")
    BY <1>3, <1>1, ReleaseLoses DEF Procs
  <2>3. TypeOK'
    BY <1>3, <1>1, <2>1, Released DEF Fork, files, TypeOK, Labels
  <2>4. Phases'
    BY <2>1 DEF Fork, files, Phases, Moved
  <2>5. WriteHolders'
    BY <2>1, <2>2 DEF Fork, files, WriteHolders, Moved, LosesLocks, Procs
  <2>6. ReadHolders'
    BY <2>1, <2>2 DEF Fork, files, ReadHolders, Moved, LosesLocks, Procs
  <2>7. RunLocks'
    BY <2>1, <2>2 DEF Fork, files, RunLocks, Moved, LosesLocks, Procs
  <2>8. apart' => Alone'
    BY <2>1 DEF Fork, Orderly, Alone, Settled, Moved
  <2>9. apart' => PathMine'
    BY <2>1 DEF Fork, files, Orderly, PathMine, Active, Moved
  <2>10. apart' => Named'
    BY <2>1 DEF Fork, Orderly, Named, Alone, Settled, Moved, Phases
  <2> QED BY <2>3, <2>4, <2>5, <2>6, <2>7, <2>8, <2>9, <2>10 DEF Orderly
<1> QED BY <1>2, <1>3 DEF Fork

LEMMA LaunchLeavePreserves ==
    ASSUME IndInv, NEW i \in Instances, LaunchLeave(i),
           apart' \in BOOLEAN, apart' => apart
    PROVE  IndInv'
<1> USE DEF IndInv, Locking
<1>1. pf[i] \in Instances
  BY DEF LaunchLeave, Phases, TypeOK
<1>2. Moved(i, "over", pc[i].S, pc[i].D) /\ pc' \in [Instances -> Labels]
  BY GotoMoves, GotoTyped DEF LaunchLeave
<1>3. LosesLocks(i, "L")
  BY <1>1, ReleaseLoses DEF LaunchLeave, Procs
<1>4. TypeOK'
  BY <1>1, <1>2, Released DEF LaunchLeave, files, locks, TypeOK, Labels
<1>5. Phases'
  BY <1>2 DEF LaunchLeave, files, Phases, Moved
<1>6. WriteHolders'
  BY <1>2, <1>3 DEF LaunchLeave, files, WriteHolders, Moved, LosesLocks, Procs
<1>7. ReadHolders'
  BY <1>2, <1>3 DEF LaunchLeave, files, ReadHolders, Moved, LosesLocks, Procs
<1>8. RunLocks'
  BY <1>2, <1>3 DEF LaunchLeave, files, RunLocks, Moved, LosesLocks, Procs
<1>9. apart' => Alone'
  BY <1>2 DEF LaunchLeave, Orderly, Alone, Settled, Moved
<1>10. apart' => PathMine'
  BY <1>2 DEF LaunchLeave, files, Orderly, PathMine, Active, Moved
<1>11. apart' => Named'
  BY <1>2 DEF LaunchLeave, files, Orderly, Named, Moved
<1> QED BY <1>4, <1>5, <1>6, <1>7, <1>8, <1>9, <1>10, <1>11 DEF Orderly

LEMMA SessionWaitPreserves ==
    ASSUME IndInv, NEW i \in Instances, waitpflock(i, "S", "fork"),
           apart' \in BOOLEAN, apart' => apart
    PROVE  IndInv'
<1> USE DEF IndInv, Locking
<1>1. pf[i] \in Instances
  BY DEF waitpflock, Phases, TypeOK
<1>2. Moved(i, pc[i].L, "fork", pc[i].D) /\ pc' \in [Instances -> Labels]
  BY GotoMoves, GotoTyped DEF waitpflock
<1>3. TakesLock(i, "S")
  BY <1>1, LockTaken DEF waitpflock, Locked, Procs
<1>4. TypeOK'
  BY <1>2, LockTaken DEF waitpflock, files, locks, TypeOK, Labels, Procs, Locked
<1>5. Phases'
  BY <1>2 DEF waitpflock, files, Phases, Moved
<1>6. WriteHolders'
  BY <1>2, <1>3 DEF waitpflock, files, WriteHolders, Moved, TakesLock, Procs
<1>7. ReadHolders'
  BY <1>2, <1>3 DEF waitpflock, files, ReadHolders, Moved, TakesLock, Procs
<1>8. RunLocks'
  BY <1>2, <1>3 DEF waitpflock, files, RunLocks, Moved, TakesLock, Procs
<1>9. apart' => Alone'
  BY <1>2 DEF waitpflock, Orderly, Alone, Settled, Moved
<1>10. apart' => PathMine'
  BY <1>2 DEF waitpflock, files, Orderly, PathMine, Active, Moved
<1>11. apart' => Named'
  BY <1>2 DEF waitpflock, Orderly, Named, Alone, Settled, Moved, Phases
<1> QED BY <1>4, <1>5, <1>6, <1>7, <1>8, <1>9, <1>10, <1>11 DEF Orderly

LEMMA SessionLeavePreserves ==
    ASSUME IndInv, NEW i \in Instances, SessionLeave(i),
           apart' \in BOOLEAN, apart' => apart
    PROVE  IndInv'
<1> USE DEF IndInv, Locking
<1>1. pf[i] \in Instances
  BY DEF SessionLeave, Phases, TypeOK
<1>2. Moved(i, pc[i].L, "over", pc[i].D) /\ pc' \in [Instances -> Labels]
  BY GotoMoves, GotoTyped DEF SessionLeave
<1>3. LosesLocks(i, "S")
  BY <1>1, ReleaseLoses DEF SessionLeave, Procs
<1>4. TypeOK'
  BY <1>1, <1>2, Released DEF SessionLeave, PidWritten, files, locks, TypeOK,
     Labels
<1>5. Phases'
  BY <1>2 DEF SessionLeave, files, Phases, Moved
<1>6. WriteHolders'
  BY <1>2, <1>3 DEF SessionLeave, files, WriteHolders, Moved, LosesLocks, Procs
<1>7. ReadHolders'
  BY <1>2, <1>3 DEF SessionLeave, files, ReadHolders, Moved, LosesLocks, Procs
<1>8. RunLocks'
  BY <1>2, <1>3 DEF SessionLeave, files, RunLocks, Moved, LosesLocks, Procs
<1>9. apart' => Alone'
  BY <1>2 DEF files, Orderly, Alone, Settled, Moved
<1>10. apart' => PathMine'
  BY <1>2 DEF SessionLeave, files, Orderly, PathMine, Active, Moved
<1>11. apart' => Named'
  BY <1>1, <1>2 DEF SessionLeave, files, PidWritten, Orderly, Named, Alone,
     Settled, Moved, Phases, TypeOK
<1> QED BY <1>4, <1>5, <1>6, <1>7, <1>8, <1>9, <1>10, <1>11 DEF Orderly

LEMMA DaemonWaitPreserves ==
    ASSUME IndInv, NEW i \in Instances, waitpflock(i, "D", "run"),
           apart' \in BOOLEAN, apart' => apart
    PROVE  IndInv'
<1> USE DEF IndInv, Locking
<1>1. pf[i] \in Instances
  BY DEF waitpflock, Phases, TypeOK
<1>2. Moved(i, pc[i].L, pc[i].S, "run") /\ pc' \in [Instances -> Labels]
  BY GotoMoves, GotoTyped DEF waitpflock
<1>3. TakesLock(i, "D")
  BY <1>1, LockTaken DEF waitpflock, Locked, Procs
<1>4. TypeOK'
  BY <1>2, LockTaken DEF waitpflock, files, locks, TypeOK, Labels, Procs, Locked
<1>5. Phases'
  BY <1>2 DEF waitpflock, files, Phases, Moved
<1>6. WriteHolders'
  BY <1>2, <1>3 DEF waitpflock, files, WriteHolders, Moved, TakesLock, Procs
<1>7. ReadHolders'
  BY <1>2, <1>3 DEF waitpflock, files, ReadHolders, Moved, TakesLock, Procs
<1>8. RunLocks'
  BY <1>2, <1>3 DEF waitpflock, files, RunLocks, Moved, TakesLock, Procs
<1>9. apart' => Alone'
  BY <1>2 DEF waitpflock, Orderly, Alone, Settled, Moved, Phases
<1>10. apart' => PathMine'
  BY <1>2 DEF waitpflock, files, Orderly, PathMine, Active, Moved
<1>11. apart' => Named'
  BY <1>2 DEF waitpflock, files, Orderly, Named, Moved
<1> QED BY <1>4, <1>5, <1>6, <1>7, <1>8, <1>9, <1>10, <1>11 DEF Orderly

LEMMA StopPreserves ==
    ASSUME IndInv, NEW i \in Instances, Stop(i),
           apart' \in BOOLEAN, apart' => apart /\ AllSettled
    PROVE  IndInv'
<1> USE DEF IndInv, Locking
<1>1. Moved(i, pc[i].L, pc[i].S, "close") /\ pc' \in [Instances -> Labels]
  BY GotoMoves, GotoTyped DEF Stop
<1>2. SameLocks
  BY LocksSame DEF Stop
<1>3. TypeOK'
  BY <1>1 DEF Stop, files, locks, TypeOK, Labels
<1>4. Phases'
  BY <1>1 DEF Stop, files, Phases, Moved
<1>5. WriteHolders'
  BY <1>1, <1>2 DEF Stop, files, WriteHolders, Moved, SameLocks, Procs
<1>6. ReadHolders'
  BY <1>1, <1>2 DEF Stop, files, ReadHolders, Moved, SameLocks, Procs
<1>7. RunLocks'
  BY <1>1, <1>2 DEF Stop, files, RunLocks, Moved, SameLocks, Procs
<1>8. apart' => Alone'
  BY <1>1 DEF Stop, Orderly, Alone, Settled, Moved, Phases, AllSettled
<1>9. apart' => PathMine'
  BY <1>1 DEF Stop, files, Orderly, PathMine, Active, Moved
<1>10. apart' => Named'
  BY <1>1 DEF Stop, Orderly, Named, Alone, Settled, Moved, Phases
<1> QED BY <1>3, <1>4, <1>5, <1>6, <1>7, <1>8, <1>9, <1>10 DEF Orderly

LEMMA DaemonClosePreserves ==
    ASSUME IndInv, NEW i \in Instances, DaemonClose(i),
           apart' \in BOOLEAN, apart' => apart
    PROVE  IndInv'
<1> USE DEF IndInv, Locking
<1>1. pf[i] \in Instances
  BY DEF DaemonClose, Phases, TypeOK
<1>2. Moved(i, pc[i].L, pc[i].S, "unlink") /\ pc' \in [Instances -> Labels]
  BY GotoMoves, GotoTyped DEF DaemonClose
<1>3. LosesLocks(i, "D")
  BY <1>1, ReleaseLoses DEF DaemonClose, Procs
<1>4. TypeOK'
  BY <1>1, <1>2, Released DEF DaemonClose, files, locks, TypeOK, Labels
<1>5. Phases'
  BY <1>2 DEF DaemonClose, files, Phases, Moved
<1>6. WriteHolders'
  BY <1>2, <1>3 DEF DaemonClose, files, WriteHolders, Moved, LosesLocks, Procs
<1>7. ReadHolders'
  BY <1>2, <1>3 DEF DaemonClose, files, ReadHolders, Moved, LosesLocks, Procs
<1>8. RunLocks'
  BY <1>2, <1>3 DEF DaemonClose, files, RunLocks, Moved, LosesLocks, Procs
<1>9. apart' => Alone'
  BY <1>2 DEF DaemonClose, Orderly, Alone, Settled, Moved
<1>10. apart' => PathMine'
  BY <1>2 DEF DaemonClose, Orderly, PathMine, Active, Alone, Settled, Moved
<1>11. apart' => Named'
  BY <1>2 DEF DaemonClose, Orderly, Named, Alone, Settled, Moved
<1> QED BY <1>4, <1>5, <1>6, <1>7, <1>8, <1>9, <1>10, <1>11 DEF Orderly

LEMMA DaemonUnlinkPreserves ==
    ASSUME IndInv, NEW i \in Instances, DaemonUnlink(i),
           apart' \in BOOLEAN, apart' => apart
    PROVE  IndInv'
<1> USE DEF IndInv, Locking
<1>1. Moved(i, pc[i].L, pc[i].S, "over") /\ pc' \in [Instances -> Labels]
  BY GotoMoves, GotoTyped DEF DaemonUnlink
<1>2. SameLocks
  BY LocksSame DEF DaemonUnlink
<1>3. TypeOK'
  BY <1>1 DEF DaemonUnlink, files, locks, TypeOK, Labels
<1>4. Phases'
  BY <1>1 DEF DaemonUnlink, files, Phases, Moved
<1>5. WriteHolders'
  BY <1>1, <1>2 DEF DaemonUnlink, files, WriteHolders, Moved, SameLocks, Procs
<1>6. ReadHolders'
  BY <1>1, <1>2 DEF DaemonUnlink, files, ReadHolders, Moved, SameLocks, Procs
<1>7. RunLocks'
  BY <1>1, <1>2 DEF DaemonUnlink, files, RunLocks, Moved, SameLocks, Procs
<1>8. apart' => Alone'
  BY <1>1 DEF files, Orderly, Alone, Settled, Moved
<1>9. apart' => PathMine'
  BY <1>1 DEF DaemonUnlink, files, Orderly, PathMine, Active, Alone, Settled,
     Moved
<1>10. apart' => Named'
  BY <1>1 DEF DaemonUnlink, files, Orderly, Named, Moved
<1> QED BY <1>3, <1>4, <1>5, <1>6, <1>7, <1>8, <1>9, <1>10 DEF Orderly

LEMMA KillPreserves ==
    ASSUME IndInv, NEW i \in Instances, Kill(i),
           apart' \in BOOLEAN, apart' => apart
    PROVE  IndInv'
<1> USE DEF IndInv, Locking
<1>1. pf[i] \in Instances
  BY DEF Kill, Phases, TypeOK
<1>2. Moved(i, pc[i].L, pc[i].S, "over") /\ pc' \in [Instances -> Labels]
  BY GotoMoves, GotoTyped DEF Kill
<1>3. LosesLocks(i, "D")
  BY <1>1, ReleaseLoses DEF Kill, Procs
<1>4. TypeOK'
  BY <1>1, <1>2, Released DEF Kill, files, locks, TypeOK, Labels
<1>5. Phases'
  BY <1>2 DEF Kill, files, Phases, Moved
<1>6. WriteHolders'
  BY <1>2, <1>3 DEF Kill, files, WriteHolders, Moved, LosesLocks, Procs
<1>7. ReadHolders'
  BY <1>2, <1>3 DEF Kill, files, ReadHolders, Moved, LosesLocks, Procs
<1>8. RunLocks'
  BY <1>2, <1>3 DEF Kill, files, RunLocks, Moved, LosesLocks, Procs
<1>9. apart' => Alone'
  BY <1>2 DEF Orderly, Alone, Settled, Moved
<1>10. apart' => PathMine'
  BY <1>2 DEF Kill, files, Orderly, PathMine, Active, Moved
<1>11. apart' => Named'
  BY <1>2 DEF Kill, Orderly, Named, Alone, Settled, Moved, Phases
<1> QED BY <1>4, <1>5, <1>6, <1>7, <1>8, <1>9, <1>10, <1>11 DEF Orderly

LEMMA InitInvariant ==
    ASSUME Init
    PROVE  IndInv
<1>1. TypeOK
  BY DEF Init, TypeOK, Processes
<1>2. Phases /\ RunLocks /\ ReadHolders
  BY DEF Init, Phases, RunLocks, ReadHolders, Reader
<1>3. WriteHolders
  <2> SUFFICES ASSUME NEW f \in Instances, NEW i \in Instances, NEW p \in Procs
               PROVE  ~Writer(f, i, p)
    BY DEF WriteHolders, Procs
  <2>1. <<i, p>> \in Processes /\ <<i, p>> # NoProc
    BY NoProcFree DEF Processes
  <2> QED BY <2>1 DEF Init, Writer
<1>4. Alone /\ PathMine /\ Named
  BY DEF Init, Alone, PathMine, Active, Named, Settled
<1> QED BY <1>1, <1>2, <1>3, <1>4 DEF IndInv, Locking, Orderly

LEMMA NextInvariant ==
    ASSUME IndInv, [Next]_vars
    PROVE  IndInv'
<1>1. ASSUME NEW i \in Instances, Step(i)
      PROVE  IndInv'
  <2>1. apart' \in BOOLEAN /\ (apart' => apart)
    BY <1>1 DEF Step, IndInv, Locking, TypeOK
  <2> QED BY <1>1, <2>1, GetLockPreserves, ReadLockPreserves, UnlinkPreserves,
             CloseStalePreserves, OpenWritePreserves, WriteLockPreserves,
             LaunchForkPreserves, LaunchLeavePreserves, SessionWaitPreserves,
             SessionForkPreserves, SessionLeavePreserves, DaemonWaitPreserves,
             DaemonClosePreserves, DaemonUnlinkPreserves DEF Step, Progress
<1>2. ASSUME NEW i \in Instances, OpenRead(i) \/ Stop(i),
             apart' = (apart /\ AllSettled)
      PROVE  IndInv'
  <2>1. apart' \in BOOLEAN /\ (apart' => apart /\ AllSettled)
    BY <1>2
  <2> QED BY <1>2, <2>1, OpenReadPreserves, StopPreserves
<1>3. ASSUME NEW i \in Instances, Kill(i), UNCHANGED apart
      PROVE  IndInv'
  <2>1. apart' \in BOOLEAN /\ (apart' => apart)
    BY <1>3 DEF IndInv, Locking, TypeOK
  <2> QED BY <1>3, <2>1, KillPreserves
<1>4. CASE UNCHANGED vars
  BY <1>4 DEF vars, files, locks, IndInv, Locking, Orderly, TypeOK, Phases,
     WriteHolders, ReadHolders, RunLocks, Writer, Reader, Alone, PathMine, Active,
     Named, Settled
<1> QED BY <1>1, <1>2, <1>3, <1>4 DEF Next

LEMMA Invariance == Spec => []IndInv
<1>1. Init => IndInv
  BY InitInvariant
<1>2. IndInv /\ [Next]_vars => IndInv'
  BY NextInvariant
<1> QED BY <1>1, <1>2, PTL DEF Spec

-----------------------------------------------------------------------------
(* However starts and stops overlap, a daemon that runs holds the write    *)
(* lock of its file, so that two never share one.                          *)
THEOREM LockHeldTheorem == Spec => []LockHeld
<1>1. IndInv => LockHeld
  <2> SUFFICES ASSUME IndInv, NEW i \in Instances, pc[i].D = "run"
               PROVE  wlock[pf[i]] = <<i, "D">>
    BY DEF LockHeld, Running, IndInv, Locking
  <2>1. pf[i] \in Instances
    BY DEF IndInv, Locking, Phases, TypeOK
  <2> QED BY <2>1 DEF IndInv, Locking, RunLocks, Writer
<1> QED BY <1>1, Invariance, PTL

(* One daemon at a time, if starts and stops do not overlap.               *)
THEOREM OneDaemonTheorem == Spec => []OneDaemon
<1>1. IndInv => OneDaemon
  <2> SUFFICES ASSUME IndInv, apart
               PROVE  Cardinality(Running) <= 1
    BY DEF OneDaemon
  <2>1. CASE Running = {}
    BY <2>1, FS_EmptySet
  <2>2. CASE Running # {}
    <3>1. PICK i : i \in Running
      BY <2>2
    <3>2. Running = {i}
      BY <3>1 DEF Running, IndInv, Orderly, Alone
    <3> QED BY <3>2, FS_Singleton
  <2> QED BY <2>1, <2>2
<1> QED BY <1>1, Invariance, PTL

(* Without overlap, when nothing starts or stops, the pidfile of a daemon  *)
(* that runs is its locked file and has its pid.                           *)
THEOREM PidfileNamesDaemonTheorem == Spec => []PidfileNamesDaemon
<1>1. IndInv => PidfileNamesDaemon
  <2> SUFFICES ASSUME IndInv, NEW i \in Instances, pc[i].D = "run", apart, AllSettled
               PROVE  path = pf[i] /\ content[path] = i
    BY DEF PidfileNamesDaemon, Running
  <2>1. pc[i].S = "over"
    BY DEF IndInv, Locking, Phases, AllSettled, Settled
  <2> QED BY <2>1 DEF IndInv, Orderly, PathMine, Active, Named
<1> QED BY <1>1, Invariance, PTL

(* Where an instance can give up in openpidfile.                           *)
LEMMA Refusals ==
    ASSUME IndInv, Next, NEW i \in Instances, Refused(i)
    PROVE  \/ GetLock(i) /\ WriteLocked(pf[i], <<i, "L">>)
           \/ ReadLock(i) /\ WriteLocked(pf[i], <<i, "L">>)
           \/ Unlink(i) /\ path = None
           \/ WriteLock(i) /\ Locked(pf[i], <<i, "L">>)
<1> USE DEF IndInv, Locking, Refused
<1>1. PICK k \in Instances :
         Progress(k) \/ OpenRead(k) \/ Stop(k) \/ Kill(k)
  BY DEF Next, Step
<1>2. ~(OpenRead(k) \/ CloseStale(k) \/ OpenWrite(k) \/ LaunchLeave(k))
  BY GotoMoves DEF OpenRead, CloseStale, OpenWrite, LaunchLeave, Moved
<1>3. ~(\/ Stop(k) \/ Kill(k) \/ DaemonClose(k) \/ DaemonUnlink(k)
        \/ SessionLeave(k) \/ waitpflock(k, "S", "fork") \/ waitpflock(k, "D", "run"))
  BY GotoMoves DEF Stop, Kill, DaemonClose, DaemonUnlink, SessionLeave,
     waitpflock, Moved
<1>4. ~Fork(k, "L", "S")
  BY GotoMoves, Forked DEF Fork, Moved
<1>5. ~Fork(k, "S", "D")
  <2>1. Fork(k, "S", "D") => \E s, d : Moved(k, pc[k].L, s, d)
    BY GotoMoves, Forked DEF Fork
  <2> QED BY <2>1 DEF Moved
<1>6. GetLock(k) => k = i /\ WriteLocked(pf[i], <<i, "L">>)
  BY GotoMoves DEF GetLock, Moved
<1>7. ReadLock(k) => k = i /\ WriteLocked(pf[i], <<i, "L">>)
  BY GotoMoves DEF ReadLock, Moved
<1>8. Unlink(k) => k = i /\ path = None
  BY GotoMoves DEF Unlink, Moved
<1>9. WriteLock(k) => k = i /\ Locked(pf[i], <<i, "L">>)
  BY GotoMoves DEF WriteLock, Moved
<1> QED BY <1>1, <1>2, <1>3, <1>4, <1>5, <1>6, <1>7, <1>8, <1>9 DEF Progress

(* Without overlap, whoever else has a lock on the file of an instance     *)
(* that is in openpidfile is a daemon that runs.                           *)
LEMMA LockedByDaemon ==
    ASSUME IndInv, apart, NEW i \in Instances,
           pc[i].L \in {"getlk", "rdlck", "wrlck"}, Locked(pf[i], <<i, "L">>)
    PROVE  Running \ {i} # {}
<1> USE DEF IndInv, Locking
<1>1. pf[i] \in Instances /\ pc[i].S = "unborn" /\ pc[i].D = "unborn"
  BY DEF Phases, TypeOK
<1>2. CASE WriteLocked(pf[i], <<i, "L">>)
  <2>1. PICK k \in Instances, r \in Procs : Writer(pf[i], k, r)
    BY <1>1, <1>2 DEF WriteLocked, TypeOK, Processes, Writer
  <2>2. k # i /\ pc[k].D = "run"
    BY <1>1, <2>1 DEF WriteHolders, Procs, Orderly, Alone, Settled
  <2> QED BY <2>2 DEF Running
<1>3. CASE rlock[pf[i]] \ {<<i, "L">>} # {}
  <2>1. PICK k \in Instances, r \in Procs : Reader(pf[i], k, r) /\ (k # i \/ r # "L")
    <3>1. PICK q \in rlock[pf[i]] : q # <<i, "L">>
      BY <1>3
    <3>2. q \in Processes
      BY <1>1 DEF TypeOK
    <3>3. PICK k \in Instances, r \in Procs : q = <<k, r>>
      BY <3>2 DEF Processes
    <3> QED BY <3>1, <3>3 DEF Reader
  <2>2. k # i /\ pc[k].L \in {"unlink", "close"}
    BY <1>1, <2>1 DEF ReadHolders, Procs
  <2> QED BY <2>2 DEF Orderly, Alone, Settled
<1> QED BY <1>2, <1>3 DEF Locked

(* Without overlap an instance is turned away only by a daemon that runs.  *)
THEOREM RefusedByDaemonTheorem == Spec => RefusedByDaemon
<1>1. ASSUME IndInv, [Next]_vars
      PROVE  [\A i \in Instances : apart /\ Refused(i) => Running \ {i} # {}]_vars
  <2> SUFFICES ASSUME Next, NEW i \in Instances, apart, Refused(i)
               PROVE  Running \ {i} # {}
    BY <1>1
  <2>1. ~(Unlink(i) /\ path = None)
    BY <1>1 DEF Unlink, IndInv, Locking, Phases, Orderly, PathMine, Active
  <2>2. pc[i].L \in {"getlk", "rdlck", "wrlck"} /\ Locked(pf[i], <<i, "L">>)
    BY <1>1, <2>1, Refusals DEF GetLock, ReadLock, WriteLock, Locked
  <2> QED BY <1>1, <2>2, LockedByDaemon
<1> QED BY <1>1, Invariance, PTL DEF Spec, RefusedByDaemon
=============================================================================
