------------------------------ MODULE PidFile ------------------------------
(***************************************************************************)
(* How a daemon takes and leaves its pidfile (daemon.c): openpidfile, the  *)
(* two forks of daemon_run and the hand-over of the lock from process to   *)
(* process, with several instances that share one pidfile name.  One       *)
(* action is one system call on the file.                                  *)
(*                                                                         *)
(* fcntl locks (external) belong to a process, are not inherited by fork   *)
(* and vanish when the process closes the file or dies.  Every instance    *)
(* creates at most one file, which is named after it.                      *)
(*                                                                         *)
(* An instance has a launching process "L", a session leader "S" and the   *)
(* daemon "D"; pc[i][p] is the next call of that process.                  *)
(***************************************************************************)
EXTENDS Integers, FiniteSets

CONSTANTS Instances, \* the times the program is started
          None       \* no file

ASSUME NoneAssumption == None \notin Instances

VARIABLES
    path,      \* the file that has the pidfile's name
    pf,        \* pf[i]: the file the instance has open
    content,   \* content[f]: the instance whose daemon's pid is in f, or None
    rlock,     \* rlock[f]: the processes with a read lock on f
    wlock,     \* wlock[f]: the process with the write lock on f, or none
    pc,        \* where the processes are
    apart      \* history: no instance started or stopped while another did

files == <<path, pf, content>>
locks == <<rlock, wlock>>
vars == <<files, locks, pc, apart>>

Procs == {"L", "S", "D"}
NoProc == <<None, "none">>
Processes == Instances \X Procs

Init ==
    /\ path = None
    /\ pf = [i \in Instances |-> None]
    /\ content = [f \in Instances |-> None]
    /\ rlock = [f \in Instances |-> {}]
    /\ wlock = [f \in Instances |-> NoProc]
    /\ pc = [i \in Instances |-> [L |-> "start", S |-> "unborn", D |-> "unborn"]]
    /\ apart = TRUE

(* Every variable has its type.                                            *)
TypeOK ==
    /\ path \in Instances \cup {None}
    /\ pf \in [Instances -> Instances \cup {None}]
    /\ content \in [Instances -> Instances \cup {None}]
    /\ rlock \in [Instances -> SUBSET Processes]
    /\ wlock \in [Instances -> Processes \cup {NoProc}]
    /\ pc \in [Instances ->
          [L : {"start", "getlk", "rdlck", "unlink", "close", "openw", "wrlck",
                "fork", "leave", "over", "failed"},
           S : {"unborn", "wrlck", "fork", "leave", "over", "failed"},
           D : {"unborn", "wrlck", "run", "close", "unlink", "over"}]]
    /\ apart \in BOOLEAN

Goto(i, p, next) == pc' = [pc EXCEPT ![i][p] = next]

(* Another process has a write lock, or any lock, on f.                    *)
WriteLocked(f, me) == wlock[f] \notin {NoProc, me}
Locked(f, me) == WriteLocked(f, me) \/ rlock[f] \ {me} # {}

(* A process closes f or ends: its locks are gone.                         *)
Release(f, me) ==
    /\ rlock' = [rlock EXCEPT ![f] = @ \ {me}]
    /\ wlock' = [wlock EXCEPT ![f] = IF @ = me THEN NoProc ELSE @]

(* The instance does not start, stop or hand over its lock just now.       *)
Settled(i) ==
    /\ pc[i].L \in {"start", "over", "failed"}
    /\ pc[i].S \in {"unborn", "over", "failed"}
    /\ pc[i].D \in {"unborn", "run", "over"}

AllSettled == \A i \in Instances : Settled(i)

-----------------------------------------------------------------------------
(* openpidfile, in the launching process.                                  *)

(* fopen(pidfile, "r").                                                    *)
OpenRead(i) ==
    /\ pc[i].L = "start"
    /\ pf' = [pf EXCEPT ![i] = path]
    /\ Goto(i, "L", IF path = None THEN "openw" ELSE "getlk")
    /\ UNCHANGED <<path, content, locks>>

(* mutant: an open pidfile is taken as it is, locked or not *)
GetLockBlind(i) ==
    /\ pc[i].L = "getlk"
    /\ Goto(i, "L", "openw")
    /\ UNCHANGED <<files, locks>>

(* mutant: any pidfile means a running daemon *)
GetLockAny(i) ==
    /\ pc[i].L = "getlk"
    /\ Goto(i, "L", "failed")
    /\ UNCHANGED <<files, locks>>

(* F_GETLK: a write lock means that another daemon runs.                   *)
GetLock(i) ==
    /\ pc[i].L = "getlk"
    /\ Goto(i, "L", IF WriteLocked(pf[i], <<i, "L">>) THEN "failed" ELSE "rdlck")
    /\ UNCHANGED <<files, locks>>

(* F_SETLK for a read lock.                                                *)
ReadLock(i) ==
    /\ pc[i].L = "rdlck"
    /\ IF WriteLocked(pf[i], <<i, "L">>)
       THEN Goto(i, "L", "failed") /\ UNCHANGED rlock
       ELSE /\ Goto(i, "L", "unlink")
            /\ rlock' = [rlock EXCEPT ![pf[i]] = @ \cup {<<i, "L">>}]
    /\ UNCHANGED <<files, wlock>>

(* unlink: the name goes, whichever file it means by now.                  *)
Unlink(i) ==
    /\ pc[i].L = "unlink"
    /\ path' = None
    /\ Goto(i, "L", IF path = None THEN "failed" ELSE "close")
    /\ IF path = None THEN Release(pf[i], <<i, "L">>) ELSE UNCHANGED locks
    /\ UNCHANGED <<pf, content>>

(* fclose of the stale pidfile.                                            *)
CloseStale(i) ==
    /\ pc[i].L = "close"
    /\ Release(pf[i], <<i, "L">>)
    /\ Goto(i, "L", "openw")
    /\ UNCHANGED files

(* fopen(pidfile, "w"): creates the file, or empties the one there is.     *)
OpenWrite(i) ==
    /\ pc[i].L = "openw"
    /\ path' = IF path = None THEN i ELSE path
    /\ pf' = [pf EXCEPT ![i] = path']
    /\ content' = [content EXCEPT ![path'] = None]
    /\ Goto(i, "L", "wrlck")
    /\ UNCHANGED locks

(* F_SETLK for the write lock.                                             *)
WriteLock(i) ==
    /\ pc[i].L = "wrlck"
    /\ IF Locked(pf[i], <<i, "L">>)
       THEN Goto(i, "L", "failed") /\ UNCHANGED wlock
       ELSE /\ Goto(i, "L", "fork")
            /\ wlock' = [wlock EXCEPT ![pf[i]] = <<i, "L">>]
    /\ UNCHANGED <<files, rlock>>

-----------------------------------------------------------------------------
(* daemon_run.                                                             *)

(* fork, in p for its child; if it fails, the file is closed.              *)
Fork(i, p, child) ==
    /\ pc[i][p] = "fork"
    /\ \/ /\ pc' = [pc EXCEPT ![i][p] = "leave", ![i][child] = "wrlck"]
          /\ UNCHANGED locks
       \/ /\ Goto(i, p, "failed")
          /\ Release(pf[i], <<i, p>>)
    /\ UNCHANGED files

(* mutant: does not wait for the lock *)
waitpflockNot(i, p, next) ==
    /\ pc[i][p] = "wrlck"
    /\ Goto(i, p, next)
    /\ UNCHANGED <<files, locks>>

(* waitpflock: F_SETLKW, in the child.                                     *)
waitpflock(i, p, next) ==
    /\ pc[i][p] = "wrlck"
    /\ ~Locked(pf[i], <<i, p>>)
    /\ wlock' = [wlock EXCEPT ![pf[i]] = <<i, p>>]
    /\ Goto(i, p, next)
    /\ UNCHANGED <<files, rlock>>

(* mutant: the launching process keeps the file open while it waits *)
LaunchLeaveOpen(i) ==
    /\ pc[i].L = "leave"
    /\ pc[i].D = "run"
    /\ Release(pf[i], <<i, "L">>)
    /\ Goto(i, "L", "over")
    /\ UNCHANGED files

(* The launching process closes the file.                                  *)
LaunchLeave(i) ==
    /\ pc[i].L = "leave"
    /\ Release(pf[i], <<i, "L">>)
    /\ Goto(i, "L", "over")
    /\ UNCHANGED files

PidWritten(i) == i

(* The session leader writes the daemon's pid and closes the file.         *)
SessionLeave(i) ==
    /\ pc[i].S = "leave"
    /\ content' = [content EXCEPT ![pf[i]] = PidWritten(i)]
    /\ Release(pf[i], <<i, "S">>)
    /\ Goto(i, "S", "over")
    /\ UNCHANGED <<path, pf>>

(* dmain returns; the daemon closes the file, then removes it.             *)
Stop(i) ==
    /\ pc[i].D = "run"
    /\ Goto(i, "D", "close")
    /\ UNCHANGED <<files, locks>>

(* fclose in the daemon: its lock goes before the name does.               *)
DaemonClose(i) ==
    /\ pc[i].D = "close"
    /\ Release(pf[i], <<i, "D">>)
    /\ Goto(i, "D", "unlink")
    /\ UNCHANGED files

(* unlink in the daemon, whichever file has the name by now.               *)
DaemonUnlink(i) ==
    /\ pc[i].D = "unlink"
    /\ path' = None
    /\ Goto(i, "D", "over")
    /\ UNCHANGED <<pf, content, locks>>

(* The daemon is killed: its lock goes, the pidfile stays.                 *)
Kill(i) ==
    /\ pc[i].D = "run"
    /\ Release(pf[i], <<i, "D">>)
    /\ Goto(i, "D", "over")
    /\ UNCHANGED files

-----------------------------------------------------------------------------
(* What a process does after it has started, except for Stop; a process    *)
(* goes on, but a daemon may run forever and fork may fail.                *)
Progress(i) ==
    \/ GetLock(i) \/ ReadLock(i) \/ Unlink(i) \/ CloseStale(i)
    \/ OpenWrite(i) \/ WriteLock(i) \/ Fork(i, "L", "S") \/ LaunchLeave(i)
    \/ waitpflock(i, "S", "fork") \/ Fork(i, "S", "D") \/ SessionLeave(i)
    \/ waitpflock(i, "D", "run") \/ DaemonClose(i) \/ DaemonUnlink(i)

Step(i) == Progress(i) /\ UNCHANGED apart

Next ==
    \E i \in Instances :
        \/ Step(i)
        \/ (OpenRead(i) \/ Stop(i)) /\ apart' = (apart /\ AllSettled)
        \/ Kill(i) /\ UNCHANGED apart

Spec == Init /\ [][Next]_vars

FairSpec == Spec /\ \A i \in Instances : WF_vars(Step(i))

-----------------------------------------------------------------------------
(* Properties.                                                             *)

Running == {i \in Instances : pc[i].D = "run"}

(* Only one daemon runs at a time, if instances start and stop one after   *)
(* the other: the pidfile is used to find one that runs already.           *)
OneDaemon == apart => Cardinality(Running) <= 1

(* Daemons that run at the same time never share a file: each holds the    *)
(* write lock of its own, handed over through three processes.  Every      *)
(* variable has its type.                                                  *)
LockHeld == TypeOK /\ \A i \in Running : wlock[pf[i]] = <<i, "D">>

(* When a daemon runs and nothing starts or stops, the pidfile is the      *)
(* daemon's locked file and names it.                                      *)
PidfileNamesDaemon ==
    \A i \in Running : apart /\ AllSettled => path = pf[i] /\ content[path] = i

(* openpidfile gives up.                                                   *)
Refused(i) == pc[i].L \notin {"fork", "failed"} /\ pc'[i].L = "failed"

(* An instance is turned away only by a daemon that runs, never by what an *)
(* earlier one left, killed or stopped or failed while starting.           *)
RefusedByDaemon ==
    [][\A i \in Instances : apart /\ Refused(i) => Running \ {i} # {}]_vars

(* A start comes to an end: the instance runs as a daemon, has failed, or  *)
(* waits for another one that runs.                                        *)
StartEnds ==
    \A i \in Instances :
        (pc[i].L = "fork")
            ~> (\/ pc[i].D \in {"run", "over"} \/ pc[i].L = "failed"
                \/ pc[i].S = "failed" \/ Running \ {i} # {})
=============================================================================
