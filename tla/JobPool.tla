------------------------------ MODULE JobPool ------------------------------
(***************************************************************************)
(* What a pool of workers promises to its users, without threads, locks or *)
(* signals: a job is executed at once if a worker is free; otherwise it    *)
(* waits in a bounded queue, is taken from it in the order of submission,  *)
(* and is refused only if the queue is full.  At most Workers jobs are     *)
(* under way, each is executed at most once, and it is finished after it   *)
(* was executed.  A waiting job that is cancelled leaves a gap in the      *)
(* queue, which counts as an entry until its turn comes.                   *)
(***************************************************************************)
EXTENDS Naturals, Sequences, FiniteSets

CONSTANTS Jobs,     \* the jobs
          Workers,  \* how many workers there are
          Length,   \* how many entries the queue can hold
          Gap       \* the entry of a cancelled job

VARIABLES st,       \* st[j]: what became of job j
          pending   \* the queue

UnderWay == {j \in Jobs : st[j] \in {"assigned", "executing", "executed"}}

Init ==
    /\ st = [j \in Jobs |-> "new"]
    /\ pending = <<>>

(* A worker gets the job right away.                                       *)
Assign(j) ==
    /\ st[j] = "new"
    /\ Cardinality(UnderWay) < Workers
    /\ st' = [st EXCEPT ![j] = "assigned"]
    /\ UNCHANGED pending

Wait(j) ==
    /\ st[j] = "new"
    /\ Len(pending) < Length
    /\ st' = [st EXCEPT ![j] = "waiting"]
    /\ pending' = Append(pending, j)

Refuse(j) ==
    /\ st[j] = "new"
    /\ Len(pending) = Length
    /\ st' = [st EXCEPT ![j] = "refused"]
    /\ UNCHANGED pending

(* The oldest entry of the queue: a job for a free worker, or a gap.       *)
Take ==
    /\ pending # <<>>
    /\ pending' = Tail(pending)
    /\ \/ Head(pending) = Gap /\ UNCHANGED st
       \/ /\ Head(pending) # Gap
          /\ Cardinality(UnderWay) < Workers
          /\ st' = [st EXCEPT ![Head(pending)] = "assigned"]

Execute(j) ==
    /\ st[j] = "assigned"
    /\ st' = [st EXCEPT ![j] = "executing"]
    /\ UNCHANGED pending

Return(j) ==
    /\ st[j] = "executing"
    /\ st' = [st EXCEPT ![j] = "executed"]
    /\ UNCHANGED pending

(* The user is told the result, or the job's panic brings the pool down.   *)
Finish(j) ==
    /\ st[j] = "executed"
    /\ \E end \in {"finished", "panicked"} : st' = [st EXCEPT ![j] = end]
    /\ UNCHANGED pending

Cancel(j) ==
    /\ st[j] = "waiting"
    /\ st' = [st EXCEPT ![j] = "cancelled"]
    /\ pending' = [i \in 1..Len(pending) |->
                     IF pending[i] = j THEN Gap ELSE pending[i]]

(* The pool is closed: what still waits is dropped.                        *)
Close ==
    /\ pending' = <<>>
    /\ st' = [j \in Jobs |-> IF st[j] = "waiting" THEN "dropped" ELSE st[j]]

Next ==
    \/ \E j \in Jobs : \/ Assign(j) \/ Wait(j) \/ Refuse(j) \/ Execute(j)
                       \/ Return(j) \/ Finish(j) \/ Cancel(j)
    \/ Take
    \/ Close

Spec == Init /\ [][Next]_<<st, pending>>
=============================================================================
