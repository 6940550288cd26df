------------------------------ MODULE IBQueue ------------------------------
(***************************************************************************)
(* The queue of objects of queue.c: a ring of capa entries that doubles    *)
(* when it is full.  A server keeps the commands it has yet to send in one *)
(* (sendQueue), made when it is connected and destroyed with the           *)
(* connection.                                                             *)
(***************************************************************************)
EXTENDS Integers, Sequences

CONSTANTS Objects,      \* what is queued
          Garbage,      \* what memory holds that nobody wrote
          Null,         \* nothing dequeued
          InitialCapa,  \* QUEUEINITIALCAPA
          EntrySize, PtrSize,  \* bytes of a QueueEntry and of its obj
          MaxCapa       \* bound: the ring does not grow beyond this

ASSUME ObjectsAssumption == Garbage \notin Objects /\ Null \notin Objects
ASSUME SizeAssumption ==
    /\ InitialCapa \in Nat \ {0} /\ MaxCapa \in Nat
    /\ EntrySize \in Nat \ {0} /\ PtrSize \in 1..EntrySize

VARIABLES
    entries,   \* the ring, a function on 0..capa-1
    count, capa, front, back,
    queued,    \* history: the objects enqueued and not dequeued, in order
    result,    \* the last object dequeued
    oldest,    \* history: the object that should have been dequeued
    moved      \* history: expand has moved entries

ring == <<entries, count, capa, front, back>>
vars == <<ring, queued, result, oldest, moved>>

Init ==
    /\ entries = [i \in 0..InitialCapa-1 |-> Garbage]
    /\ count = 0 /\ capa = InitialCapa /\ front = 0 /\ back = 0
    /\ queued = <<>> /\ result = Null /\ oldest = Null
    /\ moved = FALSE

(* Every variable has its type.                                            *)
TypeOK ==
    /\ capa \in Nat \ {0}
    /\ entries \in [0..capa-1 -> Objects \cup {Garbage}]
    /\ count \in 0..capa
    /\ front \in 0..capa-1
    /\ back \in 0..capa-1
    /\ queued \in Seq(Objects)
    /\ result \in Objects \cup {Garbage, Null}
    /\ oldest \in Objects \cup {Null}
    /\ moved \in BOOLEAN

(* The i-th position, from 0, after the front.                             *)
Pos(i) == IF front + i < capa THEN front + i ELSE front + i - capa

(* The memcpy of expand: copies capa - front BYTES from entry front to     *)
(* entry front + capa of the ring that realloc made twice as long.         *)
Copied(i) ==
    IF PtrSize + (i - front - capa) * EntrySize <= capa - front
    THEN entries[i - capa] ELSE Garbage

(* mutant: the front stays where it is *)
expandedFrontLow == front

(* The front of a ring that has grown.                                     *)
expandedFront == IF front > 0 THEN front + capa ELSE 0

(* mutant: the back stays where it is *)
expandedBackLow == back

(* Its back.                                                               *)
expandedBack == IF front > 0 THEN back ELSE capa

(* expand, then the new object goes to the back.                           *)
EnqueueFull(obj) ==
    LET newcapa == 2 * capa
        newback == expandedBack
        grown   == [i \in 0..newcapa-1 |->
                       IF i < capa THEN entries[i]
                       ELSE IF front > 0 /\ i >= front + capa THEN Copied(i)
                       ELSE Garbage]
    IN  /\ count = capa /\ newcapa <= MaxCapa
        /\ entries' = [grown EXCEPT ![newback] = obj]
        /\ front' = expandedFront
        /\ back' = IF newback + 1 = newcapa THEN 0 ELSE newback + 1
        /\ capa' = newcapa
        /\ moved' = (moved \/ front > 0)

EnqueueSpace(obj) ==
    /\ count < capa
    /\ entries' = [entries EXCEPT ![back] = obj]
    /\ back' = IF back + 1 = capa THEN 0 ELSE back + 1
    /\ UNCHANGED <<front, capa, moved>>

(* IBQueue_enqueue.                                                        *)
Enqueue(obj) ==
    /\ EnqueueFull(obj) \/ EnqueueSpace(obj)
    /\ count' = count + 1
    /\ queued' = Append(queued, obj)
    /\ UNCHANGED <<result, oldest>>

AfterFront == IF front + 1 = capa THEN 0 ELSE front + 1

(* IBQueue_dequeue, of a queue that is not empty, and of an empty one.      *)
Dequeue ==
    /\ count > 0
    /\ result' = entries[front]
    /\ oldest' = Head(queued)
    /\ front' = AfterFront
    /\ count' = count - 1
    /\ queued' = Tail(queued)
    /\ UNCHANGED <<entries, capa, back, moved>>

DequeueEmpty ==
    /\ count = 0
    /\ result' = Null
    /\ oldest' = Null
    /\ UNCHANGED <<ring, queued, moved>>

(* The objects IBQueue_destroy gives to their deleters.                    *)
Destroyed == [i \in 1..count |-> entries[Pos(i - 1)]]

(* IBQueue_destroy, and IBQueue_create for the next connection.            *)
Destroy ==
    /\ entries' = [i \in 0..InitialCapa-1 |-> Garbage]
    /\ count' = 0 /\ capa' = InitialCapa /\ front' = 0 /\ back' = 0
    /\ queued' = <<>> /\ result' = Null /\ oldest' = Null
    /\ moved' = FALSE

Next ==
    \/ \E obj \in Objects : Enqueue(obj)
    \/ Dequeue \/ DequeueEmpty \/ Destroy

Spec == Init /\ [][Next]_vars

-----------------------------------------------------------------------------
(* Properties.                                                             *)

(* The counters describe one ring, full or empty or wrapped, before and    *)
(* after it grows: the back is count entries after the front.              *)
RingConsistent ==
    /\ count = Len(queued)
    /\ back = front + count \/ back = front + count - capa

(* Dequeue returns the oldest object: what is in the ring, and so what the *)
(* destructor frees, is what was enqueued and not yet dequeued, in order.  *)
OldestFirst == Destroyed = queued /\ result = oldest

(* The same for a queue that never grew with its front elsewhere than at   *)
(* the start of the ring.                                                  *)
OldestFirstUnlessMoved == ~moved => OldestFirst
=============================================================================
