---------------------------- MODULE CppWorkQueue -----------------------------
(***************************************************************************)
(* The work queue of the C++ wrapper (cworkqueue.cpp) and the end of the   *)
(* thread under it (cthread.cpp).  Clients put items into a bounded queue  *)
(* of the kernel; the worker thread runs one after the other and deletes   *)
(* those marked so.  The destructor puts a NULL behind the items, waits    *)
(* for ThreadComplete, and deletes the queue, the thread and the           *)
(* semaphore.  An item that runs may queue items until the worker is done, *)
(* and what it puts behind the NULL is accepted and never run.             *)
(***************************************************************************)
EXTENDS Naturals, Sequences, Functions

CONSTANTS Clients,
          Worker,       \* the worker thread, which queues work from an item's Run
          Items,
          FreeAfter,    \* the items made with freeAfterComplete
          Null,
          QueueLength   \* MaxWorkItems

ConstantsAssumption ==
  /\ Worker \notin Clients /\ Null \notin Items /\ FreeAfter \subseteq Items
  /\ QueueLength \in Nat \ {0}

Callers == Clients \cup {Worker}

VARIABLES
  pc, arg,   \* where each caller is in QueueWork, and its item
  fresh,     \* the items nobody has queued
  queue,     \* WorkItemQueue: items and Nulls
  workerPc,  \* where the worker is
  current,   \* its item
  complete,  \* count of ThreadComplete
  dtorPc,    \* where the destructor is
  accepted,  \* history: the items QueueWork returned true for, in order
  behind,    \* history: those of them that were put behind the destructor's NULL
  ran,       \* history: the items that ran, in order
  freed      \* the items the queue deleted

callVars   == <<pc, arg, fresh, accepted, behind>>
workerVars == <<workerPc, current, ran, freed>>
vars == <<callVars, queue, workerVars, complete, dtorPc>>

Init ==
  /\ pc = [c \in Callers |-> "out"] /\ arg = [c \in Callers |-> Null] /\ fresh = Items
  /\ queue = <<>> /\ workerPc = "none" /\ current = Null /\ complete = 0
  /\ dtorPc = "alive"
  /\ accepted = <<>> /\ behind = <<>> /\ ran = <<>> /\ freed = {}

-----------------------------------------------------------------------------
(* The constructor starts the worker and drops the result of Start.       *)

Construct ==
  /\ workerPc = "none" /\ workerPc' \in {"dequeue", "failed"}
  /\ UNCHANGED <<callVars, queue, current, ran, freed, complete, dtorPc>>

-----------------------------------------------------------------------------
(* QueueWork, called by items that run, the worker then being the caller,  *)
(* and by clients, who keep away once the object is being destroyed: the   *)
(* queue would be deleted under them.                                      *)

CallQueueWork(c, i) ==
  /\ workerPc # "none" /\ pc[c] = "out" /\ i \in fresh
  /\ IF c = Worker THEN workerPc = "run" ELSE dtorPc = "alive"
  /\ pc' = [pc EXCEPT ![c] = "enqueue"] /\ arg' = [arg EXCEPT ![c] = i]
  /\ fresh' = fresh \ {i}
  /\ UNCHANGED <<accepted, behind, queue, workerVars, complete, dtorPc>>

Enqueue(c) ==
  /\ pc[c] = "enqueue" /\ Len(queue) < QueueLength
  /\ queue' = Append(queue, arg[c]) /\ accepted' = Append(accepted, arg[c])
  /\ behind' = IF dtorPc = "take" THEN Append(behind, arg[c]) ELSE behind
  /\ pc' = [pc EXCEPT ![c] = "out"]
  /\ UNCHANGED <<arg, fresh, workerVars, complete, dtorPc>>

-----------------------------------------------------------------------------
(* The worker thread: Run, then the rest of Thread::TaskFunctionAdapter.   *)

Dequeue ==
  /\ workerPc = "dequeue" /\ queue # <<>>
  /\ current' = Head(queue) /\ queue' = Tail(queue)
  /\ workerPc' = IF Head(queue) = Null THEN "complete" ELSE "run"
  /\ UNCHANGED <<callVars, ran, freed, complete, dtorPc>>

RunReturns ==
  /\ workerPc = "run" /\ pc[Worker] = "out"
  /\ ran' = Append(ran, current)
  /\ workerPc' = IF current \in FreeAfter THEN "free" ELSE "dequeue"
  /\ UNCHANGED <<callVars, queue, current, freed, complete, dtorPc>>

Free ==
  /\ workerPc = "free"
  /\ freed' = freed \cup {current} /\ workerPc' = "dequeue"
  /\ UNCHANGED <<callVars, queue, current, ran, complete, dtorPc>>

\* Mutant: the worker leaves without the signal.
LeaveSilently ==
  /\ workerPc = "complete" /\ workerPc' = "leave"
  /\ UNCHANGED <<callVars, queue, current, ran, freed, complete, dtorPc>>

Complete ==
  /\ workerPc = "complete"
  /\ complete' = 1 /\ workerPc' = "leave"
  /\ UNCHANGED <<callVars, queue, current, ran, freed, dtorPc>>

\* vTaskDelete(thread->handle)
DeleteItself ==
  /\ workerPc = "leave"
  /\ workerPc' = "gone"
  /\ UNCHANGED <<callVars, queue, current, ran, freed, complete, dtorPc>>

-----------------------------------------------------------------------------
(* The destructor, called when no client is inside QueueWork.              *)

CallDtor ==
  /\ workerPc # "none" /\ dtorPc = "alive" /\ \A c \in Clients : pc[c] = "out"
  /\ dtorPc' = "exit"
  /\ UNCHANGED <<callVars, queue, workerVars, complete>>

\* Mutant: the NULL goes before the items.
DtorExitFirst ==
  /\ dtorPc = "exit" /\ Len(queue) < QueueLength
  /\ queue' = <<Null>> \o queue /\ dtorPc' = "take"
  /\ UNCHANGED <<callVars, workerVars, complete>>

DtorExit ==
  /\ dtorPc = "exit" /\ Len(queue) < QueueLength
  /\ queue' = Append(queue, Null) /\ dtorPc' = "take"
  /\ UNCHANGED <<callVars, workerVars, complete>>

DtorTake ==
  /\ dtorPc = "take" /\ complete = 1
  /\ complete' = 0 /\ dtorPc' = "deleteQueue"
  /\ UNCHANGED <<callVars, queue, workerVars>>

DtorDeleteQueue ==
  /\ dtorPc = "deleteQueue"
  /\ queue' = <<>> /\ dtorPc' = "deleteThread"
  /\ UNCHANGED <<callVars, workerVars, complete>>

\* ~Thread: vTaskDelete(handle) ends a worker that is still there.  One that has
\* deleted itself is deleted again, which may go unnoticed or do any harm.
DtorDeleteThread ==
  /\ dtorPc = "deleteThread"
  /\ workerPc' = "gone"
  /\ \/ dtorPc' = "deleteSemaphore"
     \/ workerPc = "gone" /\ dtorPc' = "undefined"
  /\ UNCHANGED <<callVars, queue, current, ran, freed, complete>>

DtorDeleteSemaphore ==
  /\ dtorPc = "deleteSemaphore"
  /\ dtorPc' = "done"
  /\ UNCHANGED <<callVars, queue, workerVars, complete>>

-----------------------------------------------------------------------------
WorkerGoesOn == Dequeue \/ RunReturns \/ Free \/ Complete \/ DeleteItself
DtorGoesOn   == DtorExit \/ DtorTake \/ DtorDeleteQueue \/ DtorDeleteThread \/ DtorDeleteSemaphore

Next == \/ Construct
        \/ \E c \in Callers : Enqueue(c) \/ \E i \in Items : CallQueueWork(c, i)
        \/ WorkerGoesOn \/ CallDtor \/ DtorGoesOn

\* The scheduler runs every ready thread, Run returns, and no caller is passed over
\* for ever at a queue that has room again and again.
Fairness == /\ WF_vars(WorkerGoesOn) /\ SF_vars(DtorGoesOn)
            /\ \A c \in Callers : SF_vars(Enqueue(c))

Spec == Init /\ [][Next]_vars /\ Fairness

-----------------------------------------------------------------------------
(* Properties.                                                             *)

TypeOK ==
  /\ pc \in [Callers -> {"out", "enqueue"}] /\ arg \in [Callers -> Items \cup {Null}]
  /\ fresh \subseteq Items /\ queue \in Seq(Items \cup {Null}) /\ Len(queue) <= QueueLength
  /\ workerPc \in {"none", "failed", "dequeue", "run", "free", "complete", "leave", "gone"}
  /\ current \in Items \cup {Null} /\ complete \in {0, 1}
  /\ dtorPc \in {"alive", "exit", "take", "deleteQueue", "deleteThread", "deleteSemaphore", "done",
                 "undefined"}
  /\ accepted \in Seq(Items) /\ behind \in Seq(Items) /\ ran \in Seq(Items)
  /\ freed \subseteq FreeAfter

Destroying == dtorPc \in {"deleteQueue", "deleteThread", "deleteSemaphore", "done", "undefined"}

\* What is under way, in order: the item that runs, and the items in the queue, those
\* before the destructor's NULL.
Running == IF workerPc = "run" THEN <<current>> ELSE <<>>
Waiting == IF Null \in Range(queue) THEN SubSeq(queue, 1, Len(queue) - (1 + Len(behind)))
           ELSE IF dtorPc \in {"alive", "exit"} THEN queue ELSE <<>>

\* The items run in the order in which QueueWork accepted them, none twice, and those to
\* be freed are freed right after.  None is left out but one: what an item that runs
\* while the destructor waits for it puts behind the NULL is accepted, with true, and
\* never run or freed.  Before the destructor deletes anything, every other accepted item
\* has run, and the worker has left the queue and ThreadComplete.  Clients are supposed
\* not to call QueueWork any more once the destructor was called.
ToFree(i) == i \in FreeAfter /\ ~(workerPc = "free" /\ current = i)
AllRunInOrder ==
  /\ TypeOK
  /\ Destroying => accepted = ran \o behind /\ workerPc \in {"leave", "gone"}
  /\ ~Destroying => accepted = ((ran \o Running) \o Waiting) \o behind
  /\ freed = {i \in Range(ran) : ToFree(i)}

\* Why, as an inductive invariant: no item is with two callers, or queued again once it
\* was accepted; and the NULL, with the late items behind it, is seen by the worker after
\* all the others and before ThreadComplete is given and anything is deleted.
EachOnce ==
  /\ IsInjective(accepted) /\ fresh \cap Range(accepted) = {}
  /\ \A c \in Callers : pc[c] = "enqueue" =>
       /\ arg[c] \in Items /\ arg[c] \notin fresh \cup Range(accepted)
       /\ \A d \in Callers : pc[d] = "enqueue" /\ arg[d] = arg[c] => c = d
AfterNull == {"complete", "leave", "gone"}
NullIsLast ==
  /\ Waiting \in Seq(Items)
  /\ Null \in Range(queue) =>
       queue = Append(Waiting, Null) \o behind /\ dtorPc = "take" /\ complete = 0
  /\ workerPc \in AfterNull => queue \in Seq(Items) /\ dtorPc \notin {"alive", "exit"}
  /\ workerPc \notin AfterNull => complete = 0 /\ (Null \in Range(queue) <=> dtorPc = "take")
  /\ workerPc = "complete" => complete = 0
  /\ dtorPc \in {"alive", "exit"} => behind = <<>>
  /\ dtorPc # "alive" => \A c \in Clients : pc[c] = "out"
  /\ pc[Worker] = "enqueue" => workerPc = "run"
  /\ workerPc = "run" => current \in Items
  /\ workerPc = "free" => current \in FreeAfter \cap Range(ran)
WorkInv == AllRunInOrder /\ EachOnce /\ NullIsLast

\* The destructor waits for the worker and comes back, also when the queue was full and
\* the worker busy, with these exceptions, all of them in the code: a worker that could
\* not be started, for which it waits for ever; an item that queues an item on the full
\* queue of the worker that runs it, which blocks the two of them for ever; and the
\* worker deleted twice, after which nothing is known.
SelfBlocked == pc[Worker] = "enqueue" /\ Len(queue) = QueueLength
DestroyCompletes ==
  dtorPc = "exit" /\ workerPc # "failed" ~> dtorPc \in {"done", "undefined"} \/ SelfBlocked
=============================================================================
