------------------------------ MODULE WorkQueue -----------------------------
(***************************************************************************)
(* The work queue of freertos-addons (c/Source/workqueue.c): callers queue *)
(* work items, and a worker thread of its own takes them off the queue and *)
(* calls their functions.  A function may queue further work, and may      *)
(* destroy the queue it runs on, so the worker is a caller as well.        *)
(*                                                                         *)
(* Lock is a mutex that protects the queue and ExitThread; Event is a      *)
(* binary semaphore that wakes the worker.  A step is what a thread does   *)
(* between two semaphore calls, or the semaphore call.                     *)
(***************************************************************************)
EXTENDS Naturals, Sequences, Functions, FiniteSets

CONSTANTS Clients,      \* the threads that use the queue, the worker apart
          Worker,       \* the worker thread
          Nobody,       \* no holder of the mutex
          MaxItems,     \* bound: work items allocated in a behaviour
          DestroyWaits  \* does a client call DestroyWorkQueue only while no
                        \* other client is inside QueueWorkItem?

ASSUME ConstantsAssumption ==
  /\ Worker \notin Clients /\ Nobody \notin Clients \cup {Worker}
  /\ MaxItems \in Nat /\ DestroyWaits \in BOOLEAN

Callers == Clients \cup {Worker}
Items   == 1..MaxItems
NoItem  == 0  \* the NULL pointer

VARIABLES
  createPc,    \* where CreateWorkQueueEx is
  have,        \* which of its four resources exist
  pc,          \* where each caller is in QueueWorkItem or DestroyWorkQueue
  item,        \* each caller's local pointer WorkItem
  workerPc,    \* where WorkerThread is
  current,     \* the worker's local pointer WorkItem
  leaving,     \* the worker's local copy of ExitThread
  queue,       \* WorkQueue->Queue
  event,       \* count of the binary semaphore WorkQueue->Event
  lock,        \* holder of the mutex WorkQueue->Lock
  exitThread,  \* WorkQueue->ExitThread
  destroyed,   \* DestroyWorkQueue was called
  made,        \* items allocated so far
  live,        \* items allocated and not freed
  accepted,    \* items put on the queue, in that order
  ran          \* items whose function was called, in that order

createVars == <<createPc, have>>
callVars   == <<pc, item, destroyed, made, accepted>>
workerVars == <<workerPc, current, leaving, ran>>
vars == <<createVars, callVars, workerVars, queue, event, lock, exitThread, live>>

Goto(c, label) == pc' = [pc EXCEPT ![c] = label]

Init ==
  /\ createPc = "struct" /\ have = {}
  /\ pc = [c \in Callers |-> "out"] /\ item = [c \in Callers |-> NoItem]
  /\ workerPc = "none" /\ current = NoItem /\ leaving = FALSE
  /\ queue = <<>> /\ event = 0 /\ lock = Nobody /\ exitThread = FALSE
  /\ destroyed = FALSE /\ made = 0 /\ live = {} /\ accepted = <<>> /\ ran = <<>>

-----------------------------------------------------------------------------
(* CreateWorkQueueEx: the resource that createPc names is next; when it is *)
(* not to be had, the function frees, one after the other, what its error  *)
(* path for this resource names, and returns NULL.                         *)

After == [struct |-> "event", event |-> "lock", lock |-> "task", task |-> "made"]

\* Mutant: the error path of the mutex forgets the event.
UndoForgetsEvent ==
  [struct |-> "failed", event |-> "undo_struct", lock |-> "undo_struct", task |-> "undo_lock"]

\* Where the error path of each resource begins.
Undo ==
  [struct |-> "failed", event |-> "undo_struct", lock |-> "undo_event", task |-> "undo_lock"]

CreateNext ==
  /\ createPc \in DOMAIN After
  /\ have' = have \cup {createPc} /\ createPc' = After[createPc]
  /\ workerPc' = IF createPc = "task" THEN "wait" ELSE workerPc
  /\ UNCHANGED <<callVars, current, leaving, ran, queue, event, lock, exitThread, live>>

CreateFails ==
  /\ createPc \in DOMAIN Undo /\ createPc' = Undo[createPc]
  /\ UNCHANGED <<have, callVars, workerVars, queue, event, lock, exitThread, live>>

UndoStep(here, freed, next) ==
  /\ createPc = here /\ have' = have \ {freed} /\ createPc' = next
  /\ UNCHANGED <<callVars, workerVars, queue, event, lock, exitThread, live>>

CreateUndo == \/ UndoStep("undo_lock", "lock", "undo_event")
              \/ UndoStep("undo_event", "event", "undo_struct")
              \/ UndoStep("undo_struct", "struct", "failed")

-----------------------------------------------------------------------------
(* What a caller may do: the worker calls only from inside a work item's   *)
(* function; a client has the handle once it was returned to it and stops  *)
(* using it when the queue is being destroyed.                             *)

MayCall(c) ==
  /\ pc[c] = "out"
  /\ IF c = Worker THEN workerPc = "function"
                   ELSE createPc = "made" /\ ~destroyed

(* QueueWorkItem. *)

\* malloc succeeds; when it fails, QueueWorkItem returns pdFAIL at once and
\* nothing has changed.
AllocItem(c) ==
  /\ MayCall(c) /\ made < MaxItems
  /\ made' = made + 1 /\ live' = live \cup {made'}
  /\ item' = [item EXCEPT ![c] = made'] /\ Goto(c, "q_lock")
  /\ UNCHANGED <<createVars, destroyed, accepted, workerVars, queue, event, lock, exitThread>>

\* What a caller inside a call uses.  Once the worker has deleted any of it
\* nothing more is said of this caller: NoUseAfterDelete is about when that can
\* be.
Shared == {"struct", "event", "lock"}
Intact == Shared \subseteq have

QueueLock(c) ==
  /\ pc[c] = "q_lock" /\ Intact /\ lock = Nobody
  /\ lock' = c /\ Goto(c, "q_enqueue")
  /\ UNCHANGED <<createVars, item, destroyed, made, accepted, workerVars, queue,
                 event, exitThread, live>>

\* Mutant: the item goes to the front.
EnqueueFront(c) ==
  /\ pc[c] = "q_enqueue" /\ Intact
  /\ queue' = <<item[c]>> \o queue /\ accepted' = Append(accepted, item[c])
  /\ item' = [item EXCEPT ![c] = NoItem] /\ Goto(c, "q_event")
  /\ UNCHANGED <<createVars, destroyed, made, workerVars, event, lock, exitThread, live>>

Enqueue(c) ==
  /\ pc[c] = "q_enqueue" /\ Intact
  /\ queue' = Append(queue, item[c]) /\ accepted' = Append(accepted, item[c])
  /\ item' = [item EXCEPT ![c] = NoItem] /\ Goto(c, "q_event")
  /\ UNCHANGED <<createVars, destroyed, made, workerVars, event, lock, exitThread, live>>

QueueGiveEvent(c) ==
  /\ pc[c] = "q_event" /\ Intact
  /\ event' = 1 /\ Goto(c, "unlock")
  /\ UNCHANGED <<createVars, item, destroyed, made, accepted, workerVars, queue,
                 lock, exitThread, live>>

\* The last step of QueueWorkItem and of DestroyWorkQueue.
Unlock(c) ==
  /\ pc[c] = "unlock" /\ Intact
  /\ lock' = Nobody /\ Goto(c, "out")
  /\ UNCHANGED <<createVars, item, destroyed, made, accepted, workerVars, queue,
                 event, exitThread, live>>

(* DestroyWorkQueue, called once. *)

CallDestroy(c) ==
  /\ MayCall(c) /\ ~destroyed
  /\ DestroyWaits => \A d \in Clients : pc[d] = "out"
  /\ destroyed' = TRUE /\ Goto(c, "d_lock")
  /\ UNCHANGED <<createVars, item, made, accepted, workerVars, queue, event, lock,
                 exitThread, live>>

\* Mutant: the flag is set without the lock.
DestroyLockSkipped(c) ==
  /\ pc[c] = "d_lock" /\ Goto(c, "d_flag")
  /\ UNCHANGED <<createVars, item, destroyed, made, accepted, workerVars, queue,
                 event, lock, exitThread, live>>

DestroyLock(c) ==
  /\ pc[c] = "d_lock" /\ Intact /\ lock = Nobody
  /\ lock' = c /\ Goto(c, "d_flag")
  /\ UNCHANGED <<createVars, item, destroyed, made, accepted, workerVars, queue,
                 event, exitThread, live>>

DestroyFlag(c) ==
  /\ pc[c] = "d_flag" /\ Intact
  /\ exitThread' = TRUE /\ Goto(c, "d_event")
  /\ UNCHANGED <<createVars, item, destroyed, made, accepted, workerVars, queue,
                 event, lock, live>>

\* Mutant: nobody wakes the worker.
DestroyNoEvent(c) ==
  /\ pc[c] = "d_event" /\ Goto(c, "unlock")
  /\ UNCHANGED <<createVars, item, destroyed, made, accepted, workerVars, queue,
                 event, lock, exitThread, live>>

DestroyGiveEvent(c) ==
  /\ pc[c] = "d_event" /\ Intact
  /\ event' = 1 /\ Goto(c, "unlock")
  /\ UNCHANGED <<createVars, item, destroyed, made, accepted, workerVars, queue,
                 lock, exitThread, live>>

-----------------------------------------------------------------------------
(* WorkerThread.                                                           *)

WorkerWait ==
  /\ workerPc = "wait" /\ event = 1
  /\ event' = 0 /\ workerPc' = "lock"
  /\ UNCHANGED <<createVars, callVars, current, leaving, ran, queue, lock, exitThread, live>>

WorkerLock ==
  /\ workerPc = "lock" /\ lock = Nobody
  /\ lock' = Worker /\ workerPc' = "check"
  /\ UNCHANGED <<createVars, callVars, current, leaving, ran, queue, event, exitThread, live>>

WorkerDequeue ==
  /\ workerPc = "check" /\ queue # <<>>
  /\ current' = Head(queue) /\ queue' = Tail(queue) /\ workerPc' = "give"
  /\ UNCHANGED <<createVars, callVars, leaving, ran, event, lock, exitThread, live>>

\* Mutant: the flag is tested before the queue.
WorkerReadFlagEarly ==
  /\ workerPc = "check" /\ (queue = <<>> \/ exitThread)
  /\ leaving' = exitThread /\ workerPc' = "give"
  /\ UNCHANGED <<createVars, callVars, current, ran, queue, event, lock, exitThread, live>>

WorkerReadFlag ==
  /\ workerPc = "check" /\ queue = <<>>
  /\ leaving' = exitThread /\ workerPc' = "give"
  /\ UNCHANGED <<createVars, callVars, current, ran, queue, event, lock, exitThread, live>>

WorkerUnlock ==
  /\ workerPc = "give"
  /\ lock' = Nobody
  /\ workerPc' = IF current # NoItem THEN "call" ELSE IF leaving THEN "clean_lock" ELSE "wait"
  /\ UNCHANGED <<createVars, callVars, current, leaving, ran, queue, event, exitThread, live>>

\* The function starts, and runs until WorkerFree.
WorkerCall ==
  /\ workerPc = "call"
  /\ ran' = Append(ran, current) /\ workerPc' = "function"
  /\ UNCHANGED <<createVars, callVars, current, leaving, queue, event, lock, exitThread, live>>

\* Mutant: the worker waits for the next Event instead of looking at the queue.
WorkerFreeAndWait ==
  /\ workerPc = "function" /\ pc[Worker] = "out"
  /\ live' = live \ {current} /\ current' = NoItem /\ workerPc' = "wait"
  /\ UNCHANGED <<createVars, callVars, leaving, ran, queue, event, lock, exitThread>>

WorkerFree ==
  /\ workerPc = "function" /\ pc[Worker] = "out"
  /\ live' = live \ {current} /\ current' = NoItem /\ workerPc' = "lock"
  /\ UNCHANGED <<createVars, callVars, leaving, ran, queue, event, lock, exitThread>>

WorkerCleanLock ==
  /\ workerPc = "clean_lock" /\ lock = Nobody
  /\ lock' = Worker /\ workerPc' = "drain"
  /\ UNCHANGED <<createVars, callVars, current, leaving, ran, queue, event, exitThread, live>>

\* The whole drain loop: the lock is held throughout.
WorkerDrain ==
  /\ workerPc = "drain"
  /\ live' = live \ Range(queue) /\ queue' = <<>> /\ workerPc' = "clean_give"
  /\ UNCHANGED <<createVars, callVars, current, leaving, ran, event, lock, exitThread>>

WorkerCleanUnlock ==
  /\ workerPc = "clean_give"
  /\ lock' = Nobody /\ workerPc' = "delete_lock"
  /\ UNCHANGED <<createVars, callVars, current, leaving, ran, queue, event, exitThread, live>>

DeleteStep(here, freed, next) ==
  /\ workerPc = here /\ have' = have \ freed /\ workerPc' = next
  /\ UNCHANGED <<createPc, callVars, current, leaving, ran, queue, event, lock,
                 exitThread, live>>

\* The semaphores, the structure, whose copy of the thread's handle is kept,
\* and the thread itself.
WorkerDelete ==
  \/ DeleteStep("delete_lock", {"lock"}, "delete_event")
  \/ DeleteStep("delete_event", {"event"}, "save_handle")
  \/ DeleteStep("save_handle", {}, "free_struct")
  \/ DeleteStep("free_struct", {"struct"}, "delete_self")
  \/ DeleteStep("delete_self", {"task"}, "gone")

-----------------------------------------------------------------------------
Queueing(c)   == QueueLock(c) \/ Enqueue(c) \/ QueueGiveEvent(c)
Destroying(c) == DestroyLock(c) \/ DestroyFlag(c) \/ DestroyGiveEvent(c)
CallGoesOn(c) == Queueing(c) \/ Destroying(c) \/ Unlock(c)
WorkerGoesOn  == \/ WorkerWait \/ WorkerLock \/ WorkerDequeue \/ WorkerReadFlag
                 \/ WorkerUnlock \/ WorkerCall \/ WorkerFree \/ WorkerCleanLock
                 \/ WorkerDrain \/ WorkerCleanUnlock \/ WorkerDelete

Next == \/ CreateNext \/ CreateFails \/ CreateUndo
        \/ \E c \in Callers : AllocItem(c) \/ CallDestroy(c) \/ CallGoesOn(c)
        \/ WorkerGoesOn

\* The scheduler runs every ready thread, and a work function returns.
Spec == /\ Init /\ [][Next]_vars
        /\ \A c \in Callers : WF_vars(CallGoesOn(c))
        /\ WF_vars(WorkerGoesOn)

-----------------------------------------------------------------------------
(* Properties.                                                             *)

\* What CreateWorkQueueEx has obtained where it is, and what is left of it while
\* the worker deletes it.
Obtained ==
  [struct |-> {}, event |-> {"struct"}, lock |-> {"struct", "event"},
   task |-> Shared, made |-> Shared \cup {"task"}, undo_lock |-> Shared,
   undo_event |-> {"struct", "event"}, undo_struct |-> {"struct"}, failed |-> {}]
Deleted(w) ==
  CASE w = "delete_event" -> {"lock"}
    [] w \in {"save_handle", "free_struct"} -> {"lock", "event"}
    [] w = "delete_self" -> Shared
    [] w = "gone" -> Shared \cup {"task"}
    [] OTHER -> {}

\* Every variable keeps its type.
TypeOK ==
  /\ createPc \in DOMAIN Obtained /\ have \subseteq DOMAIN After
  /\ pc \in [Callers -> {"out", "q_lock", "q_enqueue", "q_event", "unlock",
                         "d_lock", "d_flag", "d_event"}]
  /\ item \in [Callers -> Items \cup {NoItem}]
  /\ workerPc \in {"none", "wait", "lock", "check", "give", "call", "function",
                   "clean_lock", "drain", "clean_give", "delete_lock", "delete_event",
                   "save_handle", "free_struct", "delete_self", "gone"}
  /\ current \in Items \cup {NoItem} /\ leaving \in BOOLEAN
  /\ queue \in Seq(Items) /\ event \in {0, 1} /\ lock \in Callers \cup {Nobody}
  /\ exitThread \in BOOLEAN /\ destroyed \in BOOLEAN /\ made \in 0..MaxItems
  /\ live \subseteq Items /\ accepted \in Seq(Items) /\ ran \in Seq(Items)

\* No lost wakeup: while work is queued or the worker is to exit, a sleeping
\* worker has its Event, or the caller that owes it still holds the lock.
NoLostWakeup ==
  workerPc = "wait" /\ (queue # <<>> \/ exitThread) => event = 1 \/ lock # Nobody

\* Every item that was allocated and not freed has exactly one owner: the caller
\* that is about to queue it, the queue or the worker.  Nothing leaks, and no
\* freed item is queued, called or freed again.
ItemOwnership ==
  /\ \A i \in Items :
       i \in live <=> (\E c \in Callers : item[c] = i) \/ i \in Range(queue) \/ i = current
  /\ IsInjective(queue) /\ current \notin Range(queue)
  /\ \A c \in Callers : item[c] # NoItem =>
       /\ item[c] \notin Range(queue) /\ item[c] # current
       /\ \A d \in Callers : item[c] = item[d] => c = d

\* What was accepted is run exactly once and in order, or is still to be run.
Taken == IF current # NoItem /\ workerPc # "function" THEN <<current>> ELSE <<>>
ToRun == Taken \o queue
RunsInOrder == accepted = ran \o ToRun

\* A creation that failed, and a queue that was destroyed, leave nothing behind,
\* whichever resource was not to be had; and on the way there no path frees what
\* it has not, or uses what it has freed (workqueue.c:230-307).
UndoFrees == [undo_lock |-> "lock", undo_event |-> "event", undo_struct |-> "struct"]
WorkerUses(w) ==
  CASE w = "none" -> {}
    [] w \in {"wait", "delete_event"} -> {"struct", "event"}
    [] w \in {"lock", "check", "give", "clean_lock", "drain", "clean_give",
              "delete_lock"} -> {"struct", "lock"}
    [] w \in {"save_handle", "free_struct"} -> {"struct"}
    [] w \in {"call", "function", "delete_self"} -> {"task"}
    [] OTHER -> {}

NothingLeftBehind ==
  /\ createPc = "failed" => have = {}
  /\ createPc \in DOMAIN UndoFrees => UndoFrees[createPc] \in have
  /\ WorkerUses(workerPc) \subseteq have
  /\ workerPc = "gone" => have = {} /\ queue = <<>> /\ (DestroyWaits => live = {})

\* Why it works, as an inductive invariant.  The mutex has one holder, and the
\* worker calls the queue only from inside a work function.
HasLock(c) ==
  \/ pc[c] \in {"q_enqueue", "q_event", "unlock", "d_flag", "d_event"}
  \/ c = Worker /\ workerPc \in {"check", "give", "drain", "clean_give"}

MutexInv == /\ \A c \in Callers : HasLock(c) <=> lock = c
            /\ pc[Worker] # "out" => workerPc = "function"

\* Nothing happens before the queue was made.
CreateInv ==
  /\ createPc = "made" <=> workerPc # "none"
  /\ createPc # "made" => /\ queue = <<>> /\ ~destroyed
                          /\ \A c \in Callers : pc[c] = "out"

\* Whoever made the queue interesting to a sleeping worker has given Event, or
\* is about to, with the lock in its hands.
WakeupInv ==
  workerPc = "wait" /\ (queue # <<>> \/ exitThread) =>
    event = 1 \/ \E c \in Callers : pc[c] \in {"q_event", "d_event"}

\* There is one call of DestroyWorkQueue, which sets the flag.
DestroyInv ==
  /\ exitThread => destroyed
  /\ \A c \in Callers : pc[c] \in {"d_lock", "d_flag"} =>
       /\ destroyed /\ ~exitThread
       /\ \A d \in Callers : pc[d] \in {"d_lock", "d_flag"} => c = d
  /\ DestroyWaits /\ destroyed =>
       \A c \in Clients : pc[c] \notin {"q_lock", "q_enqueue", "q_event"}

Ending == {"delete_lock", "delete_event", "save_handle", "free_struct", "delete_self", "gone"}

\* What the worker saw when it found nothing to do is still so, because it has
\* kept the lock; and when it leaves, nobody else is there any more.
WorkerLeaves ==
  \/ workerPc = "give" /\ current = NoItem /\ leaving
  \/ workerPc \in {"clean_lock", "drain", "clean_give"} \cup Ending

LeaveInv ==
  /\ workerPc = "give" /\ current = NoItem => queue = <<>> /\ leaving = exitThread
  /\ WorkerLeaves => exitThread
  /\ DestroyWaits /\ WorkerLeaves => queue = <<>> /\ \A c \in Callers : pc[c] = "out"

\* Who has an item at which point, and that new items are new.
ItemInv ==
  /\ \A c \in Callers : item[c] # NoItem <=> pc[c] \in {"q_lock", "q_enqueue"}
  /\ current # NoItem => workerPc \in {"give", "call", "function"}
  /\ workerPc \in {"call", "function"} => current # NoItem
  /\ live \subseteq 1..made

\* What exists at each point of CreateWorkQueueEx and of the worker's end.
HaveInv == have = Obtained[createPc] \ Deleted(workerPc)

QueueInv == /\ TypeOK /\ MutexInv /\ CreateInv /\ HaveInv /\ WakeupInv /\ DestroyInv
            /\ LeaveInv /\ ItemInv /\ ItemOwnership

\* When no client is inside a call as the queue is destroyed, nobody uses the
\* structure, the event or the lock once the worker begins to delete them.
NoUseAfterDelete == \A c \in Callers : pc[c] # "out" => Intact

\* Every accepted item is run.
AcceptedIsRun ==
  \A i \in Items : i \in Range(accepted) ~> i \in Range(ran)

\* A destroyed queue goes away, also one destroyed by its own work item.
DestroyCompletes == destroyed ~> workerPc = "gone"

\* workqueue.h:112-119: QueueWorkItem's WorkItem is "The function you want
\* called", and it returns "pdPASS on success".  So an item that was accepted is
\* not freed before its function was called.
AcceptedIsNotDropped ==
  \A i \in Range(accepted) : i \in live \/ i \in Range(ran)
=============================================================================
