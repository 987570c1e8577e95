--------------------------- MODULE WorkQueue_proofs ---------------------------
(***************************************************************************)
(* Proofs about the work queue, for every set of clients and every number  *)
(* of items: QueueInv is an invariant, with or without the discipline of   *)
(* DestroyWaits; hence no wakeup is lost and every item has one owner.     *)
(***************************************************************************)
EXTENDS WorkQueue, QueueLemmas

\* The four resources of CreateWorkQueueEx, what comes after each, and where the
\* error path of each begins.
LEMMA Resources ==
  /\ DOMAIN After = {"struct", "event", "lock", "task"}
  /\ After["struct"] = "event" /\ After["event"] = "lock"
  /\ After["lock"] = "task" /\ After["task"] = "made"
  /\ DOMAIN Undo = {"struct", "event", "lock", "task"}
  /\ Undo["struct"] = "failed" /\ Undo["event"] = "undo_struct"
  /\ Undo["lock"] = "undo_event" /\ Undo["task"] = "undo_lock"
  BY DEF After, Undo

\* What has been obtained at each point.
LEMMA ObtainedAt ==
  /\ DOMAIN Obtained = {"struct", "event", "lock", "task", "made", "undo_lock", "undo_event",
                        "undo_struct", "failed"}
  /\ Obtained["struct"] = {} /\ Obtained["event"] = {"struct"}
  /\ Obtained["lock"] = {"struct", "event"} /\ Obtained["task"] = Shared
  /\ Obtained["made"] = Shared \cup {"task"} /\ Obtained["undo_lock"] = Shared
  /\ Obtained["undo_event"] = {"struct", "event"} /\ Obtained["undo_struct"] = {"struct"}
  /\ Obtained["failed"] = {} /\ Shared = {"struct", "event", "lock"}
  BY DEF Obtained, Shared

\* The state before CreateWorkQueueEx satisfies the invariant.
LEMMA InitQueueInv == Init => QueueInv
  <1> SUFFICES ASSUME Init PROVE QueueInv
    OBVIOUS
  <1> USE ConstantsAssumption DEF Init, Callers, NoItem
  <1>1. TypeOK
    <2>1. <<>> \in Seq(Items)
      BY EmptySeq
    <2>2. createPc \in DOMAIN Obtained /\ have \subseteq DOMAIN After
      BY ObtainedAt
    <2>3. leaving \in BOOLEAN /\ exitThread \in BOOLEAN /\ destroyed \in BOOLEAN
      BY Zenon
    <2>4. made \in 0..MaxItems
      OBVIOUS
    <2>5. pc \in [Callers -> {"out"}] /\ item \in [Callers -> {NoItem}]
      OBVIOUS
    <2> QED
      BY <2>1, <2>2, <2>3, <2>4, <2>5 DEF TypeOK
  <1>2. MutexInv /\ CreateInv /\ WakeupInv /\ DestroyInv /\ LeaveInv
    BY DEF MutexInv, HasLock, CreateInv, WakeupInv, DestroyInv, LeaveInv, WorkerLeaves, Ending
  <1>3. ItemInv /\ ItemOwnership
    BY EmptyQueue DEF ItemInv, ItemOwnership, Items
  <1>4. HaveInv
    BY ObtainedAt DEF HaveInv
  <1> QED
    BY <1>1, <1>2, <1>3, <1>4 DEF QueueInv

\* Every step keeps the types.
LEMMA StepTypeOK ==
  ASSUME QueueInv, Next
  PROVE  TypeOK'
  <1> USE ConstantsAssumption DEF QueueInv, TypeOK, Callers, Goto,
              createVars, callVars, workerVars
  <1>1. CASE CreateNext \/ CreateFails \/ CreateUndo
    <2>1. createPc' \in DOMAIN Obtained /\ have' \subseteq DOMAIN After
      BY <1>1, Resources, ObtainedAt DEF CreateNext, CreateFails, CreateUndo, UndoStep
    <2> QED
      BY <1>1, <2>1 DEF CreateNext, CreateFails, CreateUndo, UndoStep
  <1>2. ASSUME NEW c \in Callers, AllocItem(c) PROVE TypeOK'
    BY <1>2 DEF AllocItem, Items
  <1>3. ASSUME NEW c \in Callers, CallDestroy(c) \/ QueueLock(c) \/ QueueGiveEvent(c) \/ Unlock(c)
        PROVE  TypeOK'
    <2>1. CASE CallDestroy(c)
      BY <2>1 DEF CallDestroy
    <2>2. CASE QueueLock(c)
      BY <2>2 DEF QueueLock
    <2>3. CASE QueueGiveEvent(c)
      BY <2>3 DEF QueueGiveEvent
    <2>4. CASE Unlock(c)
      BY <2>4 DEF Unlock
    <2> QED
      BY <1>3, <2>1, <2>2, <2>3, <2>4
  <1>4. ASSUME NEW c \in Callers, Enqueue(c) PROVE TypeOK'
    <2>1. item[c] \in Items
      BY <1>4 DEF Enqueue, ItemInv
    <2>2. queue' \in Seq(Items) /\ accepted' \in Seq(Items)
      BY <1>4, <2>1, AppendProperties DEF Enqueue
    <2> QED
      BY <1>4, <2>2 DEF Enqueue
  <1>5. ASSUME NEW c \in Callers, Destroying(c) PROVE TypeOK'
    <2>1. CASE DestroyLock(c)
      BY <2>1 DEF DestroyLock
    <2>2. CASE DestroyFlag(c)
      BY <2>2 DEF DestroyFlag
    <2>3. CASE DestroyGiveEvent(c)
      BY <2>3 DEF DestroyGiveEvent
    <2> QED
      BY <1>5, <2>1, <2>2, <2>3 DEF Destroying
  <1>6. CASE WorkerDequeue
    <2>1. Head(queue) \in Items /\ Tail(queue) \in Seq(Items)
      BY <1>6, HeadTailProperties DEF WorkerDequeue
    <2> QED
      BY <1>6, <2>1 DEF WorkerDequeue
  <1>7. CASE WorkerCall
    <2>1. current \in Items
      BY <1>7 DEF WorkerCall, ItemInv
    <2>2. ran' \in Seq(Items)
      BY <1>7, <2>1, AppendProperties DEF WorkerCall
    <2> QED
      BY <1>7, <2>2 DEF WorkerCall
  <1>8. CASE WorkerDrain
    <2>1. <<>> \in Seq(Items)
      BY EmptySeq
    <2> QED
      BY <1>8, <2>1 DEF WorkerDrain
  <1>9. CASE \/ WorkerWait \/ WorkerLock \/ WorkerReadFlag \/ WorkerUnlock \/ WorkerFree
             \/ WorkerCleanLock \/ WorkerCleanUnlock \/ WorkerDelete
    <2>1. CASE WorkerWait \/ WorkerLock
      BY <2>1 DEF WorkerWait, WorkerLock
    <2>2. CASE WorkerReadFlag \/ WorkerUnlock
      BY <2>2 DEF WorkerReadFlag, WorkerUnlock
    <2>3. CASE WorkerFree
      BY <2>3 DEF WorkerFree
    <2>4. CASE WorkerCleanLock \/ WorkerCleanUnlock \/ WorkerDelete
      BY <2>4 DEF WorkerCleanLock, WorkerCleanUnlock, WorkerDelete, DeleteStep
    <2> QED
      BY <1>9, <2>1, <2>2, <2>3, <2>4
  <1> QED
    BY <1>1, <1>2, <1>3, <1>4, <1>5, <1>6, <1>7, <1>8, <1>9
    DEF Next, CallGoesOn, Queueing, WorkerGoesOn

\* Every step keeps the mutex with one holder.
LEMMA StepMutexInv ==
  ASSUME QueueInv, Next
  PROVE  MutexInv'
  <1> USE ConstantsAssumption DEF QueueInv, TypeOK, MutexInv, HasLock, Callers, Goto,
              createVars, callVars, workerVars
  <1>1. CASE CreateNext \/ CreateFails \/ CreateUndo
    BY <1>1 DEF CreateNext, CreateFails, CreateUndo, UndoStep, CreateInv
  <1>2. ASSUME NEW c \in Callers, AllocItem(c) \/ CallDestroy(c) PROVE MutexInv'
    BY <1>2 DEF AllocItem, CallDestroy, MayCall
  <1>3. ASSUME NEW c \in Callers, QueueLock(c) \/ DestroyLock(c) PROVE MutexInv'
    BY <1>3 DEF QueueLock, DestroyLock
  <1>4. ASSUME NEW c \in Callers,
               Enqueue(c) \/ QueueGiveEvent(c) \/ DestroyFlag(c) \/ DestroyGiveEvent(c)
        PROVE  MutexInv'
    BY <1>4 DEF Enqueue, QueueGiveEvent, DestroyFlag, DestroyGiveEvent
  <1>5. ASSUME NEW c \in Callers, Unlock(c) PROVE MutexInv'
    BY <1>5 DEF Unlock
  <1>6. CASE WorkerLock \/ WorkerCleanLock
    BY <1>6 DEF WorkerLock, WorkerCleanLock
  <1>7. CASE WorkerUnlock \/ WorkerCleanUnlock
    BY <1>7 DEF WorkerUnlock, WorkerCleanUnlock
  <1>8. CASE \/ WorkerWait \/ WorkerDequeue \/ WorkerReadFlag \/ WorkerCall
             \/ WorkerFree \/ WorkerDrain \/ WorkerDelete
    BY <1>8 DEF WorkerWait, WorkerDequeue, WorkerReadFlag, WorkerCall, WorkerFree,
                WorkerDrain, WorkerDelete, DeleteStep
  <1> QED
    BY <1>1, <1>2, <1>3, <1>4, <1>5, <1>6, <1>7, <1>8
    DEF Next, CallGoesOn, Queueing, Destroying, WorkerGoesOn

\* Nothing happens before the queue was made, and it is made once.
LEMMA StepCreateInv ==
  ASSUME QueueInv, Next
  PROVE  CreateInv'
  <1> USE ConstantsAssumption DEF QueueInv, TypeOK, CreateInv, Callers, createVars, callVars,
              workerVars
  <1>1. CASE CreateNext
    <2>1. createPc' = "made" <=> createPc = "task"
      BY <1>1, Resources DEF CreateNext
    <2>2. createPc # "made"
      BY <1>1, Resources DEF CreateNext
    <2> QED
      BY <1>1, <2>1, <2>2 DEF CreateNext
  <1>2. CASE CreateFails \/ CreateUndo
    BY <1>2, Resources DEF CreateFails, CreateUndo, UndoStep
  <1>3. ASSUME NEW c \in Callers, AllocItem(c) \/ CallDestroy(c) \/ CallGoesOn(c)
        PROVE  CreateInv'
    <2>1. createPc = "made" /\ createPc' = createPc /\ workerPc' = workerPc
      BY <1>3 DEF AllocItem, CallDestroy, MayCall, CallGoesOn, Queueing, QueueLock,
          Enqueue, QueueGiveEvent, Destroying, DestroyLock, DestroyFlag, DestroyGiveEvent, Unlock
    <2> QED
      BY <2>1
  <1>4. CASE WorkerGoesOn
    <2>1. createPc' = createPc /\ workerPc # "none" /\ workerPc' # "none"
      BY <1>4 DEF WorkerGoesOn, WorkerWait, WorkerLock, WorkerDequeue, WorkerReadFlag,
          WorkerUnlock, WorkerCall, WorkerFree, WorkerCleanLock, WorkerDrain,
          WorkerCleanUnlock, WorkerDelete, DeleteStep
    <2> QED
      BY <2>1
  <1> QED
    BY <1>1, <1>2, <1>3, <1>4 DEF Next

\* No step leaves the worker asleep with nobody to wake it.
LEMMA StepWakeupInv ==
  ASSUME QueueInv, Next
  PROVE  WakeupInv'
  <1> USE ConstantsAssumption DEF QueueInv, TypeOK, WakeupInv, Callers, Goto, createVars,
              callVars, workerVars
  <1>1. CASE CreateNext \/ CreateFails \/ CreateUndo
    BY <1>1, Resources DEF CreateNext, CreateFails, CreateUndo, UndoStep, CreateInv, DestroyInv
  <1>2. ASSUME NEW c \in Callers, AllocItem(c) \/ CallDestroy(c) \/ QueueLock(c)
                                  \/ DestroyLock(c) \/ Unlock(c)
        PROVE  WakeupInv'
    <2>1. pc[c] \notin {"q_event", "d_event"} /\ UNCHANGED <<workerPc, queue, exitThread, event>>
      BY <1>2 DEF AllocItem, CallDestroy, MayCall, QueueLock, DestroyLock, Unlock
    <2>2. \A d \in Callers : d # c => pc'[d] = pc[d]
      BY <1>2 DEF AllocItem, CallDestroy, QueueLock, DestroyLock, Unlock
    <2> QED
      BY <2>1, <2>2
  <1>3. ASSUME NEW c \in Callers, Enqueue(c) \/ DestroyFlag(c) PROVE WakeupInv'
    <2>1. pc'[c] \in {"q_event", "d_event"}
      BY <1>3 DEF Enqueue, DestroyFlag
    <2> QED
      BY <2>1
  <1>4. ASSUME NEW c \in Callers, QueueGiveEvent(c) \/ DestroyGiveEvent(c) PROVE WakeupInv'
    BY <1>4 DEF QueueGiveEvent, DestroyGiveEvent
  <1>5. CASE WorkerUnlock
    BY <1>5 DEF WorkerUnlock, LeaveInv
  <1>6. CASE WorkerGoesOn /\ ~WorkerUnlock
    <2>1. workerPc' # "wait"
      BY <1>6 DEF WorkerGoesOn, WorkerWait, WorkerLock, WorkerDequeue, WorkerReadFlag,
          WorkerCall, WorkerFree, WorkerCleanLock, WorkerDrain, WorkerCleanUnlock, WorkerDelete, DeleteStep
    <2> QED
      BY <2>1
  <1> QED
    BY <1>1, <1>2, <1>3, <1>4, <1>5, <1>6
    DEF Next, CallGoesOn, Queueing, Destroying

\* Every step keeps to one call of DestroyWorkQueue.
LEMMA StepDestroyInv ==
  ASSUME QueueInv, Next
  PROVE  DestroyInv'
  <1> USE ConstantsAssumption DEF QueueInv, TypeOK, DestroyInv, Callers, Goto, createVars,
              callVars, workerVars
  <1>1. CASE CreateNext \/ CreateFails \/ CreateUndo
    BY <1>1 DEF CreateNext, CreateFails, CreateUndo, UndoStep
  <1>2. ASSUME NEW c \in Callers, AllocItem(c) PROVE DestroyInv'
    BY <1>2 DEF AllocItem, MayCall
  <1>3. ASSUME NEW c \in Callers, CallDestroy(c) PROVE DestroyInv'
    BY <1>3 DEF CallDestroy, MayCall
  <1>4. ASSUME NEW c \in Callers, QueueLock(c) \/ Enqueue(c) \/ QueueGiveEvent(c) \/ Unlock(c)
        PROVE  DestroyInv'
    BY <1>4 DEF QueueLock, Enqueue, QueueGiveEvent, Unlock
  <1>5. ASSUME NEW c \in Callers, DestroyLock(c) PROVE DestroyInv'
    BY <1>5 DEF DestroyLock
  <1>6. ASSUME NEW c \in Callers, DestroyFlag(c) PROVE DestroyInv'
    BY <1>6 DEF DestroyFlag
  <1>7. ASSUME NEW c \in Callers, DestroyGiveEvent(c) PROVE DestroyInv'
    BY <1>7 DEF DestroyGiveEvent
  <1>8. CASE WorkerGoesOn
    <2>1. UNCHANGED <<pc, destroyed, exitThread>>
      BY <1>8 DEF WorkerGoesOn, WorkerWait, WorkerLock, WorkerDequeue, WorkerReadFlag,
          WorkerUnlock, WorkerCall, WorkerFree, WorkerCleanLock, WorkerDrain,
          WorkerCleanUnlock, WorkerDelete, DeleteStep
    <2> QED
      BY <2>1
  <1> QED
    BY <1>1, <1>2, <1>3, <1>4, <1>5, <1>6, <1>7, <1>8
    DEF Next, CallGoesOn, Queueing, Destroying

\* What the worker saw stays so while it has the lock, and when it leaves the
\* queue is its own.
LEMMA StepLeaveInv ==
  ASSUME QueueInv, Next
  PROVE  LeaveInv'
  <1> USE ConstantsAssumption DEF QueueInv, TypeOK, LeaveInv, WorkerLeaves, Ending, Callers, Goto,
              createVars, callVars, workerVars
  <1>1. CASE CreateNext \/ CreateFails \/ CreateUndo
    BY <1>1, Resources DEF CreateNext, CreateFails, CreateUndo, UndoStep, CreateInv
  <1>2. ASSUME NEW c \in Callers, AllocItem(c) \/ CallDestroy(c)
        PROVE  LeaveInv'
    <2>1. UNCHANGED <<queue, leaving, workerPc, current, exitThread>>
      BY <1>2 DEF AllocItem, CallDestroy
    <2>2. ~(DestroyWaits /\ WorkerLeaves)
      BY <1>2 DEF AllocItem, CallDestroy, MayCall, DestroyInv
    <2> QED
      BY <2>1, <2>2
  <1>3. ASSUME NEW c \in Callers, QueueLock(c) \/ QueueGiveEvent(c) \/ Unlock(c) \/ DestroyLock(c)
                                  \/ DestroyGiveEvent(c)
        PROVE  LeaveInv'
    <2>1. UNCHANGED <<queue, leaving, workerPc, current, exitThread>> /\ pc[c] # "out"
      BY <1>3 DEF QueueLock, QueueGiveEvent, Unlock, DestroyLock, DestroyGiveEvent
    <2> QED
      BY <2>1
  <1>4. ASSUME NEW c \in Callers, Enqueue(c) \/ DestroyFlag(c)
        PROVE  LeaveInv'
    <2>1. /\ UNCHANGED <<leaving, workerPc, current>> /\ pc[c] # "out"
          /\ pc[c] \in {"q_enqueue", "d_flag"} /\ (exitThread' = exitThread \/ exitThread')
      BY <1>4 DEF Enqueue, DestroyFlag
    <2>2. workerPc # "give"
      BY <2>1 DEF MutexInv, HasLock
    <2> QED
      BY <2>1, <2>2
  <1>5. CASE WorkerReadFlag
    <2>1. current = NoItem /\ queue = <<>> /\ lock = Worker
      BY <1>5 DEF WorkerReadFlag, ItemInv, MutexInv, HasLock
    <2>2. ASSUME DestroyWaits, exitThread, NEW c \in Callers PROVE pc[c] = "out"
      <3>1. CASE c = Worker
        BY <1>5, <3>1 DEF WorkerReadFlag, MutexInv
      <3>2. CASE c \in Clients
        <4>1. pc[c] \notin {"q_enqueue", "q_event", "unlock", "d_flag", "d_event"}
          BY <2>1, <3>2 DEF MutexInv, HasLock
        <4>2. pc[c] \notin {"q_lock", "d_lock"}
          BY <2>2, <3>2 DEF DestroyInv
        <4> QED
          BY <3>2, <4>1, <4>2
      <3> QED
        BY <3>1, <3>2
    <2> QED
      BY <1>5, <2>1, <2>2 DEF WorkerReadFlag
  <1>6. CASE WorkerDequeue
    <2>1. Head(queue) \in Items
      BY <1>6, HeadTailProperties DEF WorkerDequeue
    <2>2. current' # NoItem /\ workerPc' = "give"
      BY <1>6, <2>1 DEF WorkerDequeue, Items, NoItem
    <2> QED
      BY <2>2
  <1>7. CASE WorkerUnlock
    BY <1>7 DEF WorkerUnlock
  <1>8. CASE WorkerWait \/ WorkerLock \/ WorkerCall \/ WorkerFree
    BY <1>8 DEF WorkerWait, WorkerLock, WorkerCall, WorkerFree
  <1>9. CASE WorkerCleanLock \/ WorkerDrain \/ WorkerCleanUnlock \/ WorkerDelete
    BY <1>9 DEF WorkerCleanLock, WorkerDrain, WorkerCleanUnlock, WorkerDelete, DeleteStep
  <1> QED
    BY <1>1, <1>2, <1>3, <1>4, <1>5, <1>6, <1>7, <1>8, <1>9
    DEF Next, CallGoesOn, Queueing, Destroying, WorkerGoesOn

\* Every step keeps who has an item at which point.
LEMMA StepItemInv ==
  ASSUME QueueInv, Next
  PROVE  ItemInv'
  <1> USE ConstantsAssumption DEF QueueInv, TypeOK, ItemInv, Callers, Goto, NoItem, Items,
              createVars, callVars, workerVars
  <1>1. CASE CreateNext \/ CreateFails \/ CreateUndo
    BY <1>1, Resources DEF CreateNext, CreateFails, CreateUndo, UndoStep, CreateInv
  <1>2. ASSUME NEW c \in Callers, AllocItem(c) PROVE ItemInv'
    BY <1>2 DEF AllocItem, MayCall
  <1>3. ASSUME NEW c \in Callers, Enqueue(c) PROVE ItemInv'
    BY <1>3 DEF Enqueue
  <1>4. ASSUME NEW c \in Callers, CallDestroy(c) \/ QueueLock(c) \/ QueueGiveEvent(c)
                                  \/ Unlock(c) \/ Destroying(c)
        PROVE  ItemInv'
    <2>1. CASE CallDestroy(c) \/ QueueLock(c) \/ QueueGiveEvent(c) \/ Unlock(c)
      BY <2>1 DEF CallDestroy, MayCall, QueueLock, QueueGiveEvent, Unlock
    <2>2. CASE Destroying(c)
      BY <2>2 DEF Destroying, DestroyLock, DestroyFlag, DestroyGiveEvent
    <2> QED
      BY <1>4, <2>1, <2>2
  <1>5. CASE WorkerDequeue
    BY <1>5 DEF WorkerDequeue
  <1>6. CASE WorkerUnlock \/ WorkerCall \/ WorkerFree
    BY <1>6 DEF WorkerUnlock, WorkerCall, WorkerFree
  <1>7. CASE \/ WorkerWait \/ WorkerLock \/ WorkerReadFlag \/ WorkerCleanLock
             \/ WorkerDrain \/ WorkerCleanUnlock \/ WorkerDelete
    BY <1>7 DEF WorkerWait, WorkerLock, WorkerReadFlag, WorkerCleanLock, WorkerDrain,
                WorkerCleanUnlock, WorkerDelete, DeleteStep
  <1> QED
    BY <1>1, <1>2, <1>3, <1>4, <1>5, <1>6, <1>7
    DEF Next, CallGoesOn, Queueing, WorkerGoesOn

\* Every step hands an item from one owner to the next.
LEMMA StepItemOwnership ==
  ASSUME QueueInv, Next
  PROVE  ItemOwnership'
  <1>1. ASSUME UNCHANGED <<item, live, queue, current>> PROVE ItemOwnership'
    BY <1>1 DEF QueueInv, ItemOwnership
  <1> USE ConstantsAssumption DEF QueueInv, TypeOK, ItemOwnership, Callers, NoItem, Items,
              createVars, callVars, workerVars
  <1>2. ASSUME NEW c \in Callers, AllocItem(c) PROVE ItemOwnership'
    <2>1. /\ made' = made + 1 /\ live' = live \cup {made'} /\ made' \in Items
          /\ item' = [item EXCEPT ![c] = made'] /\ UNCHANGED <<queue, current>>
          /\ item[c] = NoItem
      <3>1. pc[c] = "out" /\ made < MaxItems
        BY <1>2 DEF AllocItem, MayCall
      <3>2. made + 1 \in Items
        BY <3>1
      <3>3. item[c] = NoItem
        BY <3>1 DEF ItemInv
      <3> QED
        BY <1>2, <3>2, <3>3 DEF AllocItem
    <2>2. made' \notin live
      BY <2>1 DEF ItemInv
    <2>3. /\ \A d \in Callers : item[d] # made'
          /\ made' \notin Range(queue) /\ made' # current
      BY <2>1, <2>2
    <2>4. \A i \in Items : (\E d \in Callers : item'[d] = i) <=> (\E d \in Callers : item[d] = i) \/ i = made'
      BY <2>1
    <2>5. \A i \in Items : i \in live' <=>
            (\E d \in Callers : item'[d] = i) \/ i \in Range(queue') \/ i = current'
      BY <2>1, <2>4
    <2>6. \A d \in Callers : item'[d] # NoItem =>
            /\ item'[d] \notin Range(queue') /\ item'[d] # current'
            /\ \A e \in Callers : item'[d] = item'[e] => d = e
      BY <2>1, <2>3
    <2>7. IsInjective(queue') /\ current' \notin Range(queue')
      BY <2>1
    <2> QED
      BY <2>5, <2>6, <2>7
  <1>3. ASSUME NEW c \in Callers, Enqueue(c) PROVE ItemOwnership'
    <2>1. /\ item' = [item EXCEPT ![c] = NoItem] /\ UNCHANGED <<live, current>>
          /\ queue' = Append(queue, item[c]) /\ item[c] \in Items
      BY <1>3 DEF Enqueue, ItemInv
    <2>2. Range(queue') = Range(queue) \cup {item[c]} /\ IsInjective(queue')
      <3>1. item[c] # NoItem
        BY <2>1
      <3>2. item[c] \notin Range(queue) /\ IsInjective(queue) /\ queue \in Seq(Items)
        BY <3>1
      <3> HIDE DEF Items
      <3> QED
        BY <2>1, <3>2, AppendElement
    <2>3. \A i \in Items : (\E d \in Callers : item[d] = i) <=> (\E d \in Callers : item'[d] = i) \/ i = item[c]
      BY <2>1
    <2> QED
      BY <2>1, <2>2, <2>3
  <1>4. CASE WorkerDequeue
    <2>1. /\ queue # <<>> /\ current' = Head(queue) /\ queue' = Tail(queue)
          /\ UNCHANGED <<live, item>> /\ current = NoItem
      BY <1>4 DEF WorkerDequeue, ItemInv
    <2>2. /\ Head(queue) \in Items /\ Range(queue) = Range(queue') \cup {current'}
          /\ IsInjective(queue') /\ current' \notin Range(queue')
      BY <2>1, TakeHead
    <2> QED
      BY <2>1, <2>2
  <1>5. CASE WorkerFree
    <2>1. /\ current \in Items /\ live' = live \ {current} /\ current' = NoItem
          /\ UNCHANGED <<queue, item>>
      BY <1>5 DEF WorkerFree, ItemInv
    <2>2. Range(queue) \subseteq Items
      BY RangeOfSeq
    <2> QED
      BY <2>1, <2>2
  <1>6. CASE WorkerDrain
    <2>1. /\ live' = live \ Range(queue) /\ queue' = <<>>
          /\ UNCHANGED <<current, item>> /\ current = NoItem
      BY <1>6 DEF WorkerDrain, ItemInv
    <2> QED
      BY <2>1, EmptyQueue
  <1>7. CASE \/ CreateNext \/ CreateFails \/ CreateUndo
             \/ (WorkerGoesOn /\ ~WorkerDequeue /\ ~WorkerFree /\ ~WorkerDrain)
    <2>1. UNCHANGED <<item, live, queue, current>>
      BY <1>7 DEF CreateNext, CreateFails, CreateUndo, UndoStep, WorkerGoesOn, WorkerWait, WorkerLock, WorkerReadFlag,
          WorkerUnlock, WorkerCall, WorkerCleanLock, WorkerCleanUnlock, WorkerDelete, DeleteStep
    <2> QED
      BY <1>1, <2>1
  <1>8. ASSUME NEW c \in Callers, CallDestroy(c) \/ QueueLock(c) \/ QueueGiveEvent(c)
                                  \/ Unlock(c) \/ Destroying(c)
        PROVE  ItemOwnership'
    <2>1. UNCHANGED <<item, live, queue, current>>
      BY <1>8 DEF CallDestroy, QueueLock, QueueGiveEvent, Unlock, Destroying,
          DestroyLock, DestroyFlag, DestroyGiveEvent
    <2> QED
      BY <1>1, <2>1
  <1> QED
    BY <1>2, <1>3, <1>4, <1>5, <1>6, <1>7, <1>8
    DEF Next, CallGoesOn, Queueing

\* Every step obtains or frees what the program counters say.
LEMMA StepHaveInv ==
  ASSUME QueueInv, Next
  PROVE  HaveInv'
  <1>1. ASSUME UNCHANGED <<have, createPc>>, Deleted(workerPc') = Deleted(workerPc)
        PROVE  HaveInv'
    BY <1>1 DEF HaveInv, QueueInv
  <1> USE DEF HaveInv, Deleted
  <1>2. createPc # "made" => workerPc = "none"
    BY DEF QueueInv, CreateInv
  <1>3. have = Obtained[createPc] \ Deleted(workerPc)
    BY DEF QueueInv
  <1>4. CASE CreateNext
    <2>1. createPc \in {"struct", "event", "lock", "task"} /\ workerPc = "none"
      BY <1>2, <1>4, Resources DEF CreateNext
    <2>2. Deleted(workerPc) = {} /\ Deleted(workerPc') = {}
      BY <1>4, <2>1 DEF CreateNext
    <2>3. have = Obtained[createPc] /\ have' = Obtained[createPc] \cup {createPc}
      BY <1>3, <1>4, <2>2 DEF CreateNext
    <2>4. have' = Obtained[createPc']
      BY <1>4, <2>1, <2>3, Resources, ObtainedAt DEF CreateNext
    <2> QED
      BY <2>2, <2>4
  <1>5. CASE CreateFails
    <2>1. createPc \in {"struct", "event", "lock", "task"} /\ createPc' = Undo[createPc]
          /\ UNCHANGED <<have, workerPc>>
      BY <1>5, Resources DEF CreateFails, workerVars
    <2>2. Obtained[createPc'] = Obtained[createPc]
      BY <2>1, Resources, ObtainedAt
    <2> QED
      BY <1>3, <2>1, <2>2
  <1>6. CASE CreateUndo
    <2>1. UNCHANGED workerPc /\ workerPc = "none"
      BY <1>2, <1>6 DEF CreateUndo, UndoStep, workerVars
    <2>2. have = Obtained[createPc]
      BY <1>3, <2>1
    <2>3. have' = Obtained[createPc']
      BY <1>6, <2>2, ObtainedAt DEF CreateUndo, UndoStep
    <2> QED
      BY <2>1, <2>3
  <1>7. CASE WorkerDelete
    <2>1. createPc' = createPc /\ createPc = "made"
      BY <1>2, <1>7 DEF WorkerDelete, DeleteStep
    <2>2. Obtained[createPc] = {"struct", "event", "lock", "task"}
      BY <2>1, ObtainedAt
    <2> QED
      BY <1>3, <1>7, <2>1, <2>2, ObtainedAt DEF WorkerDelete, DeleteStep
  <1>8. CASE WorkerGoesOn /\ ~WorkerDelete
    <2>1. /\ UNCHANGED <<have, createPc>>
          /\ workerPc \notin Ending /\ workerPc' \notin Ending \ {"delete_lock"}
      BY <1>8 DEF Ending, WorkerGoesOn, WorkerWait, WorkerLock, WorkerDequeue, WorkerReadFlag,
          WorkerUnlock, WorkerCall, WorkerFree, WorkerCleanLock, WorkerDrain,
          WorkerCleanUnlock, createVars
    <2>2. Deleted(workerPc') = Deleted(workerPc)
      BY <2>1 DEF Ending
    <2> QED
      BY <1>1, <2>1, <2>2
  <1>9. ASSUME NEW c \in Callers, AllocItem(c) \/ CallDestroy(c) \/ CallGoesOn(c)
        PROVE  HaveInv'
    <2>1. UNCHANGED <<createPc, have, workerPc>>
      BY <1>9 DEF AllocItem, CallDestroy, CallGoesOn, Queueing, QueueLock, Enqueue,
          QueueGiveEvent, Destroying, DestroyLock, DestroyFlag, DestroyGiveEvent, Unlock,
          createVars, workerVars
    <2> QED
      BY <1>1, <2>1
  <1> QED
    BY <1>4, <1>5, <1>6, <1>7, <1>8, <1>9 DEF Next

-----------------------------------------------------------------------------
\* QueueInv is an invariant of the work queue (workqueue.c:99-385), whether or
\* not the clients keep the discipline of DestroyWaits.
THEOREM Invariance == Spec => []QueueInv
  <1>1. QueueInv /\ [Next]_vars => QueueInv'
    <2> SUFFICES ASSUME QueueInv, [Next]_vars PROVE QueueInv'
      OBVIOUS
    <2>1. CASE UNCHANGED vars
      BY <2>1 DEF vars, createVars, callVars, workerVars, QueueInv, TypeOK, MutexInv, HasLock,
         CreateInv, HaveInv, WakeupInv, DestroyInv, LeaveInv, WorkerLeaves, Ending, ItemInv, ItemOwnership
    <2>2. CASE Next
      BY <2>2, StepTypeOK, StepMutexInv, StepCreateInv, StepHaveInv, StepWakeupInv, StepDestroyInv,
         StepLeaveInv, StepItemInv, StepItemOwnership DEF QueueInv
    <2> QED
      BY <2>1, <2>2
  <1> QED
    BY <1>1, InitQueueInv, PTL DEF Spec

\* No wakeup is lost: work is never queued, nor the exit flag set, behind the
\* back of a sleeping worker that nobody will wake.
THEOREM WorkerIsWoken == Spec => []NoLostWakeup
  <1>1. QueueInv => NoLostWakeup
    BY ConstantsAssumption
    DEF QueueInv, TypeOK, MutexInv, HasLock, WakeupInv, NoLostWakeup, Callers
  <1> QED
    BY <1>1, Invariance, PTL

\* Every item has one owner from its allocation to the call of free.
THEOREM OneOwner == Spec => []ItemOwnership
  <1>1. QueueInv => ItemOwnership
    BY DEF QueueInv
  <1> QED
    BY <1>1, Invariance, PTL

\* While something is deleted and the clients keep the discipline, nobody else is
\* inside a call of the queue.
LEMMA DeletedAlone ==
  ASSUME QueueInv, DestroyWaits, NEW c \in Callers, pc[c] # "out"
  PROVE  Intact
  <1>1. createPc = "made"
    BY DEF QueueInv, CreateInv
  <1>2. workerPc \notin Ending
    BY DEF QueueInv, LeaveInv, WorkerLeaves
  <1>3. Deleted(workerPc) = {}
    BY <1>2 DEF Deleted, Ending
  <1>4. have = Obtained[createPc]
    BY <1>3 DEF QueueInv, HaveInv
  <1> QED
    BY <1>1, <1>4, ObtainedAt DEF Intact

\* When the clients keep the discipline, nobody is inside a call of the queue
\* once the worker has begun to delete it.
THEOREM NobodyLeftBehind == Spec => [](DestroyWaits => NoUseAfterDelete)
  <1>1. QueueInv => (DestroyWaits => NoUseAfterDelete)
    BY DeletedAlone DEF NoUseAfterDelete
  <1> QED
    BY <1>1, Invariance, PTL

\* Every step keeps what was accepted equal to what ran and what is to run, in
\* that order, provided the cleanup finds the queue empty.
LEMMA StepRunsInOrder ==
  ASSUME QueueInv, Next, DestroyWaits, RunsInOrder
  PROVE  RunsInOrder'
  <1> USE DEF Callers
  <1>0. /\ queue \in Seq(Items) /\ ran \in Seq(Items) /\ accepted \in Seq(Items)
        /\ Taken \in Seq(Items) /\ <<>> \in Seq(Items)
        /\ ToRun = Taken \o queue /\ ToRun \in Seq(Items)
    <2>1. queue \in Seq(Items) /\ ran \in Seq(Items) /\ accepted \in Seq(Items)
      BY DEF QueueInv, TypeOK
    <2>2. current # NoItem => current \in Items
      BY DEF QueueInv, TypeOK
    <2>3. Taken \in Seq(Items) /\ <<>> \in Seq(Items)
      BY <2>2, EmptySeq DEF Taken
    <2>4. Taken \o queue \in Seq(Items)
      BY <2>1, <2>3, ConcatProperties
    <2> QED
      BY <2>1, <2>3, <2>4 DEF ToRun
  <1>9. \A s, t, u \in Seq(Items) : (s \o t) \o u = s \o (t \o u)
    BY ConcatAssociative
  <1>1. ASSUME UNCHANGED <<accepted, ran, ToRun>> PROVE RunsInOrder'
    BY <1>1 DEF RunsInOrder
  <1>2. ASSUME NEW c \in Callers, Enqueue(c) PROVE RunsInOrder'
    <2>1. /\ item[c] \in Items /\ queue' = Append(queue, item[c]) /\ accepted' = Append(accepted, item[c])
          /\ UNCHANGED <<ran, current, workerPc>>
      BY <1>2 DEF Enqueue, QueueInv, TypeOK, ItemInv, workerVars
    <2>2. PICK e \in Seq(Items) : queue' = queue \o e /\ accepted' = accepted \o e
      <3>1. queue' = queue \o <<item[c]>> /\ accepted' = accepted \o <<item[c]>>
        BY <1>0, <2>1, AppendIsConcat
      <3>2. <<item[c]>> \in Seq(Items)
        BY <2>1
      <3> QED
        BY <3>1, <3>2
    <2>3. ToRun' = Taken \o (queue \o e)
      BY <2>1, <2>2 DEF ToRun, Taken
    <2>4. (Taken \o queue) \o e = Taken \o (queue \o e)
      <3>1. e \in Seq(Items) /\ Taken \in Seq(Items) /\ queue \in Seq(Items)
        BY <1>0, <2>2
      <3> QED
        BY <1>9, <3>1
    <2>5. (ran \o ToRun) \o e = ran \o (ToRun \o e)
      <3>1. e \in Seq(Items) /\ ToRun \in Seq(Items) /\ ran \in Seq(Items)
        BY <1>0, <2>2
      <3> QED
        BY <1>9, <3>1
    <2> QED
      BY <1>0, <2>1, <2>2, <2>3, <2>4, <2>5 DEF RunsInOrder
  <1>3. CASE WorkerDequeue
    <2>1. /\ queue # <<>> /\ current = NoItem /\ current' = Head(queue) /\ queue' = Tail(queue)
          /\ workerPc' = "give" /\ UNCHANGED <<accepted, ran>>
      BY <1>3 DEF WorkerDequeue, QueueInv, ItemInv, callVars
    <2>2. Head(queue) \in Items
      BY <1>0, <2>1, HeadTailProperties
    <2>3. Head(queue) # NoItem
      BY <2>2 DEF Items, NoItem
    <2>4. ToRun' = <<Head(queue)>> \o Tail(queue)
      BY <2>1, <2>3 DEF ToRun, Taken
    <2>5. ToRun = queue
      BY <1>0, <2>1, ConcatEmptySeq DEF ToRun, Taken
    <2> QED
      BY <1>0, <1>1, <2>1, <2>4, <2>5, HeadAndTail
  <1>4. CASE WorkerCall
    <2>1. /\ workerPc = "call" /\ current # NoItem /\ ran' = Append(ran, current)
          /\ workerPc' = "function" /\ UNCHANGED <<current, queue, accepted>>
      BY <1>4 DEF WorkerCall, QueueInv, ItemInv, callVars
    <2>2. current \in Items
      BY <2>1 DEF QueueInv, TypeOK
    <2>3. Taken = <<current>>
      BY <2>1 DEF Taken
    <2>4. ToRun' = queue
      BY <1>0, <2>1, ConcatEmptySeq DEF ToRun, Taken
    <2>5. ran' = ran \o Taken
      BY <1>0, <2>1, <2>2, <2>3, AppendIsConcat
    <2>6. ran \o ToRun = (ran \o Taken) \o queue
      <3>1. queue \in Seq(Items) /\ Taken \in Seq(Items) /\ ran \in Seq(Items)
        BY <1>0
      <3>2. (ran \o Taken) \o queue = ran \o (Taken \o queue)
        BY <1>9, <3>1
      <3> QED
        BY <1>0, <3>2
    <2> QED
      BY <2>1, <2>4, <2>5, <2>6 DEF RunsInOrder
  <1>5. CASE WorkerDrain
    <2>1. queue = <<>> /\ queue' = <<>> /\ UNCHANGED <<accepted, ran, current>> /\ current = NoItem
      BY <1>5 DEF WorkerDrain, QueueInv, LeaveInv, WorkerLeaves, Ending, ItemInv, callVars
    <2>2. ToRun' = ToRun
      BY <2>1 DEF ToRun, Taken
    <2> QED
      BY <1>1, <2>1, <2>2
  <1>6. CASE WorkerFree
    <2>1. /\ workerPc = "function" /\ current' = NoItem /\ UNCHANGED <<queue, accepted, ran>>
      BY <1>6 DEF WorkerFree, callVars
    <2>2. ToRun' = ToRun
      BY <2>1 DEF ToRun, Taken
    <2> QED
      BY <1>1, <2>1, <2>2
  <1>7. CASE \/ CreateNext \/ CreateFails \/ CreateUndo
             \/ (WorkerGoesOn /\ ~WorkerDequeue /\ ~WorkerCall /\ ~WorkerDrain /\ ~WorkerFree)
    <2>1. /\ UNCHANGED <<accepted, ran, queue, current>>
          /\ current # NoItem => workerPc # "function" /\ workerPc' # "function"
      BY <1>7, Resources
      DEF QueueInv, ItemInv, CreateInv, TypeOK, callVars, CreateNext, CreateFails, CreateUndo,
          UndoStep, WorkerGoesOn,
          WorkerWait,
          WorkerLock, WorkerReadFlag, WorkerUnlock, WorkerCleanLock, WorkerCleanUnlock,
          WorkerDelete, DeleteStep, workerVars
    <2>2. ToRun' = ToRun
      BY <2>1 DEF ToRun, Taken
    <2> QED
      BY <1>1, <2>1, <2>2
  <1>8. ASSUME NEW c \in Callers, AllocItem(c) \/ CallDestroy(c) \/ QueueLock(c)
                                  \/ QueueGiveEvent(c) \/ Unlock(c) \/ Destroying(c)
        PROVE  RunsInOrder'
    <2>1. UNCHANGED <<accepted, ran, queue, current, workerPc>>
      BY <1>8 DEF AllocItem, CallDestroy, QueueLock, QueueGiveEvent, Unlock, Destroying,
          DestroyLock, DestroyFlag, DestroyGiveEvent, workerVars
    <2>2. ToRun' = ToRun
      BY <2>1 DEF ToRun, Taken
    <2> QED
      BY <1>1, <2>1, <2>2
  <1> QED
    BY <1>2, <1>3, <1>4, <1>5, <1>6, <1>7, <1>8 DEF Next, CallGoesOn, Queueing

\* When the clients keep the discipline, what QueueWorkItem accepted is run once
\* and in that order, or is still to be run.
THEOREM RunOnceInOrder == Spec => [](DestroyWaits => RunsInOrder)
  <1> DEFINE Inv == QueueInv /\ (DestroyWaits => RunsInOrder)
  <1>1. Init => Inv
    <2> SUFFICES ASSUME Init PROVE RunsInOrder
      BY InitQueueInv
    <2>1. ToRun = <<>>
      BY ConcatProperties, ConcatEmptySeq, EmptySeq DEF Init, ToRun, Taken
    <2> QED
      BY <2>1 DEF Init, RunsInOrder
  <1>2. Inv /\ QueueInv' /\ [Next]_vars => Inv'
    <2>1. RunsInOrder /\ UNCHANGED vars => RunsInOrder'
      BY DEF vars, callVars, workerVars, RunsInOrder, ToRun, Taken
    <2> QED
      BY <2>1, StepRunsInOrder
  <1> QED
    BY <1>1, <1>2, Invariance, PTL DEF Spec

\* A creation that failed leaves nothing behind, nor does a queue that was
\* destroyed while the clients kept the discipline; and no error path and no step
\* of the worker frees or uses what is not there.
THEOREM AllFreed == Spec => [](DestroyWaits => NothingLeftBehind)
  <1>1. ASSUME QueueInv PROVE /\ createPc = "failed" => have = {}
                              /\ createPc \in DOMAIN UndoFrees => UndoFrees[createPc] \in have
    <2>1. createPc # "made" => workerPc = "none"
      BY <1>1 DEF QueueInv, CreateInv
    <2>2. createPc # "made" => have = Obtained[createPc]
      BY <1>1, <2>1 DEF QueueInv, HaveInv, Deleted
    <2> QED
      BY <2>2, ObtainedAt DEF UndoFrees
  <1>2. ASSUME QueueInv PROVE /\ WorkerUses(workerPc) \subseteq have
                              /\ workerPc = "gone" => have = {}
    <2>1. CASE workerPc = "none"
      BY <2>1 DEF WorkerUses
    <2>2. CASE workerPc # "none"
      <3>1. have = {"struct", "event", "lock", "task"} \ Deleted(workerPc)
        BY <1>2, <2>2, ObtainedAt DEF QueueInv, CreateInv, HaveInv
      <3>2. workerPc \in {"wait", "lock", "check", "give", "call", "function", "clean_lock",
                         "drain", "clean_give"} \cup Ending
        BY <1>2, <2>2 DEF QueueInv, TypeOK, Ending
      <3> QED
        BY <3>1, <3>2 DEF WorkerUses, Deleted, Ending, Shared
    <2> QED
      BY <2>1, <2>2
  <1>3. ASSUME QueueInv, DestroyWaits, workerPc = "gone" PROVE queue = <<>> /\ live = {}
    <2>1. queue = <<>> /\ \A c \in Callers : pc[c] = "out"
      BY <1>3 DEF QueueInv, LeaveInv, WorkerLeaves, Ending
    <2>2. current = NoItem /\ \A c \in Callers : item[c] = NoItem
      BY <1>3, <2>1 DEF QueueInv, ItemInv
    <2>3. \A i \in Items : i \notin live
      BY <1>3, <2>1, <2>2, EmptyQueue DEF QueueInv, ItemOwnership, Items, NoItem
    <2> QED
      BY <1>3, <2>1, <2>3 DEF QueueInv, TypeOK
  <1>4. QueueInv => (DestroyWaits => NothingLeftBehind)
    BY <1>1, <1>2, <1>3 DEF NothingLeftBehind
  <1> QED
    BY <1>4, Invariance, PTL
=============================================================================
