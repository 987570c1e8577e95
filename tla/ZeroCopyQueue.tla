---------------------------- MODULE ZeroCopyQueue ----------------------------
(***************************************************************************)
(* The zero-copy queue (zero_copy_queue.c): a memory pool of ItemCount     *)
(* items and a kernel queue of ItemCount pointers.  A thread allocates an  *)
(* item, fills it and enqueues the pointer; the thread that dequeues it    *)
(* frees it, or enqueues it again.                                         *)
(***************************************************************************)
EXTENDS MemPool

VARIABLES queue,   \* the pointers in the kernel's queue
          length   \* its length

zcqVars == <<vars, queue, length>>

ZcqInit == Init /\ queue = <<>> /\ length = 0

\* Mutant: the queue is one item short.
ZcqCreateQueueShort(size, count, a, base) ==
  /\ CreateMemoryPool(size, count, a, base)
  /\ length' = count - 1 /\ UNCHANGED queue

\* When the queue or the pool cannot be made, what was made is freed and the caller
\* gets NULL: nothing changes.
ZcqCreateQueue(size, count, a, base) ==
  /\ CreateMemoryPool(size, count, a, base)
  /\ length' = count /\ UNCHANGED queue

ZcqAllocateItem(t) == MemoryPoolAllocate(t) /\ UNCHANGED <<queue, length>>

ZcqFreeItem(t, b) == MemoryPoolFree(t, b) /\ UNCHANGED <<queue, length>>

\* With no room within Timeout it returns 0 and the thread keeps the item.
ZcqEnqueueItem(t, b) ==
  /\ b \in held[t] /\ Len(queue) < length
  /\ queue' = Append(queue, b) /\ held' = [held EXCEPT ![t] = @ \ {b}]
  /\ UNCHANGED <<poolVars, pieces, free, adding, length>>

\* Without an item within Timeout it returns NULL.
ZcqDequeueItem(t) ==
  /\ queue # <<>>
  /\ held' = [held EXCEPT ![t] = @ \cup {Head(queue)}] /\ queue' = Tail(queue)
  /\ UNCHANGED <<poolVars, pieces, free, adding, length>>

ZcqNext ==
  \/ \E size \in Sizes, count \in Counts, a \in Alignments, base \in Bases :
       ZcqCreateQueue(size, count, a, base)
  \/ \E t \in Threads : \/ ZcqAllocateItem(t) \/ ZcqDequeueItem(t)
                        \/ \E b \in held[t] : ZcqFreeItem(t, b) \/ ZcqEnqueueItem(t, b)

ZcqSpec == ZcqInit /\ [][ZcqNext]_zcqVars

-----------------------------------------------------------------------------
\* An item is in the pool, in the queue or with one thread, and none gets lost on its
\* way from one thread to the other.  So the queue has room for every item a thread
\* has: enqueueing an item of the pool never waits.
Everywhere == Range(free) \cup Range(queue) \cup UNION {held[t] : t \in Threads}

NoItemIsLost ==
  /\ PoolInv /\ ~overran
  /\ IsInjective(queue) /\ Range(queue) \cap Range(free) = {}
  /\ \A t \in Threads : held[t] \cap Range(queue) = {}
  /\ made => Everywhere = Range(Carved(1, length))
  /\ \A t \in Threads : held[t] # {} => Len(queue) < length

\* What else makes it inductive: nobody adds memory, and what waits in the queue lies
\* inside the pool.
ZcqInv ==
  /\ NoItemIsLost
  /\ queue \in Seq(Blocks) /\ length \in Nat
  /\ \A t \in Threads : adding[t] = NotAdding
  /\ \A b \in Range(queue) : InPool(b)
  /\ ~made => queue = <<>>
=============================================================================
