------------------------------- MODULE MemPool -------------------------------
(***************************************************************************)
(* The memory pool (mem_pool.c): memory is carved into items of one size,  *)
(* which wait on a stack to be allocated.  A pool is created in memory of  *)
(* its own or of the caller, threads allocate and free items and add more  *)
(* memory.  An item is named by the piece of memory it lies in and its     *)
(* place there: its node is at address base + index * ItemSize, and what   *)
(* the caller gets is Alignment bytes further on.                          *)
(***************************************************************************)
EXTENDS Integers, Sequences, Functions

CONSTANTS Threads,
          Sizes, Counts, Alignments,  \* the arguments of the functions
          CreateMemory,  \* sizes of the callers' memory a pool is created in
          ExtraMemory,   \* sizes of the callers' memory that is added
          Bases,         \* addresses of memory from malloc
          MaxPieces      \* bound on the pieces of memory

PointerSize == 4
BufferOffset == 20    \* of Buffer in MemPool_t: the lock, the stack, two ints

ASSUME ConstantsAssumption ==
  /\ Sizes \subseteq Nat \ {0} /\ Counts \subseteq Nat \ {0} /\ Alignments \subseteq Nat \ {0}
  /\ CreateMemory \subseteq Nat /\ ExtraMemory \subseteq Nat /\ Bases \subseteq Nat
  /\ MaxPieces \in Nat

VARIABLES
  made,       \* is there a pool?
  request,    \* the item size asked for
  itemSize, alignment,  \* ItemSize and Alignment of the pool
  pieces,     \* the memory of the pool: address and size
  free,       \* the stack: its top first
  held,       \* the items each thread has
  adding,     \* what each thread has still to carve: none, or a piece
  overran     \* has a loop run past the memory it carves?

poolVars == <<made, request, itemSize, alignment, overran>>
vars == <<poolVars, pieces, free, held, adding>>

NotAdding == [piece |-> 0, index |-> 0, left |-> 0, step |-> 0]

Init ==
  /\ made = FALSE /\ request = 0 /\ itemSize = 0 /\ alignment = 0
  /\ pieces = <<>> /\ free = <<>> /\ overran = FALSE
  /\ held = [t \in Threads |-> {}] /\ adding = [t \in Threads |-> NotAdding]

-----------------------------------------------------------------------------
(* Sizes.                                                                  *)

\* 0 if it is not a power of two.
CalculateAndVerifyAlignment(a) ==
  LET b == IF a < PointerSize THEN PointerSize ELSE a
  IN  IF \E i \in 0..30 : b = 2^i THEN b ELSE 0

\* Mutant: the size is rounded down.
CalculateItemSizeDown(size, a) ==
  IF size <= a THEN 2 * a ELSE (size \div a + 1) * a

\* Room for the node, rounded up to the alignment.
CalculateItemSize(size, a) ==
  IF size <= a THEN 2 * a
  ELSE (size \div a + (IF size % a # 0 THEN 1 ELSE 0) + 1) * a

-----------------------------------------------------------------------------
(* Creation: nobody else knows the pool yet.  With an alignment that is no *)
(* power of two, or without memory, it returns NULL and nothing changes.   *)

\* n items carved from piece p, the last one on top.
Carved(p, n) == [i \in 1..n |-> [piece |-> p, index |-> n - i]]

NewPool(size, a) ==
  /\ ~made /\ CalculateAndVerifyAlignment(a) # 0
  /\ made' = TRUE /\ request' = size
  /\ alignment' = CalculateAndVerifyAlignment(a)
  /\ itemSize' = CalculateItemSize(size, alignment')
  /\ UNCHANGED <<held, adding, overran>>

\* malloc gives three bytes more than the items need.
CreateMemoryPool(size, count, a, base) ==
  /\ NewPool(size, a)
  /\ pieces' = <<[base |-> base + BufferOffset, size |-> count * itemSize']>>
  /\ free' = Carved(1, count)

\* The caller aligned the memory it dedicates to the pool.
CreateMemoryPoolStatic(size, bytes, a) ==
  /\ NewPool(size, a)
  /\ pieces' = <<[base |-> 0, size |-> bytes]>>
  /\ free' = Carved(1, bytes \div itemSize')

-----------------------------------------------------------------------------
(* More memory.  Each item is pushed under the lock, one after the other.  *)

Idle(t) == made /\ ~overran /\ adding[t] = NotAdding

\* Where an item begins and ends in its piece.
Begin(b) == b.index * itemSize
End(b)   == (b.index + 1) * itemSize

Inside(b) == b.piece \in DOMAIN pieces /\ End(b) <= pieces[b.piece].size

\* left is what the loop condition reads, step what the loop takes off it.
StartAdding(t, base, bytes, left, step) ==
  /\ Idle(t) /\ Len(pieces) < MaxPieces
  /\ pieces' = Append(pieces, [base |-> base, size |-> bytes])
  /\ adding' = [adding EXCEPT ![t] =
                 [piece |-> Len(pieces) + 1, index |-> 0, left |-> left, step |-> step]]
  /\ UNCHANGED <<poolVars, free, held>>

AddExtraMemoryToPool(t, count, base) ==
  StartAdding(t, base, count * itemSize, count * itemSize, itemSize)

\* The loop compares PreallocatedMemorySize and never changes it.
AddExtraMemoryToPoolStatic(t, bytes) == StartAdding(t, 0, bytes, bytes, 0)

\* The item a thread carves next, and the loop one item further.
NextItem(a) == [piece |-> a.piece, index |-> a.index]
Advanced(a) == [piece |-> a.piece, index |-> a.index + 1, left |-> a.left - a.step, step |-> a.step]

Push(t) ==
  LET a == adding[t]
  IN  /\ ~overran /\ a # NotAdding /\ a.left >= itemSize /\ Inside(NextItem(a))
      /\ free' = <<NextItem(a)>> \o free
      /\ adding' = [adding EXCEPT ![t] = Advanced(a)]
      /\ UNCHANGED <<poolVars, pieces, held>>

\* The loop goes on past the end of its memory and writes a node there: from then on
\* anything may happen, and the model says no more.
PushOutside(t) ==
  LET a == adding[t]
  IN  /\ ~overran /\ a # NotAdding /\ a.left >= itemSize /\ ~Inside(NextItem(a))
      /\ overran' = TRUE
      /\ UNCHANGED <<made, request, itemSize, alignment, pieces, free, held, adding>>

Added(t) ==
  /\ ~overran /\ adding[t] # NotAdding /\ adding[t].left < itemSize
  /\ adding' = [adding EXCEPT ![t] = NotAdding]
  /\ UNCHANGED <<poolVars, pieces, free, held>>

-----------------------------------------------------------------------------
(* Allocation: the top of the stack, under the lock; NULL if there is none. *)

MemoryPoolAllocate(t) ==
  /\ Idle(t) /\ free # <<>>
  /\ held' = [held EXCEPT ![t] = @ \cup {Head(free)}] /\ free' = Tail(free)
  /\ UNCHANGED <<poolVars, pieces, adding>>

MemoryPoolFree(t, b) ==
  /\ Idle(t) /\ b \in held[t]
  /\ held' = [held EXCEPT ![t] = @ \ {b}] /\ free' = <<b>> \o free
  /\ UNCHANGED <<poolVars, pieces, adding>>

Next ==
  \/ \E size \in Sizes, a \in Alignments :
       \/ \E count \in Counts, base \in Bases : CreateMemoryPool(size, count, a, base)
       \/ \E bytes \in CreateMemory : CreateMemoryPoolStatic(size, bytes, a)
  \/ \E t \in Threads :
       \/ \E count \in Counts, base \in Bases : AddExtraMemoryToPool(t, count, base)
       \/ \E bytes \in ExtraMemory : AddExtraMemoryToPoolStatic(t, bytes)
       \/ Push(t) \/ PushOutside(t) \/ Added(t) \/ MemoryPoolAllocate(t)
       \/ \E b \in held[t] : MemoryPoolFree(t, b)

Spec == Init /\ [][Next]_vars

-----------------------------------------------------------------------------
(* Properties.                                                             *)

Blocks == [piece : Nat, index : Nat]

TypeOK ==
  /\ made \in BOOLEAN /\ overran \in BOOLEAN /\ request \in Nat /\ itemSize \in Nat /\ alignment \in Nat
  /\ pieces \in Seq([base : Nat, size : Nat]) /\ free \in Seq(Blocks)
  /\ held \in [Threads -> SUBSET Blocks]
  /\ adding \in [Threads -> [piece : Nat, index : Nat, left : Int, step : Nat]]

\* An item has room for the node and for what was asked.
Fits == made => /\ alignment >= PointerSize /\ itemSize >= 2 * PointerSize
                /\ alignment + request <= itemSize /\ itemSize % alignment = 0

\* An item is on the stack once, or with one thread, or not there yet.
OneOwner ==
  /\ IsInjective(free)
  /\ \A t \in Threads : /\ \A b \in held[t] : b \notin Range(free)
                        /\ \A u \in Threads : u # t => held[t] \cap held[u] = {}

NotCarvedYet(t, b) == adding[t] # NotAdding /\ b.piece = adding[t].piece => b.index < adding[t].index

InPool(b) == Inside(b) /\ \A t \in Threads : NotCarvedYet(t, b)

AllInPool ==
  /\ \A b \in Range(free) : InPool(b)
  /\ \A t \in Threads : \A b \in held[t] : InPool(b)

AddingInv ==
  \A t \in Threads : adding[t] # NotAdding =>
    LET a == adding[t]
    IN  /\ a.piece \in DOMAIN pieces
        /\ \A u \in Threads : u # t => adding[u].piece # a.piece
        /\ a.step # 0 => a.step = itemSize /\ a.index * itemSize + a.left = pieces[a.piece].size

NothingBefore == ~made => /\ free = <<>> /\ pieces = <<>>
                          /\ \A t \in Threads : held[t] = {} /\ adding[t] = NotAdding

\* What holds whatever the size of an item is.
ItemsInv == TypeOK /\ OneOwner /\ AllInPool /\ AddingInv /\ NothingBefore

\* The items threads have are as well aligned as the memory they were carved from.  (That
\* of CreateMemoryPool begins at Buffer: it is aligned to pointers and to nothing larger,
\* although mem_pool.h promises the alignment asked for.)
Aligned(b) ==
  pieces[b.piece].base % alignment = 0 => (pieces[b.piece].base + Begin(b)) % alignment = 0
HeldAligned == \A t \in Threads : \A b \in held[t] : Aligned(b)

PoolInv == ItemsInv /\ Fits /\ HeldAligned

\* Whatever is allocated, freed and added at the same time, every item lies inside the
\* memory it was carved from, has room for the node and the caller's data, and has one
\* owner: the stack or one thread.  That ends when a loop runs past its memory, and no loop
\* ever does but that of AddExtraMemoryToPoolStatic, which does so, and never returns,
\* whenever the memory has room for an item.
Endless(t) == adding[t] # NotAdding /\ adding[t].step = 0 /\ adding[t].left >= itemSize
SoundUntilOverrun == IF overran THEN \E t \in Threads : Endless(t) ELSE PoolInv
=============================================================================
