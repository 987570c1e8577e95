------------------------------ MODULE CppMemPool -----------------------------
(***************************************************************************)
(* The memory pool of the C++ wrapper (cmem_pool.cpp): the C pool with its *)
(* free items in a list of pointers, not linked through the memory itself, *)
(* so that items have no room for a node; taken from the front and put     *)
(* back behind.                                                            *)
(***************************************************************************)
EXTENDS MemPool

CppItemSize(size, a) ==
  IF size <= a THEN a ELSE (size \div a + (IF size % a # 0 THEN 1 ELSE 0)) * a

\* The front of the list first.
CppCarved(p, n) == [i \in 1..n |-> [piece |-> p, index |-> i - 1]]

CppNewPool(size, a) ==
  /\ ~made /\ CalculateAndVerifyAlignment(a) # 0
  /\ made' = TRUE /\ request' = size
  /\ alignment' = CalculateAndVerifyAlignment(a)
  /\ itemSize' = CppItemSize(size, alignment')
  /\ UNCHANGED <<held, adding, overran>>

CppCreate(size, count, a, base) ==
  /\ CppNewPool(size, a)
  /\ pieces' = <<[base |-> base, size |-> count * itemSize']>>
  /\ free' = CppCarved(1, count)

CppCreateStatic(size, bytes, a) ==
  /\ CppNewPool(size, a)
  /\ pieces' = <<[base |-> 0, size |-> bytes]>>
  /\ free' = CppCarved(1, bytes \div itemSize')

AddMemory(t, count, base) == StartAdding(t, base, count * itemSize, count * itemSize, itemSize)

\* Mutant: the loop forgets to take the item off what is left.
AddMemoryStaticKept(t, bytes) == StartAdding(t, 0, bytes, bytes, 0)

AddMemoryStatic(t, bytes) == StartAdding(t, 0, bytes, bytes, itemSize)

CppPush(t) ==
  LET a == adding[t]
  IN  /\ a # NotAdding /\ a.left >= itemSize
      /\ free' = Append(free, NextItem(a))
      /\ adding' = [adding EXCEPT ![t] = Advanced(a)]
      /\ UNCHANGED <<poolVars, pieces, held>>

Free(t, b) ==
  /\ Idle(t) /\ b \in held[t]
  /\ held' = [held EXCEPT ![t] = @ \ {b}] /\ free' = Append(free, b)
  /\ UNCHANGED <<poolVars, pieces, adding>>

CppNext ==
  \/ \E size \in Sizes, a \in Alignments :
       \/ \E count \in Counts, base \in Bases : CppCreate(size, count, a, base)
       \/ \E bytes \in CreateMemory : CppCreateStatic(size, bytes, a)
  \/ \E t \in Threads :
       \/ \E count \in Counts, base \in Bases : AddMemory(t, count, base)
       \/ \E bytes \in ExtraMemory : AddMemoryStatic(t, bytes)
       \/ CppPush(t) \/ Added(t) \/ MemoryPoolAllocate(t)
       \/ \E b \in held[t] : Free(t, b)

CppSpec == Init /\ [][CppNext]_vars

-----------------------------------------------------------------------------
CppFits == made => /\ alignment >= PointerSize /\ request <= itemSize
                   /\ itemSize > 0 /\ itemSize % alignment = 0

\* As PoolInv, without a node in the items, and whatever memory the callers add: the loop
\* over it takes every item off what is left, and no loop runs past its memory.
CppPoolInv ==
  /\ ItemsInv /\ CppFits /\ HeldAligned /\ ~overran
  /\ \A t \in Threads : adding[t] # NotAdding => adding[t].step # 0
=============================================================================
