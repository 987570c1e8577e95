---------------------------- MODULE MCContainers ----------------------------
(***************************************************************************)
(* One run for the containers of the add-ons, each explored by itself: the *)
(* memory pools in C and in C++ and the zero-copy queue, which are all     *)
(* pools and share the variables of MemPool, the singly linked list with   *)
(* the stack (s_) and the doubly linked one with the queue (d_).           *)
(***************************************************************************)
EXTENDS CppMemPool, ZeroCopyQueue, FiniteSets, TLC

CONSTANTS Nodes, RingNodes, List, Box, NULL

VARIABLES part,  \* the container that is used
          s_next, s_Count, s_ret,
          d_next, d_prev, d_Count, d_ret

sVars == <<s_next, s_Count, s_ret>>
dVars == <<d_next, d_prev, d_Count, d_ret>>

Singly == INSTANCE SList WITH
  Stack <- Box, next <- s_next, Count <- s_Count, ret <- s_ret

Doubly == INSTANCE DList WITH
  Nodes <- RingNodes, Queue <- Box, next <- d_next, prev <- d_prev, Count <- d_Count, ret <- d_ret

ASSUME SinglyAssumption == Singly!HeadsAreNoNodes /\ IsFiniteSet(Nodes)
ASSUME DoublyAssumption == Doubly!HeadsApart /\ IsFiniteSet(RingNodes)

MCInit ==
  /\ part \in {"pool", "cpp", "zcq", "slist", "dlist"}
  /\ ZcqInit /\ Singly!Init /\ Doubly!Init

MCNext ==
  /\ UNCHANGED part
  /\ \/ part = "pool"  /\ Next         /\ UNCHANGED <<queue, length, sVars, dVars>>
     \/ part = "cpp"   /\ CppNext      /\ UNCHANGED <<queue, length, sVars, dVars>>
     \/ part = "zcq"   /\ ZcqNext      /\ UNCHANGED <<sVars, dVars>>
     \/ part = "slist" /\ Singly!Next  /\ UNCHANGED <<zcqVars, dVars>>
     \/ part = "dlist" /\ Doubly!Next  /\ UNCHANGED <<zcqVars, sVars>>

MCSpec == MCInit /\ [][MCNext]_<<part, zcqVars, sVars, dVars>>

\* The threads of the pools are interchangeable.
Symmetry == Permutations(Threads)

\* SoundUntilOverrun of MemPool.
CPool == part = "pool" => SoundUntilOverrun

\* CppPoolInv of CppMemPool.
CppPool == part = "cpp" => CppPoolInv

\* NoItemIsLost of ZeroCopyQueue.
ZcqLosesNothing == part = "zcq" => NoItemIsLost

\* ImplementsLists of SList.
SListImplementsLists == Singly!ImplementsLists

\* ImplementsLists of DList.
DListImplementsLists == Doubly!ImplementsLists
=============================================================================
