------------------------------- MODULE SList -------------------------------
(* The singly linked list (slist.c) and the stack made of it                 *)
(* (stack_simple.c), on a heap of nodes.  A list is a head node and the      *)
(* pointers behind it; the operations walk them.  One head is used as a list *)
(* and one as a stack, and the nodes move between the two.  Neither has a    *)
(* lock: every operation is called by one task.                              *)
EXTENDS Naturals, FiniteSets, Sequences, SequencesExt

CONSTANTS
  Nodes,       \* the nodes embedded in the data
  List, Stack, \* the two heads
  NULL

HeadsAreNoNodes == List # Stack /\ NULL \notin {List, Stack} /\ {List, Stack, NULL} \cap Nodes = {}

VARIABLES
  next,  \* the field Next of every node and head
  Count,  \* the field Count of the stack
  ret     \* what the last call of a function that returns a node returned

vars == <<next, Count, ret>>

\* The nodes that a walk from head meets, in its order.
Walk(head) ==
  LET at[k \in 0..Cardinality(Nodes)] ==
        IF k = 0 THEN next[head] ELSE IF at[k - 1] = NULL THEN NULL ELSE next[at[k - 1]]
  IN [i \in 1..Cardinality({k \in DOMAIN at : at[k] # NULL}) |-> at[i - 1]]

\* The nodes that are in neither: what a caller may add.
Unlinked == Nodes \ (Range(Walk(List)) \cup Range(Walk(Stack)))

\* Where the loop over Prior and Current stops: the node before Current.
Prior(head, node) == CHOOSE p \in {head} \cup Range(Walk(head)) : next[p] = node
TailOf(head) == Last(<<head>> \o Walk(head))

Init ==
  /\ next = [n \in Nodes \cup {List, Stack} |-> NULL]
  /\ Count = 0 /\ ret = NULL

-----------------------------------------------------------------------------
SlInsertNodeAfter(Marker, Node) ==
  /\ Marker # NULL /\ Node # NULL
  /\ next' = [next EXCEPT ![Marker] = Node, ![Node] = next[Marker]]

SlAddNodeToTail(head, Node) ==
  /\ Node # NULL
  /\ next' = [next EXCEPT ![TailOf(head)] = Node, ![Node] = NULL]

\* A marker that is not in the list leaves the list and the node as they are.
SlInsertNodeBefore(head, Marker, Node) ==
  /\ Node # NULL
  /\ Marker \in Range(Walk(head))
  /\ next' = [next EXCEPT ![Prior(head, Marker)] = Node, ![Node] = Marker]

\* The removed node keeps its pointer.
SlRemoveNode(head, Node) ==
  /\ Node \in Range(Walk(head))
  /\ next' = [next EXCEPT ![Prior(head, Node)] = next[Node]]

SlRemoveNodeFromHead(head) ==
  /\ ret' = next[head]
  /\ next' = IF next[head] = NULL THEN next ELSE [next EXCEPT ![head] = next[next[head]]]

\* A forgotten step: the predecessor keeps pointing at the node.
SlRemoveTailKept(head) ==
  IF next[head] = NULL
  THEN ret' = NULL /\ UNCHANGED next
  ELSE ret' = TailOf(head) /\ next' = [next EXCEPT ![TailOf(head)] = NULL]

SlRemoveNodeFromTail(head) ==
  IF next[head] = NULL
  THEN ret' = NULL /\ UNCHANGED next
  ELSE /\ ret' = TailOf(head)
       /\ next' = [next EXCEPT ![Prior(head, TailOf(head))] = NULL]

PushOnStack(Node) == SlInsertNodeAfter(Stack, Node) /\ Count' = Count + 1

PopOffStack ==
  IF Count = 0
  THEN ret' = NULL /\ UNCHANGED <<next, Count>>
  ELSE Count' = Count - 1 /\ SlRemoveNodeFromHead(Stack)

-----------------------------------------------------------------------------
ListCall ==
  /\ UNCHANGED Count
  /\ \/ UNCHANGED ret /\ \E n \in Unlinked :
          \/ \E m \in {List} \cup Range(Walk(List)) : SlInsertNodeAfter(m, n)
          \/ SlAddNodeToTail(List, n)
          \/ \E m \in Nodes \cup {List} : SlInsertNodeBefore(List, m, n)
     \/ UNCHANGED ret /\ \E n \in Nodes : SlRemoveNode(List, n)
     \/ SlRemoveNodeFromHead(List)
     \/ SlRemoveNodeFromTail(List)

StackCall ==
  \/ PopOffStack
  \/ UNCHANGED ret /\ \E n \in Unlinked : PushOnStack(n)

Next == ListCall \/ StackCall
Spec == Init /\ [][Next]_vars

-----------------------------------------------------------------------------
\* Whatever nodes move between the two and whatever stale pointers they carry,
\* the list is a sequence and the stack gives back the newest node first, and
\* the stack says it is empty just when it is (slist.h, stack_simple.h).
Lists == INSTANCE NodeLists WITH
           list <- Walk(List), box <- Reverse(Walk(Stack)), Fifo <- FALSE
ImplementsLists == Lists!Spec
=============================================================================
