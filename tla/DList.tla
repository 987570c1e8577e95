------------------------------- MODULE DList -------------------------------
(* The doubly linked list (dlist.c) and the queue made of it                 *)
(* (queue_simple.c), which the work queue and the demonstrations use: rings  *)
(* through a head.  One head is used as a list and one as a queue, and nodes *)
(* move between the two.                                                     *)
EXTENDS Naturals, FiniteSets, Sequences, SequencesExt

CONSTANTS Nodes, List, Queue, NULL

HeadsApart == List # Queue /\ NULL \notin {List, Queue} /\ {List, Queue, NULL} \cap Nodes = {}

VARIABLES
  next, prev, \* the fields Next and Prev of every node and head
  Count,      \* the field Count of the queue
  ret         \* what the last call of a function that returns a node returned

vars == <<next, prev, Count, ret>>

\* The nodes met from head along one of the two fields, until head again
\* (DlForEachNode, DlForEachNodeReverse).
Walk(field, head) ==
  LET at[k \in 0..Cardinality(Nodes)] ==
        IF k = 0 THEN field[head] ELSE IF at[k - 1] = head THEN head ELSE field[at[k - 1]]
  IN [i \in 1..Cardinality({k \in DOMAIN at : at[k] # head}) |-> at[i - 1]]

Unlinked == Nodes \ (Range(Walk(next, List)) \cup Range(Walk(next, Queue)))

\* Head nodes point at themselves; a node that no caller has linked holds NULL.
Init ==
  /\ next = [n \in Nodes \cup {List, Queue} |-> IF n \in Nodes THEN NULL ELSE n]
  /\ prev = next
  /\ Count = 0 /\ ret = NULL

-----------------------------------------------------------------------------
\* A slip: the node after the marker keeps pointing back at the marker.
DlInsertNoBackLink(Marker, Node) ==
  /\ Marker # NULL /\ Node # NULL
  /\ next' = [next EXCEPT ![Node] = next[Marker], ![Marker] = Node]
  /\ prev' = [prev EXCEPT ![Node] = Marker]

DlInsertNodeAfter(Marker, Node) ==
  /\ Marker # NULL /\ Node # NULL
  /\ next' = [next EXCEPT ![Node] = next[Marker], ![Marker] = Node]
  /\ prev' = [prev EXCEPT ![Node] = Marker, ![next[Marker]] = Node]

DlInsertNodeBefore(Marker, Node) == DlInsertNodeAfter(prev[Marker], Node)
DlAddNodeToHead(head, Node) == DlInsertNodeAfter(head, Node)
DlAddNodeToTail(head, Node) == DlInsertNodeAfter(prev[head], Node)

DlRemoveNode(Node) ==
  /\ Node # NULL
  /\ prev' = [prev EXCEPT ![next[Node]] = prev[Node]]
  /\ next' = [next EXCEPT ![prev[Node]] = next[Node]]

\* The common part of DlRemoveNodeFromHead and DlRemoveNodeFromTail.
RemoveEnd(head, field) ==
  IF next[head] = head
  THEN ret' = NULL /\ UNCHANGED <<next, prev>>
  ELSE ret' = field[head] /\ DlRemoveNode(field[head])

DlRemoveNodeFromHead(head) == RemoveEnd(head, next)
DlRemoveNodeFromTail(head) == RemoveEnd(head, prev)

Enqueue(Node) ==
  /\ Count' = Count + 1
  /\ DlAddNodeToHead(Queue, Node)

Dequeue ==
  IF Count <= 0
  THEN ret' = NULL /\ UNCHANGED <<next, prev, Count>>
  ELSE Count' = Count - 1 /\ DlRemoveNodeFromTail(Queue)

-----------------------------------------------------------------------------
ListCall ==
  /\ UNCHANGED Count
  /\ \/ UNCHANGED ret /\ \E n \in Unlinked :
          \/ DlAddNodeToHead(List, n)
          \/ DlAddNodeToTail(List, n)
          \/ \E m \in Range(Walk(next, List)) : DlInsertNodeAfter(m, n)
          \/ \E m \in Range(Walk(next, List)) \cup {List} : DlInsertNodeBefore(m, n)
     \/ UNCHANGED ret /\ \E n \in Range(Walk(next, List)) : DlRemoveNode(n)
     \/ DlRemoveNodeFromHead(List)
     \/ DlRemoveNodeFromTail(List)

QueueCall ==
  \/ Dequeue
  \/ UNCHANGED ret /\ \E n \in Unlinked : Enqueue(n)

Next == ListCall \/ QueueCall
Spec == Init /\ [][Next]_vars

-----------------------------------------------------------------------------
\* The list read forwards is a sequence; the queue read backwards holds the
\* nodes in the order they were put, gives back the oldest first, and is empty
\* just when its count says so: each of the two chains of pointers is kept right
\* by operations that mostly use the other (dlist.h, queue_simple.h).
Lists == INSTANCE NodeLists WITH
           list <- Walk(next, List), box <- Walk(prev, Queue), Fifo <- TRUE
ImplementsLists == Lists!Spec
=============================================================================
