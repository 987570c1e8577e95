----------------------------- MODULE NodeLists -----------------------------
(* What the lists, the queue and the stack of the add-ons promise: a list is *)
(* a sequence of nodes, which nodes enter and leave at either end or next to *)
(* a node of the list; a box (a queue or a stack) gives the nodes back in    *)
(* the order in which they were put, or in the opposite order.               *)
EXTENDS Sequences, SequencesExt

CONSTANTS Nodes, NULL, Fifo

VARIABLES
  list,  \* the list, from its head
  box,   \* the queue or the stack, in the order of the puts
  ret    \* what the last removal returned

Free == Nodes \ (Range(list) \cup Range(box))
Place(n) == CHOOSE i \in DOMAIN list : list[i] = n

Init == list = <<>> /\ box = <<>> /\ ret = NULL

Insert(n, i) == list' = InsertAt(list, i, n) /\ UNCHANGED <<box, ret>>
AddToHead(n) == Insert(n, 1)
AddToTail(n) == Insert(n, Len(list) + 1)
InsertAfter(m, n) == m \in Range(list) /\ Insert(n, Place(m) + 1)
InsertBefore(m, n) == m \in Range(list) /\ Insert(n, Place(m))

RemoveNode(n) == n \in Range(list) /\ list' = RemoveAt(list, Place(n)) /\ UNCHANGED <<box, ret>>
RemoveFromHead ==
  /\ ret' = IF list = <<>> THEN NULL ELSE Head(list)
  /\ list' = IF list = <<>> THEN <<>> ELSE Tail(list)
  /\ UNCHANGED box
RemoveFromTail ==
  /\ ret' = IF list = <<>> THEN NULL ELSE Last(list)
  /\ list' = IF list = <<>> THEN <<>> ELSE Front(list)
  /\ UNCHANGED box

Put(n) == box' = Append(box, n) /\ UNCHANGED <<list, ret>>
Oldest == Head(box)
Newest == Last(box)
Get ==
  /\ ret' = IF box = <<>> THEN NULL ELSE IF Fifo THEN Oldest ELSE Newest
  /\ box' = IF box = <<>> THEN <<>> ELSE IF Fifo THEN Tail(box) ELSE Front(box)
  /\ UNCHANGED list

Next ==
  \/ \E n \in Free :
       \/ AddToHead(n) \/ AddToTail(n) \/ Put(n)
       \/ \E m \in Nodes : InsertAfter(m, n) \/ InsertBefore(m, n)
  \/ \E n \in Nodes : RemoveNode(n)
  \/ RemoveFromHead \/ RemoveFromTail \/ Get

Spec == Init /\ [][Next]_<<list, box, ret>>
=============================================================================
