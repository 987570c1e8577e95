-------------------------- MODULE Containers_proofs --------------------------
(***************************************************************************)
(* Proofs about the memory pools in C (mem_pool.c) and in C++              *)
(* (cmem_pool.cpp): items lie inside the memory they were carved from and  *)
(* have one owner, for any threads and sizes; in C until the endless loop  *)
(* of AddExtraMemoryToPoolStatic leaves its memory, which no other loop    *)
(* ever does.  And about the zero-copy queue                               *)
(* (zero_copy_queue.c): no item gets lost, and the queue has room for it.  *)
(* And about the lists of nodes (slist.c, dlist.c) with the stack and the  *)
(* queue on top of them (stack_simple.c, queue_simple.c): they are the     *)
(* sequences of NodeLists, whatever is inserted and removed.               *)
(***************************************************************************)
EXTENDS MCContainers, QueueLemmas

-----------------------------------------------------------------------------
(* Sizes.                                                                  *)

LEMMA Products ==
  ASSUME NEW m \in Nat, NEW n \in Nat, NEW s \in Nat, m <= n
  PROVE  m * s <= n * s /\ m * s \in Nat
  <1>1. n - m \in Nat /\ n = m + (n - m)
    OBVIOUS
  <1>2. n * s = m * s + (n - m) * s
    BY <1>1
  <1>3. m * s \in Nat /\ (n - m) * s \in Nat
    BY <1>1
  <1> QED
    BY <1>2, <1>3

LEMMA Division ==
  ASSUME NEW n \in Nat, NEW d \in Nat \ {0}
  PROVE  /\ n \div d \in Nat /\ n % d \in 0..(d - 1)
         /\ n = (n \div d) * d + (n % d) /\ (n \div d) * d <= n
  OBVIOUS

LEMMA ProductIsNatural ==
  ASSUME NEW m \in Nat, NEW n \in Nat
  PROVE  m * n \in Nat
  OBVIOUS

LEMMA Multiples ==
  ASSUME NEW m \in Nat, NEW a \in Nat \ {0}
  PROVE  (m * a) % a = 0
  <1>1. PICK n, q, r : n = m * a /\ q = n \div a /\ r = n % a
    OBVIOUS
  <1>2. n \in Nat
    BY <1>1, ProductIsNatural
  <1>3. q \in Nat /\ r \in 0..(a - 1) /\ n = q * a + r
    BY <1>1, <1>2, Division
  <1>4. m * a = q * a + r
    BY <1>1, <1>3
  <1>5. (m - q) * a = r
    BY <1>3, <1>4
  <1>6. CASE m - q >= 1
    <2>1. (m - q) * a = a + (m - q - 1) * a
      BY <1>3
    <2>2. (m - q - 1) * a \in Nat
      BY <1>3, <1>6, ProductIsNatural
    <2> QED
      BY <1>3, <1>5, <2>1, <2>2
  <1>7. CASE m - q <= -1
    <2>1. (m - q) * a = (-a) - (q - m - 1) * a
      BY <1>3
    <2>2. (q - m - 1) * a \in Nat
      BY <1>3, <1>7, ProductIsNatural
    <2> QED
      BY <1>3, <1>5, <2>1, <2>2
  <1>8. CASE m - q = 0
    BY <1>1, <1>5, <1>8
  <1> QED
    BY <1>3, <1>6, <1>7, <1>8

\* Items of a size that the alignment divides are aligned when the first one is.
LEMMA ItemsAligned ==
  ASSUME NEW base \in Nat, NEW i \in Nat, NEW size \in Nat, NEW a \in Nat \ {0},
         base % a = 0, size % a = 0
  PROVE  (base + i * size) % a = 0
  <1>1. PICK p, q : p = base \div a /\ q = size \div a
    OBVIOUS
  <1>2. p \in Nat /\ q \in Nat /\ base = p * a /\ size = q * a
    BY <1>1, Division
  <1>3. base + i * size = (p + i * q) * a
    BY <1>2
  <1>4. p + i * q \in Nat
    BY <1>2, ProductIsNatural
  <1> QED
    BY <1>3, <1>4, Multiples

\* What CalculateAndVerifyAlignment returns is 0 or at least the size of a pointer.
LEMMA AlignmentIsPositive ==
  ASSUME NEW a \in Nat, CalculateAndVerifyAlignment(a) # 0
  PROVE  CalculateAndVerifyAlignment(a) \in Nat /\ CalculateAndVerifyAlignment(a) >= PointerSize
  BY DEF CalculateAndVerifyAlignment, PointerSize

\* What CalculateItemSize returns has room for the node and for what was asked, and is a
\* multiple of the alignment.
LEMMA ItemHasRoom ==
  ASSUME NEW size \in Nat \ {0}, NEW a \in Nat, a >= PointerSize
  PROVE  /\ CalculateItemSize(size, a) \in Nat
         /\ a + size <= CalculateItemSize(size, a)
         /\ CalculateItemSize(size, a) >= 2 * PointerSize
         /\ CalculateItemSize(size, a) % a = 0
  <1>0. a \in Nat \ {0}
    BY DEF PointerSize
  <1>1. CASE size <= a
    <2>1. (2 * a) % a = 0
      BY <1>0, Multiples
    <2> QED
      BY <1>1, <2>1 DEF CalculateItemSize, PointerSize
  <1>2. CASE size > a
    <2> DEFINE q == size \div a
               k == q + (IF size % a # 0 THEN 1 ELSE 0)
    <2>1. /\ q \in Nat /\ size % a \in 0..(a - 1) /\ size = q * a + (size % a) /\ a \in Nat \ {0}
      <3>1. size \in Nat /\ a \in Nat \ {0}
        BY DEF PointerSize
      <3> QED
        BY <3>1, Division
    <2>2. k \in Nat /\ (k = q \/ k = q + 1)
      BY <2>1
    <2>3. size <= k * a
      <3>1. CASE size % a = 0
        BY <2>1, <3>1
      <3>2. CASE size % a # 0
        <4>1. k * a = q * a + a
          BY <2>1, <3>2
        <4> QED
          BY <2>1, <4>1
      <3> QED
        BY <3>1, <3>2
    <2> HIDE DEF k, q
    <2>4. (k + 1) * a = k * a + a
      BY <2>1, <2>2
    <2>5. k * a \in Nat
      BY <2>1, <2>2
    <2>6. CalculateItemSize(size, a) = (k + 1) * a
      BY <1>2 DEF CalculateItemSize, k, q
    <2>7. k + 1 \in Nat
      BY <2>2, <2>1
    <2>8. ((k + 1) * a) % a = 0
      BY <1>0, <2>7, Multiples
    <2> QED
      BY <1>2, <2>3, <2>4, <2>5, <2>6, <2>8 DEF PointerSize
  <1> QED
    BY <1>1, <1>2

-----------------------------------------------------------------------------
(* Creation.                                                               *)

LEMMA CarvedItems ==
  ASSUME NEW p \in Nat, NEW n \in Nat
  PROVE  /\ Carved(p, n) \in Seq(Blocks) /\ IsInjective(Carved(p, n))
         /\ \A b \in Range(Carved(p, n)) : b.piece = p /\ b.index \in Nat /\ b.index < n
  BY DEF Carved, Blocks, IsInjective, Range

LEMMA InitItems == Init => ItemsInv
  <1> SUFFICES ASSUME Init PROVE ItemsInv
    OBVIOUS
  <1>1. Range(free) = {} /\ IsInjective(free)
    BY EmptyQueue DEF Init
  <1> QED
    <2>1. TypeOK
      <3>1. <<>> \in Seq(Blocks) /\ <<>> \in Seq([base : Nat, size : Nat])
        OBVIOUS
      <3>2. NotAdding \in [piece : Nat, index : Nat, left : Int, step : Nat]
        BY DEF NotAdding
      <3> QED
        BY <3>1, <3>2 DEF Init, TypeOK
    <2>2. OneOwner /\ AllInPool /\ AddingInv /\ NothingBefore
      <3>1. \A t \in Threads : held[t] = {} /\ adding[t] = NotAdding
        BY DEF Init
      <3> QED
        BY <1>1, <3>1 DEF Init, OneOwner, AllInPool, AddingInv, NothingBefore
    <2> QED
      BY <2>1, <2>2 DEF ItemsInv

\* n items carved from a first piece in which they have room make a pool.
LEMMA NewPoolStep ==
  ASSUME ItemsInv, ~made, made' = TRUE, UNCHANGED <<held, adding, overran>>,
         request' \in Nat, itemSize' \in Nat, alignment' \in Nat,
         NEW base \in Nat, NEW bytes \in Nat, NEW n \in Nat, n * itemSize' <= bytes,
         pieces' = <<[base |-> base, size |-> bytes]>>,
         free' \in Seq(Blocks), IsInjective(free'),
         \A b \in Range(free') : b.piece = 1 /\ b.index \in Nat /\ b.index < n
  PROVE  ItemsInv'
  <1>2. \A t \in Threads : held[t] = {} /\ adding[t] = NotAdding
    BY DEF ItemsInv, NothingBefore
  <1>3. TypeOK'
    <2>1. pieces' \in Seq([base : Nat, size : Nat])
      OBVIOUS
    <2> QED
      BY <2>1 DEF ItemsInv, TypeOK
  <1>4. \A b \in Range(free') : Inside(b)'
    <2> SUFFICES ASSUME NEW b \in Range(free') PROVE Inside(b)'
      OBVIOUS
    <2>1. b.piece = 1 /\ b.index \in Nat /\ b.index + 1 <= n
      OBVIOUS
    <2>2. (b.index + 1) * itemSize' <= n * itemSize' /\ (b.index + 1) * itemSize' \in Nat
      BY <2>1, Products
    <2>3. n * itemSize' \in Nat
      BY ProductIsNatural
    <2>4. (b.index + 1) * itemSize' <= bytes
      <3>1. PICK x, y : x = (b.index + 1) * itemSize' /\ y = n * itemSize'
        OBVIOUS
      <3>2. x \in Nat /\ y \in Nat /\ x <= y /\ y <= bytes
        BY <2>2, <2>3, <3>1
      <3>3. x <= bytes
        BY ONLY <3>2, bytes \in Nat
      <3> QED
        BY <3>1, <3>3
    <2> QED
      BY <2>1, <2>4 DEF Inside, End
  <1> QED
    BY <1>2, <1>3, <1>4
    DEF ItemsInv, OneOwner, AllInPool, InPool, NotCarvedYet, AddingInv, NothingBefore

LEMMA NewPoolFits ==
  ASSUME NEW size \in Nat \ {0}, NEW a \in Nat, NewPool(size, a)
  PROVE  /\ ~made /\ made' = TRUE /\ UNCHANGED <<held, adding, overran>>
         /\ request' \in Nat /\ itemSize' \in Nat \ {0} /\ alignment' \in Nat /\ Fits'
  <1>1. /\ alignment' \in Nat /\ alignment' >= PointerSize
        /\ itemSize' = CalculateItemSize(size, alignment')
    BY AlignmentIsPositive DEF NewPool
  <1>2. /\ itemSize' \in Nat /\ alignment' + size <= itemSize' /\ itemSize' >= 2 * PointerSize
        /\ itemSize' % alignment' = 0
    BY <1>1, ItemHasRoom
  <1> QED
    BY <1>1, <1>2 DEF NewPool, Fits, PointerSize

LEMMA CreateStep ==
  ASSUME ItemsInv, NEW size \in Sizes, NEW a \in Alignments, NEW count \in Counts, NEW base \in Bases,
         CreateMemoryPool(size, count, a, base)
  PROVE  ItemsInv' /\ Fits' /\ UNCHANGED overran
  <1>1. /\ size \in Nat \ {0} /\ a \in Nat /\ count \in Nat /\ base + BufferOffset \in Nat
    BY ConstantsAssumption DEF BufferOffset
  <1>2. /\ ~made /\ made' = TRUE /\ UNCHANGED <<held, adding, overran>>
        /\ request' \in Nat /\ itemSize' \in Nat /\ alignment' \in Nat /\ Fits'
    BY <1>1, NewPoolFits DEF CreateMemoryPool
  <1>3. PICK bytes : bytes = count * itemSize'
    OBVIOUS
  <1>4. bytes \in Nat /\ count * itemSize' <= bytes
    <2>1. count * itemSize' \in Nat
      BY ONLY <1>1, <1>2, ProductIsNatural
    <2> QED
      BY <1>3, <2>1
  <1>5. pieces' = <<[base |-> base + BufferOffset, size |-> bytes]>> /\ free' = Carved(1, count)
    BY <1>3 DEF CreateMemoryPool
  <1>6. /\ free' \in Seq(Blocks) /\ IsInjective(free')
        /\ \A b \in Range(free') : b.piece = 1 /\ b.index \in Nat /\ b.index < count
    BY <1>1, <1>5, CarvedItems
  <1> QED
    BY <1>1, <1>2, <1>4, <1>5, <1>6, NewPoolStep

LEMMA CreateStaticStep ==
  ASSUME ItemsInv, NEW size \in Sizes, NEW a \in Alignments, NEW bytes \in CreateMemory,
         CreateMemoryPoolStatic(size, bytes, a)
  PROVE  ItemsInv' /\ Fits' /\ UNCHANGED overran
  <1>1. size \in Nat \ {0} /\ a \in Nat /\ bytes \in Nat
    BY ConstantsAssumption
  <1>2. /\ ~made /\ made' = TRUE /\ UNCHANGED <<held, adding, overran>>
        /\ request' \in Nat /\ itemSize' \in Nat \ {0} /\ alignment' \in Nat /\ Fits'
    BY <1>1, NewPoolFits DEF CreateMemoryPoolStatic
  <1>3. PICK n : n = bytes \div itemSize'
    OBVIOUS
  <1>4. n \in Nat /\ n * itemSize' <= bytes
    BY <1>1, <1>2, <1>3, Division
  <1>5. pieces' = <<[base |-> 0, size |-> bytes]>> /\ free' = Carved(1, n)
    BY <1>3 DEF CreateMemoryPoolStatic
  <1>6. /\ free' \in Seq(Blocks) /\ IsInjective(free')
        /\ \A b \in Range(free') : b.piece = 1 /\ b.index \in Nat /\ b.index < n
    BY <1>4, <1>5, CarvedItems
  <1> QED
    BY <1>1, <1>2, <1>4, <1>5, <1>6, NewPoolStep

LEMMA PutEither ==
  ASSUME NEW S, NEW s \in Seq(S), NEW e \in S, e \notin Range(s), IsInjective(s),
         NEW u, u = <<e>> \o s \/ u = Append(s, e)
  PROVE  u \in Seq(S) /\ Range(u) = Range(s) \cup {e} /\ IsInjective(u)
  <1>1. CASE u = <<e>> \o s
    <2>1. /\ <<e>> \o s \in Seq(S) /\ Range(<<e>> \o s) = Range(s) \cup {e}
          /\ IsInjective(<<e>> \o s)
      BY PutFirst
    <2> QED
      BY <1>1, <2>1
  <1>2. CASE u = Append(s, e)
    <2>1. /\ Append(s, e) \in Seq(S) /\ Range(Append(s, e)) = Range(s) \cup {e}
          /\ IsInjective(Append(s, e))
      BY AppendElement
    <2> QED
      BY <1>2, <2>1
  <1> QED
    BY <1>1, <1>2

-----------------------------------------------------------------------------
(* More memory.                                                            *)

\* A new piece belongs to one thread; nothing was carved from it.  The loop takes an
\* item's size off what is left, or nothing.
LEMMA StartAddingStep ==
  ASSUME ItemsInv, NEW t \in Threads, NEW base \in Nat, NEW bytes \in Nat, NEW step \in Nat,
         StartAdding(t, base, bytes, bytes, step), step = itemSize \/ step = 0
  PROVE  ItemsInv'
  <1> DEFINE n == Len(pieces) + 1
             r == [base |-> base, size |-> bytes]
             a == [piece |-> n, index |-> 0, left |-> bytes, step |-> step]
  <1>0. /\ TypeOK /\ made /\ adding[t] = NotAdding
        /\ pieces' = Append(pieces, r) /\ adding' = [adding EXCEPT ![t] = a]
        /\ UNCHANGED <<poolVars, free, held>>
    BY DEF ItemsInv, StartAdding, Idle
  <1>1. pieces \in Seq([base : Nat, size : Nat]) /\ r \in [base : Nat, size : Nat]
    BY <1>0 DEF TypeOK
  <1>2. /\ pieces' \in Seq([base : Nat, size : Nat]) /\ n \in Nat /\ n = Len(pieces')
        /\ n \in DOMAIN pieces' /\ n \notin DOMAIN pieces /\ pieces'[n] = r
        /\ \A i \in DOMAIN pieces : i \in DOMAIN pieces' /\ pieces'[i] = pieces[i]
    <2> HIDE DEF r
    <2>1. /\ pieces' \in Seq([base : Nat, size : Nat]) /\ Len(pieces') = Len(pieces) + 1
          /\ \A i \in 1..Len(pieces) : pieces'[i] = pieces[i]
          /\ pieces'[Len(pieces) + 1] = r
      BY <1>0, <1>1, AppendProperties
    <2>2. Len(pieces) \in Nat /\ DOMAIN pieces = 1..Len(pieces) /\ DOMAIN pieces' = 1..Len(pieces')
      BY <1>1, <2>1, LenProperties
    <2> QED
      BY <2>1, <2>2
  <1> HIDE DEF n
  <1>3. TypeOK'
    <2>1. adding' \in [Threads -> [piece : Nat, index : Nat, left : Int, step : Nat]]
      BY <1>0, <1>2 DEF TypeOK
    <2> QED
      BY <1>0, <1>2, <2>1 DEF TypeOK, poolVars
  <1>4. /\ UNCHANGED <<itemSize, alignment, request, made, overran, free, held>>
    BY <1>0 DEF poolVars
  <1>5. OneOwner' /\ NothingBefore'
    BY <1>0, <1>4 DEF ItemsInv, OneOwner, NothingBefore
  <1>6. /\ adding'[t] = a /\ a # NotAdding /\ \A u \in Threads : u # t => adding'[u] = adding[u]
    BY <1>0, <1>2 DEF TypeOK, NotAdding
  <1>7. ASSUME NEW b, InPool(b) PROVE InPool(b)'
    <2>1. Inside(b)' /\ b.piece # n
      BY <1>2, <1>4, <1>7 DEF InPool, Inside, End
    <2>2. \A u \in Threads : NotCarvedYet(u, b)'
      <3> SUFFICES ASSUME NEW u \in Threads PROVE NotCarvedYet(u, b)'
        OBVIOUS
      <3>1. CASE u = t
        BY <1>6, <2>1, <3>1 DEF NotCarvedYet
      <3>2. CASE u # t
        BY <1>6, <1>7, <3>2 DEF NotCarvedYet, InPool
      <3> QED
        BY <3>1, <3>2
    <2> QED
      BY <2>1, <2>2 DEF InPool
  <1>8. AllInPool'
    BY <1>4, <1>7 DEF ItemsInv, AllInPool
  <1>9. AddingInv'
    <2>1. \A u \in Threads : u # t => adding'[u] = adding[u] /\ adding'[u].piece # n
      <3> SUFFICES ASSUME NEW u \in Threads, u # t PROVE adding[u].piece # n
        BY <1>6
      <3>1. CASE adding[u] = NotAdding
        <4>1. n # 0
          BY <1>2, LenProperties DEF n
        <4> QED
          BY <3>1, <4>1 DEF NotAdding
      <3>2. CASE adding[u] # NotAdding
        BY <1>2, <3>2 DEF ItemsInv, AddingInv
      <3> QED
        BY <3>1, <3>2
    <2>2. ASSUME NEW u \in Threads, u # t, adding[u] # NotAdding
          PROVE  /\ adding[u].piece \in DOMAIN pieces'
                 /\ \A v \in Threads : v # u => adding'[v].piece # adding[u].piece
                 /\ adding[u].step # 0 =>
                      /\ adding[u].step = itemSize
                      /\ adding[u].index * itemSize + adding[u].left = pieces'[adding[u].piece].size
      <3>1. /\ adding[u].piece \in DOMAIN pieces
            /\ \A v \in Threads : v # u => adding[v].piece # adding[u].piece
            /\ adding[u].step # 0 =>
                 /\ adding[u].step = itemSize
                 /\ adding[u].index * itemSize + adding[u].left = pieces[adding[u].piece].size
        BY <2>2 DEF ItemsInv, AddingInv
      <3>2. ASSUME NEW v \in Threads, v # u PROVE adding'[v].piece # adding[u].piece
        <4>1. CASE v = t
          <5>1. adding'[v].piece = n
            BY <1>6, <4>1
          <5> QED
            BY <1>2, <3>1, <5>1
        <4>2. CASE v # t
          BY <1>6, <3>1, <3>2, <4>2
        <4> QED
          BY <4>1, <4>2
      <3> QED
        BY <1>2, <3>1, <3>2
    <2>3. /\ a.piece \in DOMAIN pieces'
          /\ \A v \in Threads : v # t => adding'[v].piece # a.piece
          /\ a.step # 0 => /\ a.step = itemSize
                           /\ a.index * itemSize + a.left = pieces'[a.piece].size
      BY <1>0, <1>2, <2>1 DEF TypeOK
    <2> HIDE DEF a
    <2> QED
      BY <1>4, <1>6, <2>1, <2>2, <2>3 DEF AddingInv
  <1> QED
    BY <1>3, <1>5, <1>8, <1>9 DEF ItemsInv

\* Where the loop counts what is left, its next item lies inside its piece.
LEMMA RoomForNext ==
  ASSUME ItemsInv, NEW t \in Threads, adding[t] # NotAdding, adding[t].left >= itemSize,
         adding[t].step # 0
  PROVE  Inside(NextItem(adding[t]))
  <1>a. PICK a : a = adding[t]
    OBVIOUS
  <1>1. /\ a \in [piece : Nat, index : Nat, left : Int, step : Nat] /\ itemSize \in Nat
        /\ a.piece \in DOMAIN pieces /\ pieces \in Seq([base : Nat, size : Nat])
        /\ a.index * itemSize + a.left = pieces[a.piece].size /\ a.left >= itemSize
    BY <1>a DEF ItemsInv, TypeOK, AddingInv
  <1>2. pieces[a.piece].size \in Nat
    <2>1. a.piece \in 1..Len(pieces)
      BY <1>1, LenProperties
    <2>2. pieces[a.piece] \in [base : Nat, size : Nat]
      BY <1>1, <2>1, ElementOfSeq
    <2> QED
      BY <2>2
  <1>3. PICK m, z, x, l : m = a.index * itemSize /\ z = pieces[a.piece].size /\ x = itemSize /\ l = a.left
    OBVIOUS
  <1>4. m \in Nat /\ (a.index + 1) * itemSize = m + x
    <2>1. a.index \in Nat /\ x \in Nat /\ m = a.index * x
      BY <1>1, <1>3
    <2>2. m \in Nat /\ (a.index + 1) * x = m + x
      BY ONLY <2>1
    <2> QED
      BY <1>3, <2>2
  <1>5. m + x <= z
    <2>1. m + l = z /\ l >= x /\ l \in Int /\ x \in Nat /\ z \in Nat
      BY <1>1, <1>2, <1>3
    <2> QED
      BY ONLY <1>4, <2>1
  <1> QED
    BY <1>a, <1>1, <1>3, <1>4, <1>5 DEF Inside, End, NextItem

\* The item pushed is the next of its thread's piece: nobody has it yet, and it lies
\* inside the piece.
LEMMA PushStep ==
  ASSUME ItemsInv, NEW t \in Threads, Push(t) \/ (CppPush(t) /\ adding[t].step # 0)
  PROVE  ItemsInv'
  <1>a. PICK a : a = adding[t]
    OBVIOUS
  <1> DEFINE e == [piece |-> a.piece, index |-> a.index]
             r == [piece |-> a.piece, index |-> a.index + 1, left |-> a.left - a.step, step |-> a.step]
  <1>0. /\ TypeOK /\ OneOwner /\ AllInPool /\ AddingInv /\ a # NotAdding /\ a.left >= itemSize
        /\ free' = <<e>> \o free \/ free' = Append(free, e)
        /\ adding' = [adding EXCEPT ![t] = r]
        /\ UNCHANGED <<made, request, itemSize, alignment, overran, pieces, held>>
    BY <1>a DEF ItemsInv, Push, CppPush, Advanced, NextItem, poolVars
  <1>1. /\ a \in [piece : Nat, index : Nat, left : Int, step : Nat] /\ e \in Blocks
        /\ itemSize \in Nat
    BY <1>0, <1>a DEF TypeOK, Blocks
  <1>2. /\ a.piece \in DOMAIN pieces
        /\ a.step # 0 => a.step = itemSize /\ a.index * itemSize + a.left = pieces[a.piece].size
        /\ \A u \in Threads : u # t => adding[u].piece # a.piece
    BY <1>0, <1>a DEF AddingInv
  <1>b. Inside(e)
    <2>1. CASE Push(t)
      BY <1>a, <2>1 DEF Push, NextItem
    <2>2. CASE adding[t].step # 0
      BY <1>0, <1>a, <2>2, RoomForNext DEF NextItem
    <2> QED
      BY <2>1, <2>2
  <1>3. /\ r \in [piece : Nat, index : Nat, left : Int, step : Nat]
        /\ r.piece = a.piece /\ r.index = a.index + 1 /\ r.left = a.left - a.step /\ r.step = a.step
    <2>1. a.index + 1 \in Nat /\ a.left - a.step \in Int
      BY <1>1
    <2> QED
      BY <1>1, <1>2, <2>1
  <1>4. /\ adding'[t] = r /\ \A u \in Threads : u # t => adding'[u] = adding[u]
        /\ adding' \in [Threads -> [piece : Nat, index : Nat, left : Int, step : Nat]]
    BY <1>0, <1>3 DEF TypeOK
  <1>5. \A b : InPool(b) => b # e
    <2>1. \A b : InPool(b) /\ b = e => a.index < a.index
      BY <1>0, <1>a DEF InPool, NotCarvedYet
    <2> QED
      BY <1>1, <2>1
  <1>6. free \in Seq(Blocks) /\ e \notin Range(free) /\ \A u \in Threads : e \notin held[u]
    BY <1>0, <1>5 DEF TypeOK, AllInPool
  <1>7. /\ free' \in Seq(Blocks) /\ Range(free') = Range(free) \cup {e} /\ IsInjective(free')
    <2>1. IsInjective(free)
      BY <1>0 DEF OneOwner
    <2> HIDE DEF e
    <2> QED
      BY <1>0, <1>1, <1>6, <2>1, PutEither
  <1>8. /\ (a.index + 1) * itemSize = a.index * itemSize + itemSize
        /\ a.index * itemSize \in Nat
    BY <1>1
  <1>9. a.piece \in DOMAIN pieces /\ e.piece = a.piece /\ e.index = a.index
    BY <1>2
  <1>10. pieces[a.piece].size \in Nat
    <2>1. pieces \in Seq([base : Nat, size : Nat]) /\ a.piece \in 1..Len(pieces)
      BY <1>0, <1>2, LenProperties DEF TypeOK
    <2>2. pieces[a.piece] \in [base : Nat, size : Nat]
      BY <2>1, ElementOfSeq
    <2> QED
      BY <2>2
  <1> HIDE DEF r
  <1>11. TypeOK'
    BY <1>0, <1>4, <1>7 DEF TypeOK
  <1>12. OneOwner'
    <2> HIDE DEF e
    <2> QED
      BY <1>0, <1>6, <1>7 DEF OneOwner
  <1>13. AllInPool'
    <2>1. ASSUME NEW b \in Blocks, InPool(b) PROVE InPool(b)'
      <3>1. Inside(b)'
        BY <1>0, <2>1 DEF InPool, Inside, End
      <3>2. ASSUME NEW u \in Threads PROVE NotCarvedYet(u, b)'
        <4>1. CASE u # t
          BY <1>4, <2>1, <4>1 DEF InPool, NotCarvedYet
        <4>2. CASE u = t
          <5>1. b.piece = a.piece => b.index < a.index
            BY <1>0, <1>a, <2>1 DEF InPool, NotCarvedYet
          <5>2. b.index \in Nat /\ a.index \in Nat
            BY <1>1 DEF Blocks
          <5> QED
            BY <1>3, <1>4, <4>2, <5>1, <5>2 DEF NotCarvedYet
        <4> QED
          BY <4>1, <4>2
      <3> QED
        BY <3>1, <3>2 DEF InPool
    <2>2. InPool(e)'
      <3>1. Inside(e)'
        BY <1>0, <1>b DEF Inside, End
      <3>2. ASSUME NEW u \in Threads PROVE NotCarvedYet(u, e)'
        <4>1. CASE u # t
          BY <1>2, <1>4, <1>9, <4>1 DEF NotCarvedYet
        <4>2. CASE u = t
          BY <1>1, <1>3, <1>4, <1>9, <4>2 DEF NotCarvedYet
        <4> QED
          BY <4>1, <4>2
      <3> QED
        BY <3>1, <3>2 DEF InPool
    <2>3. \A b \in Range(free) : b \in Blocks
      BY <1>6 DEF Range
    <2>4. \A u \in Threads : \A b \in held[u] : b \in Blocks
      BY <1>0 DEF TypeOK
    <2> HIDE DEF e
    <2> QED
      BY <1>0, <1>7, <2>1, <2>2, <2>3, <2>4 DEF AllInPool
  <1>14. AddingInv'
    <2>1. r.step # 0 => r.step = itemSize /\ r.index * itemSize + r.left = pieces[a.piece].size
      BY <1>1, <1>2, <1>3, <1>8, <1>10
    <2> QED
      BY <1>0, <1>2, <1>3, <1>4, <2>1 DEF AddingInv
  <1>15. NothingBefore'
    BY <1>0, <1>a DEF ItemsInv, NothingBefore
  <1> QED
    BY <1>11, <1>12, <1>13, <1>14, <1>15 DEF ItemsInv

LEMMA AddedStep ==
  ASSUME ItemsInv, NEW t \in Threads, Added(t)
  PROVE  ItemsInv'
  <1>0. /\ UNCHANGED <<made, request, itemSize, alignment, overran, pieces, free, held>>
        /\ adding' = [adding EXCEPT ![t] = NotAdding] /\ adding[t] # NotAdding
    BY DEF Added, poolVars
  <1>1. NotAdding \in [piece : Nat, index : Nat, left : Int, step : Nat] /\ NotAdding.piece = 0
    BY DEF NotAdding
  <1>2. /\ adding' \in [Threads -> [piece : Nat, index : Nat, left : Int, step : Nat]]
        /\ adding'[t] = NotAdding /\ \A u \in Threads : u # t => adding'[u] = adding[u]
    BY <1>0, <1>1 DEF ItemsInv, TypeOK
  <1>3. TypeOK' /\ OneOwner'
    BY <1>0, <1>2 DEF ItemsInv, TypeOK, OneOwner
  <1>4. AllInPool'
    <2>1. \A b : InPool(b) => InPool(b)'
      BY <1>0, <1>2 DEF InPool, Inside, End, NotCarvedYet
    <2> QED
      BY <1>0, <2>1 DEF ItemsInv, AllInPool
  <1>5. AddingInv'
    <2>1. \A i \in DOMAIN pieces : i # 0
      BY LenProperties DEF ItemsInv, TypeOK
    <2> QED
      BY <1>0, <1>1, <1>2, <2>1 DEF ItemsInv, AddingInv
  <1>6. NothingBefore'
    BY <1>0, <1>2 DEF ItemsInv, NothingBefore
  <1> QED
    BY <1>3, <1>4, <1>5, <1>6 DEF ItemsInv

-----------------------------------------------------------------------------
(* Allocation: the top of the stack changes hands.                         *)

\* A step that neither makes a pool nor adds memory keeps what an item is.
LEMMA SameItems ==
  ASSUME UNCHANGED <<poolVars, pieces, adding>>, NEW b
  PROVE  InPool(b) <=> InPool(b)'
  BY DEF poolVars, InPool, Inside, End, NotCarvedYet

\* A step that only moves items of the pool keeps all but OneOwner.
LEMMA MoveStep ==
  ASSUME ItemsInv, UNCHANGED <<poolVars, pieces, adding>>, made,
         free' \in Seq(Blocks), held' \in [Threads -> SUBSET Blocks], OneOwner',
         \A b \in Range(free') : InPool(b),
         \A t \in Threads : \A b \in held'[t] : InPool(b)
  PROVE  ItemsInv'
  <1>0. UNCHANGED <<made, request, itemSize, alignment, overran, pieces, adding>>
    BY DEF poolVars
  <1>1. TypeOK' /\ NothingBefore'
    BY <1>0 DEF ItemsInv, TypeOK, NothingBefore
  <1>2. AddingInv'
    BY <1>0 DEF ItemsInv, AddingInv
  <1>3. AllInPool'
    BY SameItems DEF AllInPool
  <1> QED
    BY <1>1, <1>2, <1>3 DEF ItemsInv

LEMMA AllocateStep ==
  ASSUME ItemsInv, NEW t \in Threads, MemoryPoolAllocate(t)
  PROVE  ItemsInv'
  <1> DEFINE e == Head(free)
  <1>0. /\ free \in Seq(Blocks) /\ free # <<>> /\ held \in [Threads -> SUBSET Blocks] /\ made
        /\ free' = Tail(free) /\ held' = [held EXCEPT ![t] = @ \cup {e}]
        /\ UNCHANGED <<poolVars, pieces, adding>> /\ OneOwner
    BY DEF ItemsInv, TypeOK, MemoryPoolAllocate, Idle
  <1>1. /\ e \in Blocks /\ free' \in Seq(Blocks) /\ e \in Range(free)
        /\ Range(free) = Range(free') \cup {e} /\ IsInjective(free') /\ e \notin Range(free')
    BY <1>0, TakeHead DEF OneOwner
  <1> HIDE DEF e
  <1>2. /\ held' \in [Threads -> SUBSET Blocks] /\ held'[t] = held[t] \cup {e}
        /\ \A u \in Threads : u # t => held'[u] = held[u]
    BY <1>0, <1>1
  <1>3. \A u \in Threads : e \notin held[u]
    BY <1>0, <1>1 DEF OneOwner
  <1>4. OneOwner'
    BY <1>0, <1>1, <1>2, <1>3 DEF OneOwner
  <1>5. /\ \A b \in Range(free') : InPool(b)
        /\ \A u \in Threads : \A b \in held'[u] : InPool(b)
    BY <1>1, <1>2 DEF ItemsInv, AllInPool
  <1> QED
    BY <1>0, <1>1, <1>2, <1>4, <1>5, MoveStep

LEMMA FreeStep ==
  ASSUME ItemsInv, NEW t \in Threads, NEW b \in held[t], MemoryPoolFree(t, b) \/ Free(t, b)
  PROVE  ItemsInv'
  <1>0. /\ free \in Seq(Blocks) /\ held \in [Threads -> SUBSET Blocks] /\ made /\ b \in Blocks
        /\ free' = <<b>> \o free \/ free' = Append(free, b)
        /\ held' = [held EXCEPT ![t] = @ \ {b}]
        /\ UNCHANGED <<poolVars, pieces, adding>> /\ OneOwner
    BY DEF ItemsInv, TypeOK, MemoryPoolFree, Free, Idle
  <1>1. b \notin Range(free) /\ IsInjective(free)
    BY <1>0 DEF OneOwner
  <1>2. free' \in Seq(Blocks) /\ Range(free') = Range(free) \cup {b} /\ IsInjective(free')
    BY <1>0, <1>1, PutEither
  <1>3. /\ held' \in [Threads -> SUBSET Blocks] /\ held'[t] = held[t] \ {b}
        /\ \A u \in Threads : u # t => held'[u] = held[u]
    BY <1>0
  <1>4. OneOwner'
    BY <1>0, <1>2, <1>3 DEF OneOwner
  <1>5. /\ \A c \in Range(free') : InPool(c)
        /\ \A u \in Threads : \A c \in held'[u] : InPool(c)
    BY <1>2, <1>3 DEF ItemsInv, AllInPool
  <1> QED
    BY <1>0, <1>2, <1>3, <1>4, <1>5, MoveStep

\* A step that makes no pool keeps the size of an item.
LEMMA FitsStays ==
  ASSUME Fits, UNCHANGED poolVars
  PROVE  Fits'
  BY DEF poolVars, Fits

LEMMA PoolStutters ==
  ASSUME ItemsInv, UNCHANGED vars
  PROVE  ItemsInv'
  <1>1. UNCHANGED <<made, request, itemSize, alignment, overran, pieces, free, held, adding>>
    BY DEF vars, poolVars
  <1> QED
    BY <1>1 DEF ItemsInv, TypeOK, OneOwner, AllInPool, InPool, Inside, End, NotCarvedYet,
                AddingInv, NothingBefore

\* Every item is as well aligned as its memory when the alignment divides its size.
LEMMA HeldAreAligned ==
  ASSUME ItemsInv, made => alignment \in Nat \ {0} /\ itemSize % alignment = 0
  PROVE  HeldAligned
  <1> SUFFICES ASSUME NEW t \in Threads, NEW b \in held[t], pieces[b.piece].base % alignment = 0
               PROVE  (pieces[b.piece].base + Begin(b)) % alignment = 0
    BY DEF HeldAligned, Aligned
  <1>1. b \in Blocks /\ b.piece \in DOMAIN pieces /\ made
    BY DEF ItemsInv, TypeOK, AllInPool, InPool, Inside, NothingBefore
  <1>2. pieces[b.piece].base \in Nat
    <2>1. pieces \in Seq([base : Nat, size : Nat]) /\ b.piece \in 1..Len(pieces)
      BY <1>1, LenProperties DEF ItemsInv, TypeOK
    <2>2. pieces[b.piece] \in [base : Nat, size : Nat]
      BY <2>1, ElementOfSeq
    <2> QED
      BY <2>2
  <1>3. itemSize \in Nat /\ alignment \in Nat \ {0} /\ itemSize % alignment = 0 /\ b.index \in Nat
    BY <1>1 DEF ItemsInv, TypeOK, Blocks
  <1> QED
    BY <1>2, <1>3, ItemsAligned DEF Begin

LEMMA PoolInvParts == ItemsInv /\ Fits <=> PoolInv
  <1>1. ASSUME ItemsInv, Fits, made PROVE alignment \in Nat \ {0} /\ itemSize % alignment = 0
    BY <1>1 DEF Fits, ItemsInv, TypeOK, PointerSize
  <1> QED
    BY <1>1, HeldAreAligned DEF PoolInv

LEMMA PoolInvNext == ItemsInv' /\ Fits' <=> PoolInv'
  BY PoolInvParts, PTL

-----------------------------------------------------------------------------
(* The pool in C.                                                          *)

\* The inductive invariant: also after an overrun the model stands where the loop left
\* its memory.
OverrunInv == overran => \E t \in Threads : Endless(t)
CInv == ItemsInv /\ Fits /\ OverrunInv

\* Where nothing ran past its memory yet, every step but one keeps it so.
LEMMA CalmStep ==
  ASSUME CInv, ~overran, [Next]_vars
  PROVE  CInv'
  <1>0. ItemsInv /\ Fits
    BY DEF CInv
  <1>a. ASSUME ItemsInv', Fits', UNCHANGED overran PROVE CInv'
    BY <1>a DEF CInv, OverrunInv
  <1>1. ASSUME NEW size \in Sizes, NEW a \in Alignments,
               \/ \E count \in Counts, base \in Bases : CreateMemoryPool(size, count, a, base)
               \/ \E bytes \in CreateMemory : CreateMemoryPoolStatic(size, bytes, a)
        PROVE  CInv'
    BY <1>0, <1>1, <1>a, CreateStep, CreateStaticStep
  <1>2. ASSUME NEW t \in Threads, NEW count \in Counts, NEW base \in Bases,
               AddExtraMemoryToPool(t, count, base)
        PROVE  CInv'
    <2>1. base \in Nat /\ count \in Nat /\ itemSize \in Nat
      BY <1>0, ConstantsAssumption DEF ItemsInv, TypeOK
    <2>2. count * itemSize \in Nat
      BY <2>1, ProductIsNatural
    <2>3. ItemsInv'
      BY <1>0, <1>2, <2>1, <2>2, StartAddingStep DEF AddExtraMemoryToPool
    <2>4. UNCHANGED poolVars
      BY <1>2 DEF AddExtraMemoryToPool, StartAdding
    <2> QED
      BY <1>0, <1>a, <2>3, <2>4, FitsStays DEF poolVars
  <1>3. ASSUME NEW t \in Threads, NEW bytes \in ExtraMemory, AddExtraMemoryToPoolStatic(t, bytes)
        PROVE  CInv'
    <2>1. bytes \in Nat
      BY ConstantsAssumption
    <2>2. ItemsInv'
      BY <1>0, <1>3, <2>1, StartAddingStep DEF AddExtraMemoryToPoolStatic
    <2>3. UNCHANGED poolVars
      BY <1>3 DEF AddExtraMemoryToPoolStatic, StartAdding
    <2> QED
      BY <1>0, <1>a, <2>2, <2>3, FitsStays DEF poolVars
  <1>4. ASSUME NEW t \in Threads, Push(t) \/ Added(t) \/ MemoryPoolAllocate(t)
        PROVE  CInv'
    <2>1. ItemsInv'
      BY <1>0, <1>4, PushStep, AddedStep, AllocateStep
    <2>2. UNCHANGED poolVars
      BY <1>4 DEF Push, Added, MemoryPoolAllocate
    <2> QED
      BY <1>0, <1>a, <2>1, <2>2, FitsStays DEF poolVars
  <1>5. ASSUME NEW t \in Threads, NEW b \in held[t], MemoryPoolFree(t, b)
        PROVE  CInv'
    <2>1. ItemsInv'
      BY <1>0, <1>5, FreeStep
    <2>2. UNCHANGED poolVars
      BY <1>5 DEF MemoryPoolFree
    <2> QED
      BY <1>0, <1>a, <2>1, <2>2, FitsStays DEF poolVars
  <1>6. ASSUME NEW t \in Threads, PushOutside(t)
        PROVE  CInv'
    <2>1. /\ adding[t] # NotAdding /\ adding[t].left >= itemSize /\ ~Inside(NextItem(adding[t]))
          /\ overran' = TRUE
          /\ UNCHANGED <<made, request, itemSize, alignment, pieces, free, held, adding>>
      BY <1>6 DEF PushOutside
    <2>2. adding[t].step = 0
      BY <1>0, <2>1, RoomForNext
    <2>3. ItemsInv'
      BY <1>0, <2>1
      DEF ItemsInv, TypeOK, OneOwner, AllInPool, InPool, Inside, End, NotCarvedYet, AddingInv,
          NothingBefore
    <2>4. Fits'
      BY <1>0, <2>1 DEF Fits
    <2>5. Endless(t)'
      BY <2>1, <2>2 DEF Endless
    <2> QED
      BY <2>3, <2>4, <2>5 DEF CInv, OverrunInv
  <1>7. CASE UNCHANGED vars
    <2>1. UNCHANGED poolVars
      BY <1>7 DEF vars
    <2> QED
      BY <1>0, <1>7, <1>a, <2>1, PoolStutters, FitsStays DEF poolVars
  <1> QED
    BY <1>1, <1>2, <1>3, <1>4, <1>5, <1>6, <1>7 DEF Next

\* After it there is no step: a pool exists.
LEMMA NoMoreSteps ==
  ASSUME CInv, overran
  PROVE  ~Next
  <1>1. PICK t \in Threads : adding[t] # NotAdding
    BY DEF CInv, OverrunInv, Endless
  <1>2. made
    BY <1>1 DEF CInv, ItemsInv, NothingBefore
  <1> QED
    BY <1>2
    DEF Next, CreateMemoryPool, CreateMemoryPoolStatic, NewPool, AddExtraMemoryToPool,
        AddExtraMemoryToPoolStatic, StartAdding, MemoryPoolAllocate, MemoryPoolFree, Idle, Push,
        PushOutside, Added

LEMMA PoolStep ==
  ASSUME CInv, [Next]_vars
  PROVE  CInv'
  <1>1. CASE ~overran
    BY <1>1, CalmStep
  <1>2. CASE overran
    <2>1. UNCHANGED vars
      BY <1>2, NoMoreSteps
    <2>2. ItemsInv' /\ UNCHANGED poolVars
      BY <2>1, PoolStutters DEF CInv, vars
    <2>3. Fits'
      BY <2>2, FitsStays DEF CInv
    <2>4. UNCHANGED <<adding, itemSize, overran>>
      BY <2>1 DEF vars, poolVars
    <2>5. OverrunInv'
      BY <2>4 DEF CInv, OverrunInv, Endless
    <2> QED
      BY <2>2, <2>3, <2>5 DEF CInv
  <1> QED
    BY <1>1, <1>2

\* For any threads, sizes, alignments and memory the callers add: as long as no loop ran
\* past the memory it carves, every item lies inside its memory, has room for the node
\* and what was asked, is as well aligned as its memory, and has one owner.  And the only
\* loop that ever does is AddExtraMemoryToPoolStatic's, which never ends (mem_pool.c).
THEOREM PoolIsSound == Spec => []SoundUntilOverrun /\ []CPool
  <1>1. Init => CInv
    BY InitItems DEF Init, Fits, CInv, OverrunInv
  <1>2. CInv /\ [Next]_vars => CInv'
    BY PoolStep
  <1>3. CInv => SoundUntilOverrun
    BY PoolInvParts DEF CInv, OverrunInv, SoundUntilOverrun
  <1>4. SoundUntilOverrun => CPool
    BY DEF CPool
  <1> QED
    BY <1>1, <1>2, <1>3, <1>4, PTL DEF Spec

-----------------------------------------------------------------------------
(* The pool in C++.                                                        *)

\* What CppItemSize returns has room for what was asked and is a multiple of the
\* alignment.
LEMMA CppItemHasRoom ==
  ASSUME NEW size \in Nat \ {0}, NEW a \in Nat \ {0}
  PROVE  /\ CppItemSize(size, a) \in Nat \ {0} /\ size <= CppItemSize(size, a)
         /\ CppItemSize(size, a) % a = 0
  <1>1. PICK q, r : q = size \div a /\ r = size % a
    OBVIOUS
  <1>2. q \in Nat /\ r \in 0..(a - 1) /\ size = q * a + r
    BY <1>1, Division
  <1>3. PICK k : k = IF size <= a THEN 1 ELSE IF r # 0 THEN q + 1 ELSE q
    OBVIOUS
  <1>4. k \in Nat /\ CppItemSize(size, a) = k * a
    BY <1>1, <1>2, <1>3 DEF CppItemSize
  <1>5. size <= k * a
    <2>1. (q + 1) * a = q * a + a
      BY <1>2
    <2> QED
      BY <1>2, <1>3, <2>1
  <1> QED
    BY <1>4, <1>5, Multiples, ProductIsNatural

LEMMA CppCarvedItems ==
  ASSUME NEW p \in Nat, NEW n \in Nat
  PROVE  /\ CppCarved(p, n) \in Seq(Blocks) /\ IsInjective(CppCarved(p, n))
         /\ \A b \in Range(CppCarved(p, n)) : b.piece = p /\ b.index \in Nat /\ b.index < n
  <1>1. /\ DOMAIN CppCarved(p, n) = 1..n
        /\ \A i \in 1..n : CppCarved(p, n)[i] = [piece |-> p, index |-> i - 1]
    BY DEF CppCarved
  <1>2. \A i \in 1..n : /\ CppCarved(p, n)[i] \in Blocks /\ CppCarved(p, n)[i].piece = p
                        /\ CppCarved(p, n)[i].index = i - 1
    BY <1>1 DEF Blocks
  <1>3. CppCarved(p, n) \in Seq(Blocks)
    BY <1>2 DEF CppCarved
  <1>4. IsInjective(CppCarved(p, n))
    BY <1>1, <1>2 DEF IsInjective
  <1>5. \A b \in Range(CppCarved(p, n)) : b.piece = p /\ b.index \in Nat /\ b.index < n
    BY <1>1, <1>2 DEF Range
  <1> QED
    BY <1>3, <1>4, <1>5

LEMMA CppNewPoolFits ==
  ASSUME NEW size \in Nat \ {0}, NEW a \in Nat, CppNewPool(size, a)
  PROVE  /\ ~made /\ made' = TRUE /\ UNCHANGED <<held, adding, overran>>
         /\ request' \in Nat /\ itemSize' \in Nat \ {0} /\ alignment' \in Nat /\ CppFits'
  <1>1. /\ alignment' \in Nat \ {0} /\ alignment' >= PointerSize
        /\ itemSize' = CppItemSize(size, alignment')
    BY AlignmentIsPositive DEF CppNewPool, PointerSize
  <1>2. /\ itemSize' \in Nat \ {0} /\ size <= itemSize' /\ itemSize' % alignment' = 0
    BY <1>1, CppItemHasRoom
  <1> QED
    BY <1>1, <1>2 DEF CppNewPool, CppFits

LEMMA CppCreateStep ==
  ASSUME ItemsInv, NEW size \in Sizes, NEW a \in Alignments, NEW count \in Counts, NEW base \in Bases,
         CppCreate(size, count, a, base)
  PROVE  ItemsInv' /\ CppFits'
  <1>1. /\ size \in Nat \ {0} /\ a \in Nat /\ count \in Nat /\ base \in Nat
    BY ConstantsAssumption
  <1>2. /\ ~made /\ made' = TRUE /\ UNCHANGED <<held, adding, overran>>
        /\ request' \in Nat /\ itemSize' \in Nat /\ alignment' \in Nat /\ CppFits'
    BY <1>1, CppNewPoolFits DEF CppCreate
  <1>3. PICK bytes : bytes = count * itemSize'
    OBVIOUS
  <1>4. bytes \in Nat /\ count * itemSize' <= bytes
    <2>1. count * itemSize' \in Nat
      BY ONLY <1>1, <1>2, ProductIsNatural
    <2> QED
      BY <1>3, <2>1
  <1>5. pieces' = <<[base |-> base, size |-> bytes]>> /\ free' = CppCarved(1, count)
    BY <1>3 DEF CppCreate
  <1>6. /\ free' \in Seq(Blocks) /\ IsInjective(free')
        /\ \A b \in Range(free') : b.piece = 1 /\ b.index \in Nat /\ b.index < count
    BY <1>1, <1>5, CppCarvedItems
  <1> QED
    BY <1>1, <1>2, <1>4, <1>5, <1>6, NewPoolStep

LEMMA CppCreateStaticStep ==
  ASSUME ItemsInv, NEW size \in Sizes, NEW a \in Alignments, NEW bytes \in CreateMemory,
         CppCreateStatic(size, bytes, a)
  PROVE  ItemsInv' /\ CppFits'
  <1>1. size \in Nat \ {0} /\ a \in Nat /\ bytes \in Nat
    BY ConstantsAssumption
  <1>2. /\ ~made /\ made' = TRUE /\ UNCHANGED <<held, adding, overran>>
        /\ request' \in Nat /\ itemSize' \in Nat \ {0} /\ alignment' \in Nat /\ CppFits'
    BY <1>1, CppNewPoolFits DEF CppCreateStatic
  <1>3. PICK n : n = bytes \div itemSize'
    OBVIOUS
  <1>4. n \in Nat /\ n * itemSize' <= bytes
    BY <1>1, <1>2, <1>3, Division
  <1>5. pieces' = <<[base |-> 0, size |-> bytes]>> /\ free' = CppCarved(1, n)
    BY <1>3 DEF CppCreateStatic
  <1>6. /\ free' \in Seq(Blocks) /\ IsInjective(free')
        /\ \A b \in Range(free') : b.piece = 1 /\ b.index \in Nat /\ b.index < n
    BY <1>4, <1>5, CppCarvedItems
  <1> QED
    BY <1>1, <1>2, <1>4, <1>5, <1>6, NewPoolStep

LEMMA CppFitsStays ==
  ASSUME CppFits, UNCHANGED poolVars
  PROVE  CppFits'
  BY DEF poolVars, CppFits

\* The inductive invariant: every loop takes what it carves off what is left.
Counting == ~overran /\ \A t \in Threads : adding[t] # NotAdding => adding[t].step # 0
CppInv == ItemsInv /\ CppFits /\ Counting

\* A thread that starts to add memory, or goes on.
LEMMA CountingStays ==
  ASSUME TypeOK, Counting, UNCHANGED overran, NEW t \in Threads, NEW r, r = NotAdding \/ r.step # 0,
         adding' = [adding EXCEPT ![t] = r]
  PROVE  Counting'
  BY DEF TypeOK, Counting

LEMMA CppStep ==
  ASSUME CppInv, [CppNext]_vars
  PROVE  CppInv'
  <1>0. ItemsInv /\ CppFits /\ Counting /\ TypeOK
    BY DEF CppInv, ItemsInv
  <1>1. ASSUME NEW size \in Sizes, NEW a \in Alignments,
               \/ \E count \in Counts, base \in Bases : CppCreate(size, count, a, base)
               \/ \E bytes \in CreateMemory : CppCreateStatic(size, bytes, a)
        PROVE  CppInv'
    <2>1. ItemsInv' /\ CppFits'
      BY <1>0, <1>1, CppCreateStep, CppCreateStaticStep
    <2>2. UNCHANGED <<adding, overran>>
      BY <1>1 DEF CppCreate, CppCreateStatic, CppNewPool
    <2> QED
      BY <1>0, <2>1, <2>2 DEF CppInv, Counting
  <1>2. ASSUME NEW t \in Threads, NEW base \in Nat, NEW bytes \in Nat,
               StartAdding(t, base, bytes, bytes, itemSize)
        PROVE  CppInv'
    <2>1. ItemsInv' /\ UNCHANGED poolVars /\ itemSize \in Nat /\ itemSize # 0
      <3>1. itemSize \in Nat /\ made /\ UNCHANGED poolVars
        BY <1>0, <1>2 DEF TypeOK, StartAdding, Idle
      <3>2. itemSize # 0
        BY <1>0, <3>1 DEF CppFits
      <3>3. ItemsInv'
        BY <1>0, <1>2, <3>1, StartAddingStep
      <3> QED
        BY <3>1, <3>2, <3>3
    <2>2. PICK r : /\ r = [piece |-> Len(pieces) + 1, index |-> 0, left |-> bytes, step |-> itemSize]
                   /\ adding' = [adding EXCEPT ![t] = r]
      BY <1>2 DEF StartAdding
    <2>3. Counting'
      BY <1>0, <2>1, <2>2, CountingStays DEF poolVars
    <2> QED
      BY <1>0, <2>1, <2>3, CppFitsStays DEF CppInv
  <1>3. ASSUME NEW t \in Threads, NEW count \in Counts, NEW base \in Bases, AddMemory(t, count, base)
        PROVE  CppInv'
    <2>1. base \in Nat /\ count \in Nat /\ itemSize \in Nat
      BY <1>0, ConstantsAssumption DEF TypeOK
    <2>2. count * itemSize \in Nat
      BY <2>1, ProductIsNatural
    <2> QED
      BY <1>2, <1>3, <2>1, <2>2 DEF AddMemory
  <1>4. ASSUME NEW t \in Threads, NEW bytes \in ExtraMemory, AddMemoryStatic(t, bytes)
        PROVE  CppInv'
    BY <1>2, <1>4, ConstantsAssumption DEF AddMemoryStatic
  <1>5. ASSUME NEW t \in Threads, CppPush(t)
        PROVE  CppInv'
    <2>1. adding[t] # NotAdding /\ adding[t].step # 0 /\ UNCHANGED poolVars
      BY <1>0, <1>5 DEF CppPush, Counting
    <2>2. ItemsInv'
      BY <1>0, <1>5, <2>1, PushStep
    <2>3. PICK r : r = Advanced(adding[t]) /\ adding' = [adding EXCEPT ![t] = r]
      BY <1>5 DEF CppPush
    <2>4. Counting'
      BY <1>0, <2>1, <2>3, CountingStays DEF poolVars, Advanced
    <2> QED
      BY <1>0, <2>1, <2>2, <2>4, CppFitsStays DEF CppInv
  <1>6. ASSUME NEW t \in Threads, Added(t)
        PROVE  CppInv'
    <2>1. ItemsInv' /\ UNCHANGED poolVars /\ adding' = [adding EXCEPT ![t] = NotAdding]
      BY <1>0, <1>6, AddedStep DEF Added
    <2>2. Counting'
      BY <1>0, <2>1, CountingStays DEF poolVars
    <2> QED
      BY <1>0, <2>1, <2>2, CppFitsStays DEF CppInv
  <1>7. ASSUME ItemsInv', UNCHANGED <<poolVars, adding>>
        PROVE  CppInv'
    <2>1. UNCHANGED <<overran, adding>>
      BY <1>7 DEF poolVars
    <2>2. Counting'
      BY <1>0, <2>1 DEF Counting
    <2> QED
      BY <1>0, <1>7, <2>2, CppFitsStays DEF CppInv
  <1>8. ASSUME NEW t \in Threads, MemoryPoolAllocate(t)
        PROVE  CppInv'
    BY <1>0, <1>7, <1>8, AllocateStep DEF MemoryPoolAllocate
  <1>9. ASSUME NEW t \in Threads, NEW b \in held[t], Free(t, b)
        PROVE  CppInv'
    BY <1>0, <1>7, <1>9, FreeStep DEF Free
  <1>10. CASE UNCHANGED vars
    BY <1>0, <1>7, <1>10, PoolStutters DEF vars
  <1> QED
    BY <1>1, <1>3, <1>4, <1>5, <1>6, <1>8, <1>9, <1>10 DEF CppNext

\* For any threads, sizes and memory the callers add, also memory with room for many
\* items: every item lies inside its memory, is as large as was asked and as well
\* aligned as its memory, and has one owner (cmem_pool.cpp).
THEOREM CppPoolIsSound == CppSpec => []CppPoolInv /\ []CppPool
  <1>1. Init => CppInv
    BY InitItems DEF Init, CppFits, CppInv, Counting
  <1>2. CppInv /\ [CppNext]_vars => CppInv'
    BY CppStep
  <1>3. CppInv => CppPoolInv
    <2> SUFFICES ASSUME CppInv PROVE HeldAligned
      BY DEF CppInv, Counting, CppPoolInv
    <2> QED
      BY HeldAreAligned DEF CppInv, CppFits, ItemsInv, TypeOK, PointerSize
  <1>4. CppPoolInv => CppPool
    BY DEF CppPool
  <1> QED
    BY <1>1, <1>2, <1>3, <1>4, PTL DEF CppSpec

-----------------------------------------------------------------------------
(* The zero-copy queue.                                                    *)

\* A queue with some items of the pool, but not this one, is not full.
LEMMA RoomForMore ==
  ASSUME NEW n \in Nat, NEW q \in Seq(Blocks), IsInjective(q), Range(q) \subseteq Range(Carved(1, n)),
         NEW b \in Range(Carved(1, n)), b \notin Range(q)
  PROVE  Len(q) < n
  <1>1. PICK u : u = Append(q, b)
    OBVIOUS
  <1>2. Carved(1, n) \in Seq(Blocks) /\ b \in Blocks
    BY CarvedItems, RangeOfSeq
  <1>3. u \in Seq(Blocks) /\ Range(u) = Range(q) \cup {b} /\ IsInjective(u)
    BY <1>1, <1>2, AppendElement
  <1>4. Len(u) = Len(q) + 1 /\ Len(q) \in Nat /\ DOMAIN u = 1..Len(u)
    BY <1>1, <1>2, <1>3, AppendProperties, LenProperties
  <1>5. \A c, d \in Range(Carved(1, n)) :
          c.index \in Nat /\ c.index < n /\ (c.index = d.index => c = d)
    BY DEF Carved, Range
  <1> DEFINE f == [i \in 1..Len(u) |-> u[i].index + 1]
  <1>6. \A i \in 1..Len(u) : u[i] \in Range(Carved(1, n))
    BY <1>3, <1>4 DEF Range
  <1>7. f \in [1..Len(u) -> 1..n]
    BY <1>5, <1>6
  <1>8. \A i, j \in 1..Len(u) : f[i] = f[j] => i = j
    <2> SUFFICES ASSUME NEW i \in 1..Len(u), NEW j \in 1..Len(u), f[i] = f[j] PROVE i = j
      OBVIOUS
    <2>1. u[i].index \in Nat /\ u[j].index \in Nat /\ u[i].index + 1 = u[j].index + 1
      BY <1>5, <1>6
    <2>2. u[i] = u[j]
      BY <1>5, <1>6, <2>1
    <2> QED
      BY <1>3, <1>4, <2>2 DEF IsInjective
  <1>9. f \in Injection(1..Len(u), 1..n)
    BY <1>7, <1>8 DEF Injection, IsInjective
  <1>10. /\ IsFiniteSet(1..n) /\ Cardinality(1..n) = n
         /\ Cardinality(1..Len(u)) = Len(u)
    <2>1. 1 \in Int /\ n \in Int /\ Len(u) \in Int
      BY <1>4
    <2>2. /\ IsFiniteSet(1..n) /\ Cardinality(1..n) = IF 1 > n THEN 0 ELSE n - 1 + 1
          /\ Cardinality(1..Len(u)) = IF 1 > Len(u) THEN 0 ELSE Len(u) - 1 + 1
      BY <2>1, FS_Interval
    <2> QED
      BY <1>4, <2>2
  <1> HIDE DEF f
  <1>11. Cardinality(1..Len(u)) <= Cardinality(1..n)
    BY <1>9, <1>10, FS_Injection
  <1> QED
    BY <1>4, <1>10, <1>11

\* A step that moves items between the pool, the queue and the threads.
LEMMA ZcqMoveStep ==
  ASSUME ZcqInv, made, UNCHANGED <<poolVars, pieces, adding, length>>, ItemsInv',
         queue' \in Seq(Blocks), IsInjective(queue'), Everywhere' = Everywhere,
         \A b \in Range(queue') :
           InPool(b) /\ b \notin Range(free') /\ \A t \in Threads : b \notin held'[t]
  PROVE  ZcqInv'
  <1>1. PoolInv' /\ ~overran'
    <2>1. Fits'
      BY FitsStays DEF ZcqInv, NoItemIsLost, PoolInv
    <2> QED
      BY <2>1, PoolInvNext DEF ZcqInv, NoItemIsLost, poolVars
  <1>2. /\ made' /\ length' = length /\ length \in Nat /\ adding' = adding
        /\ Everywhere' = Range(Carved(1, length))
    BY DEF ZcqInv, NoItemIsLost, poolVars
  <1>3. ASSUME NEW t \in Threads, NEW b \in held'[t] PROVE Len(queue') < length
    <2>1. Range(queue') \subseteq Everywhere' /\ b \in Everywhere' /\ b \notin Range(queue')
      BY DEF Everywhere
    <2> QED
      BY <1>2, <2>1, RoomForMore
  <1>4. \A b \in Range(queue') : InPool(b)'
    BY SameItems
  <1> QED
    BY <1>1, <1>2, <1>3, <1>4 DEF ZcqInv, NoItemIsLost

LEMMA ZcqCreateStep ==
  ASSUME ZcqInv, NEW size \in Sizes, NEW a \in Alignments, NEW count \in Counts, NEW base \in Bases,
         ZcqCreateQueue(size, count, a, base)
  PROVE  ZcqInv'
  <1>1. ItemsInv /\ ~made /\ count \in Nat
    BY ConstantsAssumption
    DEF ZcqInv, NoItemIsLost, PoolInv, ZcqCreateQueue, CreateMemoryPool, NewPool
  <1>2. PoolInv' /\ ~overran'
    <2>1. ItemsInv' /\ Fits' /\ UNCHANGED overran
      BY <1>1, CreateStep DEF ZcqCreateQueue
    <2> QED
      BY <2>1, PoolInvNext DEF ZcqInv, NoItemIsLost
  <1>3. queue = <<>> /\ \A t \in Threads : held[t] = {} /\ adding[t] = NotAdding
    BY <1>1 DEF ZcqInv, ItemsInv, NothingBefore
  <1>4. /\ UNCHANGED <<queue, held, adding>> /\ length' = count /\ made' /\ free' = Carved(1, count)
    BY DEF ZcqCreateQueue, CreateMemoryPool, NewPool
  <1>5. Range(queue') = {} /\ IsInjective(queue') /\ queue' \in Seq(Blocks)
    BY <1>3, <1>4, EmptyQueue
  <1>6. Everywhere' = Range(Carved(1, length'))
    BY <1>3, <1>4, <1>5 DEF Everywhere
  <1> QED
    BY <1>1, <1>2, <1>3, <1>4, <1>5, <1>6 DEF ZcqInv, NoItemIsLost

LEMMA ZcqAllocateStep ==
  ASSUME ZcqInv, NEW t \in Threads, ZcqAllocateItem(t)
  PROVE  ZcqInv'
  <1> DEFINE e == Head(free)
  <1>1. /\ ItemsInv /\ made /\ free \in Seq(Blocks) /\ free # <<>> /\ held \in [Threads -> SUBSET Blocks]
        /\ free' = Tail(free) /\ held' = [held EXCEPT ![t] = @ \cup {e}]
        /\ UNCHANGED <<poolVars, pieces, adding, queue, length>>
    BY
       DEF ZcqInv, NoItemIsLost, PoolInv, ItemsInv, TypeOK, ZcqAllocateItem, MemoryPoolAllocate,
           Idle
  <1>2. ItemsInv'
    BY <1>1, AllocateStep DEF ZcqAllocateItem
  <1>3. Range(free) = Range(free') \cup {e}
    BY <1>1, TakeHead
  <1> HIDE DEF e
  <1>4. held'[t] = held[t] \cup {e} /\ \A u \in Threads : u # t => held'[u] = held[u]
    BY <1>1
  <1>5. Everywhere' = Everywhere
    BY <1>1, <1>3, <1>4 DEF Everywhere
  <1>6. \A b \in Range(queue') :
          InPool(b) /\ b \notin Range(free') /\ \A u \in Threads : b \notin held'[u]
    BY <1>1, <1>3, <1>4 DEF ZcqInv, NoItemIsLost
  <1>7. queue' \in Seq(Blocks) /\ IsInjective(queue')
    BY <1>1 DEF ZcqInv, NoItemIsLost
  <1> QED
    BY <1>1, <1>2, <1>5, <1>6, <1>7, ZcqMoveStep

LEMMA ZcqFreeStep ==
  ASSUME ZcqInv, NEW t \in Threads, NEW b \in held[t], ZcqFreeItem(t, b)
  PROVE  ZcqInv'
  <1>1. /\ ItemsInv /\ made /\ free \in Seq(Blocks) /\ held \in [Threads -> SUBSET Blocks] /\ b \in Blocks
        /\ free' = <<b>> \o free /\ held' = [held EXCEPT ![t] = @ \ {b}]
        /\ UNCHANGED <<poolVars, pieces, adding, queue, length>>
    BY DEF ZcqInv, NoItemIsLost, PoolInv, ItemsInv, TypeOK, ZcqFreeItem, MemoryPoolFree, Idle
  <1>2. ItemsInv'
    BY <1>1, FreeStep DEF ZcqFreeItem
  <1>3. Range(free') = Range(free) \cup {b}
    BY <1>1, PutFirst
  <1>4. held'[t] = held[t] \ {b} /\ \A u \in Threads : u # t => held'[u] = held[u]
    BY <1>1
  <1>5. Everywhere' = Everywhere
    BY <1>1, <1>3, <1>4 DEF Everywhere
  <1>6. \A c \in Range(queue') :
          InPool(c) /\ c \notin Range(free') /\ \A u \in Threads : c \notin held'[u]
    BY <1>1, <1>3, <1>4 DEF ZcqInv, NoItemIsLost
  <1>7. queue' \in Seq(Blocks) /\ IsInjective(queue')
    BY <1>1 DEF ZcqInv, NoItemIsLost
  <1> QED
    BY <1>1, <1>2, <1>5, <1>6, <1>7, ZcqMoveStep

LEMMA ZcqEnqueueStep ==
  ASSUME ZcqInv, NEW t \in Threads, NEW b \in held[t], ZcqEnqueueItem(t, b)
  PROVE  ZcqInv'
  <1>1. /\ ItemsInv /\ TypeOK /\ OneOwner /\ AllInPool /\ made /\ b \in Blocks
        /\ queue \in Seq(Blocks) /\ IsInjective(queue) /\ b \notin Range(queue)
    BY DEF ZcqInv, NoItemIsLost, PoolInv, ItemsInv, TypeOK, NothingBefore
  <1>2. /\ queue' = Append(queue, b) /\ held' = [held EXCEPT ![t] = @ \ {b}]
        /\ UNCHANGED <<poolVars, pieces, adding, free, length>>
    BY DEF ZcqEnqueueItem
  <1>3. /\ queue' \in Seq(Blocks) /\ Range(queue') = Range(queue) \cup {b} /\ IsInjective(queue')
    <2>1. /\ Append(queue, b) \in Seq(Blocks) /\ Range(Append(queue, b)) = Range(queue) \cup {b}
          /\ IsInjective(Append(queue, b))
      BY ONLY <1>1, AppendElement
    <2> QED
      BY <1>2, <2>1
  <1>4. /\ held'[t] = held[t] \ {b} /\ \A u \in Threads : u # t => held'[u] = held[u]
        /\ held' \in [Threads -> SUBSET Blocks]
    BY <1>1, <1>2 DEF TypeOK
  <1>5. ItemsInv'
    <2>1. OneOwner' /\ free' \in Seq(Blocks)
      BY <1>1, <1>2, <1>4 DEF OneOwner, TypeOK
    <2>2. /\ \A c \in Range(free') : InPool(c)
          /\ \A u \in Threads : \A c \in held'[u] : InPool(c)
      BY <1>1, <1>2, <1>4 DEF AllInPool
    <2> QED
      BY <1>1, <1>2, <1>4, <2>1, <2>2, MoveStep
  <1>6. Everywhere' = Everywhere
    BY <1>2, <1>3, <1>4 DEF Everywhere
  <1>7. \A c \in Range(queue') :
          InPool(c) /\ c \notin Range(free') /\ \A u \in Threads : c \notin held'[u]
    BY <1>1, <1>2, <1>3, <1>4 DEF ZcqInv, NoItemIsLost, OneOwner, AllInPool
  <1> QED
    BY <1>1, <1>2, <1>3, <1>5, <1>6, <1>7, ZcqMoveStep

LEMMA ZcqDequeueStep ==
  ASSUME ZcqInv, NEW t \in Threads, ZcqDequeueItem(t)
  PROVE  ZcqInv'
  <1> DEFINE e == Head(queue)
  <1>1. /\ ItemsInv /\ TypeOK /\ OneOwner /\ AllInPool /\ made /\ queue # <<>>
        /\ queue \in Seq(Blocks) /\ IsInjective(queue)
    BY DEF ZcqInv, NoItemIsLost, PoolInv, ItemsInv, ZcqDequeueItem
  <1>2. /\ queue' = Tail(queue) /\ held' = [held EXCEPT ![t] = @ \cup {e}]
        /\ UNCHANGED <<poolVars, pieces, adding, free, length>>
    BY DEF ZcqDequeueItem
  <1>3. /\ queue' \in Seq(Blocks) /\ Range(queue) = Range(queue') \cup {e} /\ IsInjective(queue')
        /\ e \in Blocks /\ e \notin Range(queue')
    BY <1>1, <1>2, TakeHead
  <1> HIDE DEF e
  <1>4. /\ held'[t] = held[t] \cup {e} /\ \A u \in Threads : u # t => held'[u] = held[u]
        /\ held' \in [Threads -> SUBSET Blocks]
    BY <1>1, <1>2, <1>3 DEF TypeOK
  <1>5. e \notin Range(free) /\ InPool(e) /\ \A u \in Threads : e \notin held[u]
    BY <1>3 DEF ZcqInv, NoItemIsLost
  <1>6. ItemsInv'
    <2>1. OneOwner' /\ free' \in Seq(Blocks)
      BY <1>1, <1>2, <1>4, <1>5 DEF OneOwner, TypeOK
    <2>2. /\ \A c \in Range(free') : InPool(c)
          /\ \A u \in Threads : \A c \in held'[u] : InPool(c)
      BY <1>1, <1>2, <1>4, <1>5 DEF AllInPool
    <2> QED
      BY <1>1, <1>2, <1>4, <2>1, <2>2, MoveStep
  <1>7. Everywhere' = Everywhere
    BY <1>2, <1>3, <1>4 DEF Everywhere
  <1>8. \A c \in Range(queue') :
          InPool(c) /\ c \notin Range(free') /\ \A u \in Threads : c \notin held'[u]
    BY <1>2, <1>3, <1>4 DEF ZcqInv, NoItemIsLost
  <1> QED
    BY <1>1, <1>2, <1>3, <1>6, <1>7, <1>8, ZcqMoveStep

\* For any threads, sizes and number of items: on its way from thread to thread no item
\* gets lost or doubled, and a thread that has one never finds the queue full
\* (zero_copy_queue.c).
THEOREM ZcqIsSound == ZcqSpec => []NoItemIsLost /\ []ZcqLosesNothing
  <1>1. ZcqInit => ZcqInv
    <2> SUFFICES ASSUME ZcqInit PROVE ZcqInv
      OBVIOUS
    <2>1. PoolInv /\ ~overran /\ queue = <<>> /\ length = 0 /\ ~made /\ free = <<>>
      BY InitItems, PoolInvParts DEF ZcqInit, Init, Fits
    <2>2. \A t \in Threads : held[t] = {} /\ adding[t] = NotAdding
      BY DEF ZcqInit, Init
    <2>3. Range(queue) = {} /\ IsInjective(queue) /\ queue \in Seq(Blocks)
      BY <2>1, EmptyQueue
    <2> QED
      BY <2>1, <2>2, <2>3 DEF ZcqInv, NoItemIsLost
  <1>2. ZcqInv /\ [ZcqNext]_zcqVars => ZcqInv'
    <2> SUFFICES ASSUME ZcqInv, [ZcqNext]_zcqVars PROVE ZcqInv'
      OBVIOUS
    <2>1. CASE \E size \in Sizes, count \in Counts, a \in Alignments, base \in Bases :
                 ZcqCreateQueue(size, count, a, base)
      BY <2>1, ZcqCreateStep
    <2>2. CASE \E t \in Threads : ZcqAllocateItem(t) \/ ZcqDequeueItem(t)
      BY <2>2, ZcqAllocateStep, ZcqDequeueStep
    <2>3. CASE \E t \in Threads : \E b \in held[t] : ZcqFreeItem(t, b) \/ ZcqEnqueueItem(t, b)
      BY <2>3, ZcqFreeStep, ZcqEnqueueStep
    <2>4. CASE UNCHANGED zcqVars
      <3>1. PoolInv' /\ ~overran'
        <4>1. ItemsInv' /\ Fits' /\ UNCHANGED poolVars
          BY <2>4, PoolStutters, FitsStays DEF ZcqInv, NoItemIsLost, PoolInv, zcqVars, vars
        <4> QED
          BY <4>1, PoolInvNext DEF ZcqInv, NoItemIsLost, poolVars
      <3>2. UNCHANGED <<made, free, held, adding, queue, length, poolVars, pieces>>
        BY <2>4 DEF zcqVars, vars, poolVars
      <3>3. \A b : InPool(b) <=> InPool(b)'
        BY <3>2, SameItems
      <3> QED
        BY <3>1, <3>2, <3>3 DEF ZcqInv, NoItemIsLost, Everywhere
    <2> QED
      BY <2>1, <2>2, <2>3, <2>4 DEF ZcqNext
  <1>3. ZcqInv => NoItemIsLost /\ ZcqLosesNothing
    BY DEF ZcqInv, ZcqLosesNothing
  <1> QED
    BY <1>1, <1>2, <1>3, PTL DEF ZcqSpec

-----------------------------------------------------------------------------
(* The singly linked list and the stack.  The invariant says that there is *)
(* a list l and a stack b, from its top: that the fields lead from either  *)
(* head through its nodes to NULL, that the two share no node, and that    *)
(* the count is the length of the stack.  Nodes that are in neither may    *)
(* point anywhere.                                                         *)

\* With the fields f and the count c, the nodes of the list are l and those of the stack b.
SState(f, c, l, b) ==
  /\ f \in [Nodes \cup {List, Box} -> Nodes \cup {NULL}]
  /\ Apart(Nodes, List, l, Box, b, NULL, NULL)
  /\ Linked(f, List, l, NULL) /\ Linked(f, Box, b, NULL)
  /\ c = Len(b)

\* A walk meets the nodes of a list.
SWalkMeets ==
  \A h, s : Line(Nodes, h, s, NULL) /\ Linked(s_next, h, s, NULL) => Singly!Walk(h) = s

LEMMA SWalk == SWalkMeets
  <1> SUFFICES ASSUME NEW h, NEW s, Line(Nodes, h, s, NULL), Linked(s_next, h, s, NULL)
               PROVE  Singly!Walk(h) = s
    BY DEF SWalkMeets
  <1>1. PICK at : at = CHOOSE g : Visits(g, s_next, h, NULL, Cardinality(Nodes))
    OBVIOUS
  <1>2. Met(at, NULL) = s
    BY <1>1, WalkEnds, SinglyAssumption
  <1>3. \A S : Singly!Cardinality(S) = Cardinality(S)
    BY DEF Singly!Cardinality, Cardinality
  <1>4. Singly!Walk(h) = [i \in 1..Singly!Cardinality({k \in DOMAIN at : at[k] # NULL}) |-> at[i - 1]]
    <2>1. at = CHOOSE g : Visits(g, s_next, h, NULL, Singly!Cardinality(Nodes))
      BY <1>1, <1>3
    <2> QED
      BY <2>1 DEF Singly!Walk, Visits
  <1> QED
    BY <1>2, <1>3, <1>4 DEF Met

LEMMA SWalks ==
  \A f, c, l, b : f = s_next /\ SState(f, c, l, b) => Singly!Walk(List) = l /\ Singly!Walk(Box) = b
  BY SWalk DEF SWalkMeets, SState, Apart

\* The operators on sequences are the same in SList, NodeLists and here.
LEMMA SameOps ==
  /\ \A s : Singly!Range(s) = Range(s) /\ Singly!Lists!Range(s) = Range(s)
  /\ \A s, j, e : Singly!Lists!InsertAt(s, j, e) = InsertedAt(s, j, e)
  /\ \A s, j : Singly!Lists!RemoveAt(s, j) = RemovedAt(s, j)
  /\ \A s : Singly!Lists!Last(s) = s[Len(s)] /\ Singly!Lists!Front(s) = SubSeq(s, 1, Len(s) - 1)
  /\ \A s : Singly!Reverse(s) = Turned(s) /\ Singly!Last(s) = s[Len(s)]
  BY
     DEF Singly!Range, Singly!Lists!Range, Range, Singly!Lists!InsertAt, InsertedAt,
         Singly!Lists!RemoveAt,
     RemovedAt, Singly!Lists!Last, Singly!Lists!Front, Singly!Reverse, Turned, Singly!Last

\* A node put into the list at place j, and one taken out of it.
LEMMA SIn ==
  ASSUME NEW f, NEW c, NEW l, NEW b, SState(f, c, l, b), NEW n \in Nodes, n \notin Range(l) \cup Range(b),
         NEW j \in 1..(Len(l) + 1), NEW g,
         g = [f EXCEPT ![Path(List, l, NULL, j - 1)] = n, ![n] = Path(List, l, NULL, j)]
  PROVE  SState(g, c, InsertedAt(l, j, n), b)
  <1> DEFINE p == Path(List, l, NULL, j - 1)
             q == Path(List, l, NULL, j)
  <1>1. Apart(Nodes, List, l, Box, b, NULL, NULL) /\ Linked(f, List, l, NULL) /\ Linked(f, Box, b, NULL)
    BY DEF SState
  <1>2. p \in Range(l) \cup {List} /\ q \in Range(l) \cup {NULL} /\ p # n
    BY <1>1, ApartIn
  <1>3. Range(l) \subseteq Nodes
    BY <1>1, Places DEF Apart
  <1>4. f \in [Nodes \cup {List, Box} -> Nodes \cup {NULL}]
    BY DEF SState
  <1> HIDE DEF p, q
  <1>5. g = [f EXCEPT ![p] = n, ![n] = q]
    BY DEF p, q
  <1>6. /\ g \in [Nodes \cup {List, Box} -> Nodes \cup {NULL}]
        /\ g[p] = n /\ g[n] = q /\ \A x \in Nodes \cup {List, Box} : x # n /\ x # p => g[x] = f[x]
    BY <1>2, <1>3, <1>4, <1>5
  <1>7. /\ Apart(Nodes, List, InsertedAt(l, j, n), Box, b, NULL, NULL)
        /\ Linked(g, List, InsertedAt(l, j, n), NULL) /\ Linked(g, Box, b, NULL)
    <2>1. /\ g[Path(List, l, NULL, j - 1)] = n /\ g[n] = Path(List, l, NULL, j)
          /\ \A x \in Nodes \cup {List, Box} : x # n /\ x # Path(List, l, NULL, j - 1) => g[x] = f[x]
      BY <1>6 DEF p, q
    <2> QED
      BY ONLY <1>1, <2>1, ChainIn, n \in Nodes, n \notin Range(l) \cup Range(b),
         j \in 1..(Len(l) + 1)
  <1> QED
    BY <1>6, <1>7 DEF SState

LEMMA SOut ==
  ASSUME NEW f, NEW c, NEW l, NEW b, SState(f, c, l, b), NEW j \in 1..Len(l), NEW g,
         g = [f EXCEPT ![Path(List, l, NULL, j - 1)] = Path(List, l, NULL, j + 1)]
  PROVE  SState(g, c, RemovedAt(l, j), b)
  <1> DEFINE p == Path(List, l, NULL, j - 1)
             q == Path(List, l, NULL, j + 1)
  <1>1. Apart(Nodes, List, l, Box, b, NULL, NULL) /\ Linked(f, List, l, NULL) /\ Linked(f, Box, b, NULL)
    BY DEF SState
  <1>2. p \in Range(l) \cup {List} /\ q \in Range(l) \cup {NULL}
    BY <1>1, ApartOut
  <1>3. Range(l) \subseteq Nodes
    BY <1>1, Places DEF Apart
  <1>4. f \in [Nodes \cup {List, Box} -> Nodes \cup {NULL}]
    BY DEF SState
  <1> HIDE DEF p, q
  <1>5. g = [f EXCEPT ![p] = q]
    BY DEF p, q
  <1>6. /\ g \in [Nodes \cup {List, Box} -> Nodes \cup {NULL}]
        /\ g[p] = q /\ \A x \in Nodes \cup {List, Box} : x # p => g[x] = f[x]
    <2>1. p \in Nodes \cup {List, Box} /\ q \in Nodes \cup {NULL}
      BY <1>2, <1>3
    <2> QED
      BY ONLY <2>1, <1>4, <1>5
  <1>7. /\ Apart(Nodes, List, RemovedAt(l, j), Box, b, NULL, NULL)
        /\ Linked(g, List, RemovedAt(l, j), NULL) /\ Linked(g, Box, b, NULL)
    <2>1. /\ g[Path(List, l, NULL, j - 1)] = Path(List, l, NULL, j + 1)
          /\ \A x \in Nodes \cup {List, Box} : x # Path(List, l, NULL, j - 1) => g[x] = f[x]
      BY <1>6 DEF p, q
    <2> QED
      BY ONLY <1>1, <2>1, ChainOut, j \in 1..Len(l)
  <1> QED
    BY <1>6, <1>7 DEF SState

\* The two heads are alike.
LEMMA OtherWay ==
  ASSUME NEW S, NEW h, NEW s, NEW k, NEW t, NEW e, NEW d
  PROVE  Apart(S, h, s, k, t, e, d) <=> Apart(S, k, t, h, s, d, e)
  BY DEF Apart

\* A node put on the stack, and one taken off it.
LEMMA SPush ==
  ASSUME NEW f, NEW c, NEW l, NEW b, SState(f, c, l, b), NEW n \in Nodes, n \notin Range(l) \cup Range(b),
         NEW g, g = [f EXCEPT ![Box] = n, ![n] = f[Box]]
  PROVE  SState(g, c + 1, l, InsertedAt(b, 1, n))
  <1>1. /\ Apart(Nodes, Box, b, List, l, NULL, NULL) /\ Linked(f, List, l, NULL) /\ Linked(f, Box, b, NULL)
        /\ f \in [Nodes \cup {List, Box} -> Nodes \cup {NULL}] /\ c = Len(b) /\ Line(Nodes, Box, b, NULL)
    BY OtherWay DEF SState, Apart
  <1>2. Len(b) \in Nat /\ 1 \in 1..(Len(b) + 1) /\ Box \notin Nodes
    BY <1>1, Places DEF Line
  <1>3. Path(Box, b, NULL, 1 - 1) = Box /\ f[Box] = Path(Box, b, NULL, 1)
    <2>1. Path(Box, b, NULL, 0) = Box
      BY DEF Path
    <2>2. 0 \in 0..Len(b)
      BY <1>2
    <2>3. f[Path(Box, b, NULL, 0)] = Path(Box, b, NULL, 0 + 1)
      BY <1>1, <2>2 DEF Linked
    <2> QED
      BY <2>1, <2>3
  <1>4. /\ g \in [Nodes \cup {List, Box} -> Nodes \cup {NULL}]
        /\ g[Box] = n /\ g[n] = f[Box] /\ \A x \in Nodes \cup {Box, List} : x # n /\ x # Box => g[x] = f[x]
    BY <1>1, <1>2
  <1>5. /\ Apart(Nodes, Box, InsertedAt(b, 1, n), List, l, NULL, NULL)
        /\ Linked(g, Box, InsertedAt(b, 1, n), NULL) /\ Linked(g, List, l, NULL)
    <2>1. /\ g[Path(Box, b, NULL, 1 - 1)] = n /\ g[n] = Path(Box, b, NULL, 1)
          /\ \A x \in Nodes \cup {Box, List} : x # n /\ x # Path(Box, b, NULL, 1 - 1) => g[x] = f[x]
      BY <1>3, <1>4
    <2> QED
      BY ONLY <1>1, <1>2, <2>1, ChainIn, n \in Nodes, n \notin Range(l) \cup Range(b)
  <1>6. Len(InsertedAt(b, 1, n)) = c + 1
    BY <1>1, <1>2, PathIn
  <1> QED
    BY <1>4, <1>5, <1>6, OtherWay DEF SState

LEMMA SPop ==
  ASSUME NEW f, NEW c, NEW l, NEW b, SState(f, c, l, b), b # <<>>,
         NEW g, g = [f EXCEPT ![Box] = f[f[Box]]]
  PROVE  SState(g, c - 1, l, RemovedAt(b, 1)) /\ f[Box] = b[1] /\ f[Box] # NULL
  <1>1. /\ Apart(Nodes, Box, b, List, l, NULL, NULL) /\ Linked(f, List, l, NULL) /\ Linked(f, Box, b, NULL)
        /\ f \in [Nodes \cup {List, Box} -> Nodes \cup {NULL}] /\ c = Len(b) /\ Line(Nodes, Box, b, NULL)
    BY OtherWay DEF SState, Apart
  <1>2. Len(b) \in Nat \ {0} /\ 1 \in 1..Len(b) /\ NULL \notin Nodes /\ b[1] \in Nodes
    <2>1. b \in Seq(Nodes)
      BY <1>1 DEF Line
    <2>2. Len(b) \in Nat \ {0}
      BY <2>1, EmptySeq
    <2>3. 1 \in 1..Len(b)
      BY <2>2
    <2> QED
      BY <1>1, <2>1, <2>2, <2>3, ElementOfSeq DEF Line
  <1>3. /\ Path(Box, b, NULL, 1 - 1) = Box /\ f[Box] = b[1] /\ f[f[Box]] = Path(Box, b, NULL, 1 + 1)
    <2>1. Path(Box, b, NULL, 0) = Box /\ Path(Box, b, NULL, 1) = b[1]
      BY <1>2 DEF Path
    <2>2. 0 \in 0..Len(b) /\ 1 \in 0..Len(b)
      BY <1>2
    <2>3. /\ f[Path(Box, b, NULL, 0)] = Path(Box, b, NULL, 0 + 1)
          /\ f[Path(Box, b, NULL, 1)] = Path(Box, b, NULL, 1 + 1)
      BY <1>1, <2>2 DEF Linked
    <2> QED
      BY <2>1, <2>3
  <1>4. f[f[Box]] \in Nodes \cup {NULL}
    BY <1>1, <1>2, <1>3
  <1>5. /\ g \in [Nodes \cup {List, Box} -> Nodes \cup {NULL}]
        /\ g[Box] = f[f[Box]] /\ \A x \in Nodes \cup {Box, List} : x # Box => g[x] = f[x]
    BY <1>1, <1>4
  <1>6. /\ Apart(Nodes, Box, RemovedAt(b, 1), List, l, NULL, NULL)
        /\ Linked(g, Box, RemovedAt(b, 1), NULL) /\ Linked(g, List, l, NULL)
    <2>1. /\ g[Path(Box, b, NULL, 1 - 1)] = Path(Box, b, NULL, 1 + 1)
          /\ \A x \in Nodes \cup {Box, List} : x # Path(Box, b, NULL, 1 - 1) => g[x] = f[x]
      BY <1>3, <1>5
    <2> QED
      BY ONLY <1>1, <1>2, <2>1, ChainOut
  <1>7. Len(RemovedAt(b, 1)) = c - 1
    BY <1>1, <1>2, PathOut
  <1> QED
    BY <1>2, <1>3, <1>5, <1>6, <1>7, OtherWay DEF SState

\* The steps of NodeLists, from how the list and the stack have changed.
LEMMA SBoxKept ==
  ASSUME UNCHANGED Singly!Walk(Box)
  PROVE  UNCHANGED Singly!Reverse(Singly!Walk(Box))
  BY DEF Singly!Reverse

LEMMA SPlace ==
  ASSUME NEW l, Line(Nodes, List, l, NULL), Singly!Walk(List) = l, NEW j \in 1..Len(l)
  PROVE  Singly!Lists!Place(l[j]) = j /\ l[j] \in Nodes /\ l[j] \in Range(l)
  <1>1. /\ \A i, k \in 1..Len(l) : l[i] = l[k] => i = k
        /\ DOMAIN l = 1..Len(l) /\ l[j] \in Nodes /\ l[j] \in Range(l)
    BY Members
  <1> QED
    BY <1>1 DEF Singly!Lists!Place

LEMMA SFree ==
  ASSUME NEW l, NEW b, b \in Seq(Nodes), Singly!Walk(List) = l, Singly!Walk(Box) = b,
         NEW n \in Nodes, n \notin Range(l) \cup Range(b)
  PROVE  n \in Singly!Lists!Free
  <1>1. Range(Turned(b)) = Range(b)
    BY TurnedIs
  <1> QED
    BY <1>1, SameOps DEF Singly!Lists!Free

LEMMA SAbsInsert ==
  ASSUME NEW l, NEW b, Line(Nodes, List, l, NULL), b \in Seq(Nodes),
         Singly!Walk(List) = l, Singly!Walk(Box) = b,
         NEW n \in Nodes, n \notin Range(l) \cup Range(b), NEW j \in 1..(Len(l) + 1),
         Singly!Walk(List)' = InsertedAt(l, j, n), Singly!Walk(Box)' = b, UNCHANGED s_ret
  PROVE  Singly!Lists!Next
  <1>1. n \in Singly!Lists!Free
    BY SFree
  <1>2. Singly!Lists!Insert(n, j)
    BY SBoxKept, SameOps DEF Singly!Lists!Insert
  <1>3. CASE j = 1
    BY <1>1, <1>2, <1>3 DEF Singly!Lists!Next, Singly!Lists!AddToHead
  <1>4. CASE j # 1
    <2>1. j - 1 \in 1..Len(l) /\ (j - 1) + 1 = j
      BY <1>4, Members
    <2>2. Singly!Lists!Place(l[j - 1]) = j - 1 /\ l[j - 1] \in Nodes /\ l[j - 1] \in Range(l)
      BY <2>1, SPlace
    <2>3. Singly!Lists!InsertAfter(l[j - 1], n)
      BY <1>2, <2>1, <2>2, SameOps DEF Singly!Lists!InsertAfter
    <2> QED
      BY <1>1, <2>2, <2>3 DEF Singly!Lists!Next
  <1> QED
    BY <1>3, <1>4

LEMMA SAbsRemove ==
  ASSUME NEW l, NEW b, Line(Nodes, List, l, NULL),
         Singly!Walk(List) = l, Singly!Walk(Box) = b, NEW j \in 1..Len(l),
         Singly!Walk(List)' = RemovedAt(l, j), Singly!Walk(Box)' = b, UNCHANGED s_ret
  PROVE  Singly!Lists!Next
  <1>1. Singly!Lists!Place(l[j]) = j /\ l[j] \in Nodes /\ l[j] \in Range(l)
    BY SPlace
  <1>2. Singly!Lists!RemoveNode(l[j])
    BY <1>1, SBoxKept, SameOps DEF Singly!Lists!RemoveNode
  <1> QED
    BY <1>1, <1>2 DEF Singly!Lists!Next

LEMMA SAbsEnds ==
  ASSUME NEW l, NEW b, Line(Nodes, List, l, NULL),
         Singly!Walk(List) = l, Singly!Walk(Box) = b, Singly!Walk(Box)' = b,
         \/ l = <<>> /\ Singly!Walk(List)' = l /\ s_ret' = NULL
         \/ l # <<>> /\ Singly!Walk(List)' = RemovedAt(l, 1) /\ s_ret' = l[1]
         \/ l # <<>> /\ Singly!Walk(List)' = RemovedAt(l, Len(l)) /\ s_ret' = l[Len(l)]
  PROVE  Singly!Lists!Next
  <1>1. l \in Seq(Nodes)
    BY DEF Line
  <1>2. CASE l = <<>>
    BY <1>2, SBoxKept DEF Singly!Lists!Next, Singly!Lists!RemoveFromHead
  <1>3. CASE l # <<>> /\ Singly!Walk(List)' = RemovedAt(l, 1) /\ s_ret' = l[1]
    <2>1. Head(l) = l[1]
      BY <1>1, <1>3
    <2>2. Tail(l) = RemovedAt(l, 1)
      BY <1>1, <1>3, TailIsRemoved
    <2> QED
      BY <1>3, <2>1, <2>2, SBoxKept DEF Singly!Lists!Next, Singly!Lists!RemoveFromHead
  <1>4. CASE l # <<>> /\ Singly!Walk(List)' = RemovedAt(l, Len(l)) /\ s_ret' = l[Len(l)]
    <2>1. SubSeq(l, 1, Len(l) - 1) = RemovedAt(l, Len(l))
      BY <1>1, <1>4, FrontIsRemoved
    <2> QED
      BY <1>4, <2>1, SBoxKept, SameOps DEF Singly!Lists!Next, Singly!Lists!RemoveFromTail
  <1> QED
    BY <1>2, <1>3, <1>4

LEMMA STurned == \A b : Singly!Walk(Box) = b => Singly!Reverse(Singly!Walk(Box)) = Turned(b)
  BY SameOps

LEMMA STurnedNext == \A b : Singly!Walk(Box)' = b => Singly!Reverse(Singly!Walk(Box))' = Turned(b)
  BY DEF Singly!Reverse, Turned

LEMMA SAbsPut ==
  ASSUME NEW l, NEW b, b \in Seq(Nodes), Singly!Walk(List) = l, Singly!Walk(Box) = b,
         NEW n \in Nodes, n \notin Range(l) \cup Range(b),
         Singly!Walk(List)' = l, Singly!Walk(Box)' = InsertedAt(b, 1, n), UNCHANGED s_ret
  PROVE  Singly!Lists!Next
  <1>1. n \in Singly!Lists!Free
    BY SFree
  <1>2. Singly!Reverse(Singly!Walk(Box))' = Turned(InsertedAt(b, 1, n))
    BY STurnedNext
  <1>3. Turned(InsertedAt(b, 1, n)) = Append(Turned(b), n)
    BY TurnedIn
  <1>4. Singly!Reverse(Singly!Walk(Box)) = Turned(b)
    BY STurned
  <1> QED
    BY <1>1, <1>2, <1>3, <1>4 DEF Singly!Lists!Next, Singly!Lists!Put

LEMMA SAbsGet ==
  ASSUME NEW l, NEW b, b \in Seq(Nodes), Singly!Walk(List) = l, Singly!Walk(Box) = b,
         Singly!Walk(List)' = l,
         \/ b = <<>> /\ Singly!Walk(Box)' = b /\ s_ret' = NULL
         \/ b # <<>> /\ Singly!Walk(Box)' = RemovedAt(b, 1) /\ s_ret' = b[1]
  PROVE  Singly!Lists!Next
  <1>1. Singly!Reverse(Singly!Walk(Box)) = Turned(b)
    BY STurned
  <1>2. CASE b = <<>>
    <2>1. Turned(b) = <<>>
      <3>1. Turned(b) \in Seq(Nodes) /\ Len(Turned(b)) = 0
        BY <1>2, TurnedIs, EmptySeq
      <3> QED
        BY <3>1, EmptySeq
    <2>2. UNCHANGED Singly!Reverse(Singly!Walk(Box))
      BY <1>2, SBoxKept
    <2> QED
      BY <1>1, <1>2, <2>1, <2>2 DEF Singly!Lists!Next, Singly!Lists!Get
  <1>3. CASE b # <<>> /\ Singly!Walk(Box)' = RemovedAt(b, 1) /\ s_ret' = b[1]
    <2>1. Singly!Reverse(Singly!Walk(Box))' = Turned(RemovedAt(b, 1))
      BY <1>3, STurnedNext
    <2>2. /\ Turned(b) # <<>> /\ Turned(b)[Len(Turned(b))] = b[1]
          /\ Turned(RemovedAt(b, 1)) = SubSeq(Turned(b), 1, Len(Turned(b)) - 1)
      BY <1>3, TurnedOut
    <2> QED
      BY <1>1, <1>3, <2>1, <2>2, SameOps
      DEF Singly!Lists!Next, Singly!Lists!Get, Singly!Lists!Newest
  <1> QED
    BY <1>2, <1>3

LEMMA SWalkNext ==
  \A h, s : Line(Nodes, h, s, NULL) /\ Linked(s_next', h, s, NULL) => Singly!Walk(h)' = s
  <1>1. SWalkMeets'
    BY SWalk, PTL
  <1> QED
    BY <1>1 DEF SWalkMeets

LEMMA SWalksNext ==
  \A c, l, b : SState(s_next', c, l, b) => Singly!Walk(List)' = l /\ Singly!Walk(Box)' = b
  <1> SUFFICES ASSUME NEW c, NEW l, NEW b, SState(s_next', c, l, b)
               PROVE  Singly!Walk(List)' = l /\ Singly!Walk(Box)' = b
    OBVIOUS
  <1>1. /\ Line(Nodes, List, l, NULL) /\ Linked(s_next', List, l, NULL)
        /\ Line(Nodes, Box, b, NULL) /\ Linked(s_next', Box, b, NULL)
    BY DEF SState, Apart
  <1> QED
    BY <1>1, SWalkNext

\* The inductive invariant.
SInv == \E l, b : SState(s_next, s_Count, l, b)

\* What the state says of the pointers.
LEMMA SPointers ==
  ASSUME NEW l, NEW b, SState(s_next, s_Count, l, b)
  PROVE  /\ Line(Nodes, List, l, NULL) /\ l \in Seq(Nodes) /\ b \in Seq(Nodes)
         /\ Singly!Walk(List) = l /\ Singly!Walk(Box) = b
         /\ \A i \in 0..Len(l) : s_next[Path(List, l, NULL, i)] = Path(List, l, NULL, i + 1)
         /\ Len(l) \in Nat /\ NULL \notin Nodes
         /\ \A n \in Singly!Unlinked : n \in Nodes /\ n \notin Range(l) \cup Range(b)
  <1>1. /\ Line(Nodes, List, l, NULL) /\ Line(Nodes, Box, b, NULL) /\ Linked(s_next, List, l, NULL)
    BY DEF SState, Apart
  <1>2. Singly!Walk(List) = l /\ Singly!Walk(Box) = b
    BY SWalks
  <1>3. \A n \in Singly!Unlinked : n \in Nodes /\ n \notin Range(l) \cup Range(b)
    BY <1>2, SameOps DEF Singly!Unlinked
  <1> QED
    BY <1>1, <1>2, <1>3, LenProperties DEF Line, Linked

\* Where the loop over Prior and Current stops.
LEMMA SPrior ==
  ASSUME NEW l, NEW b, SState(s_next, s_Count, l, b), NEW j \in 1..Len(l)
  PROVE  Singly!Prior(List, l[j]) = Path(List, l, NULL, j - 1)
  <1>1. /\ Line(Nodes, List, l, NULL) /\ Singly!Walk(List) = l /\ Len(l) \in Nat
        /\ \A i \in 0..Len(l) : s_next[Path(List, l, NULL, i)] = Path(List, l, NULL, i + 1)
    BY SPointers
  <1> DEFINE P(i) == Path(List, l, NULL, i)
  <1>2. /\ P(0) = List /\ \A i \in 1..Len(l) : P(i) = l[i] /\ l[i] \in Range(l)
        /\ \A x \in Range(l) : \E i \in 1..Len(l) : l[i] = x
        /\ \A i, k \in 1..(Len(l) + 1) : P(i) = P(k) => i = k
    BY <1>1, Places
  <1>3. \A p \in {List} \cup Range(l) : \E i \in 0..Len(l) : p = P(i)
    <2> SUFFICES ASSUME NEW p \in {List} \cup Range(l) PROVE \E i \in 0..Len(l) : p = P(i)
      OBVIOUS
    <2>1. CASE p = List
      BY <1>1, <1>2, <2>1
    <2>2. CASE p \in Range(l)
      <3>1. PICK i \in 1..Len(l) : l[i] = p
        BY <1>2, <2>2
      <3>2. i \in 0..Len(l)
        OBVIOUS
      <3> QED
        BY <1>2, <3>1, <3>2
    <2> QED
      BY <2>1, <2>2
  <1>4. P(j - 1) \in {List} \cup Range(l) /\ s_next[P(j - 1)] = l[j]
    <2>1. j - 1 \in 0..Len(l) /\ (j - 1) + 1 = j /\ (j - 1 = 0 \/ j - 1 \in 1..Len(l))
      BY <1>1
    <2> QED
      BY <1>1, <1>2, <2>1
  <1>5. ASSUME NEW p \in {List} \cup Range(l), s_next[p] = l[j] PROVE p = P(j - 1)
    <2>1. PICK i \in 0..Len(l) : p = P(i)
      BY <1>3
    <2>2. P(i + 1) = P(j)
      BY <1>1, <1>2, <1>5, <2>1
    <2>3. i + 1 \in 1..(Len(l) + 1) /\ j \in 1..(Len(l) + 1)
      BY <1>1
    <2>4. i = j - 1
      BY <1>2, <2>2, <2>3
    <2> QED
      BY <2>1, <2>4
  <1> HIDE DEF P
  <1>6. Singly!Prior(List, l[j]) = P(j - 1)
    BY <1>1, <1>4, <1>5, SameOps DEF Singly!Prior
  <1> QED
    BY <1>6 DEF P

\* Where the loop for the tail stops.
LEMMA LastOfPath ==
  ASSUME NEW S, NEW h, NEW s \in Seq(S), NEW e
  PROVE  (<<h>> \o s)[Len(<<h>> \o s)] = Path(h, s, e, Len(s))
  <1> DEFINE T == S \cup {h}
  <1>1. <<h>> \in Seq(T) /\ Len(<<h>>) = 1 /\ <<h>>[1] = h /\ s \in Seq(T)
    BY SeqMonotonic
  <1> HIDE DEF T
  <1>2. /\ Len(<<h>> \o s) = 1 + Len(s) /\ Len(s) \in Nat
        /\ \A k \in 1..1 : (<<h>> \o s)[k] = <<h>>[k]
        /\ \A k \in 1..Len(s) : (<<h>> \o s)[1 + k] = s[k]
    BY ONLY <1>1, Concat
  <1>3. CASE Len(s) = 0
    BY <1>1, <1>2, <1>3 DEF Path
  <1>4. CASE Len(s) # 0
    BY <1>2, <1>4 DEF Path
  <1> QED
    BY <1>3, <1>4

LEMMA STailOf ==
  ASSUME NEW l, NEW b, SState(s_next, s_Count, l, b)
  PROVE  Singly!TailOf(List) = Path(List, l, NULL, Len(l))
  BY SPointers, LastOfPath, SameOps DEF Singly!TailOf

LEMMA SEmpty ==
  ASSUME NEW f, f = [n \in Nodes \cup {List, Box} |-> NULL]
  PROVE  SState(f, 0, <<>>, <<>>)
  <1>1. List # Box /\ List \notin Nodes /\ Box \notin Nodes /\ NULL \notin Nodes
    BY SinglyAssumption DEF Singly!HeadsAreNoNodes
  <1>2. PICK e : e = <<>>
    OBVIOUS
  <1>3. e \in Seq(Nodes) /\ IsInjective(e) /\ Range(e) = {} /\ Len(e) = 0
    BY <1>2, EmptyQueue
  <1>4. Apart(Nodes, List, e, Box, e, NULL, NULL)
    BY <1>1, <1>3 DEF Apart, Line
  <1>5. Linked(f, List, e, NULL) /\ Linked(f, Box, e, NULL)
    BY <1>3 DEF Linked, Path
  <1> QED
    BY <1>2, <1>3, <1>4, <1>5 DEF SState

\* The four ways in which a call changes the two lists, as steps of NodeLists.
LEMMA SInStep ==
  ASSUME NEW l, NEW b, SState(s_next, s_Count, l, b), NEW n \in Singly!Unlinked,
         NEW j \in 1..(Len(l) + 1), UNCHANGED <<s_Count, s_ret>>,
         s_next' = [s_next EXCEPT ![Path(List, l, NULL, j - 1)] = n, ![n] = Path(List, l, NULL, j)]
  PROVE  SInv' /\ Singly!Lists!Next
  <1>1. /\ Line(Nodes, List, l, NULL) /\ b \in Seq(Nodes) /\ Singly!Walk(List) = l /\ Singly!Walk(Box) = b
        /\ n \in Nodes /\ n \notin Range(l) \cup Range(b)
    BY SPointers
  <1>2. SState(s_next', s_Count, InsertedAt(l, j, n), b)
    BY <1>1, SIn
  <1>3. Singly!Walk(List)' = InsertedAt(l, j, n) /\ Singly!Walk(Box)' = b
    BY <1>2, SWalksNext
  <1>4. SInv'
    BY <1>2 DEF SInv
  <1> QED
    BY <1>1, <1>3, <1>4, SAbsInsert

LEMMA SOutStep ==
  ASSUME NEW l, NEW b, SState(s_next, s_Count, l, b), NEW j \in 1..Len(l), UNCHANGED s_Count,
         s_next' = [s_next EXCEPT ![Path(List, l, NULL, j - 1)] = Path(List, l, NULL, j + 1)],
         UNCHANGED s_ret \/ (j \in {1, Len(l)} /\ s_ret' = l[j])
  PROVE  SInv' /\ Singly!Lists!Next
  <1>1. /\ Line(Nodes, List, l, NULL) /\ b \in Seq(Nodes) /\ Singly!Walk(List) = l /\ Singly!Walk(Box) = b
        /\ l \in Seq(Nodes) /\ Len(l) \in Nat
    BY SPointers
  <1>2. SState(s_next', s_Count, RemovedAt(l, j), b)
    BY SOut
  <1>3. Singly!Walk(List)' = RemovedAt(l, j) /\ Singly!Walk(Box)' = b
    BY <1>2, SWalksNext
  <1>4. SInv'
    BY <1>2 DEF SInv
  <1>5. l # <<>>
    BY <1>1, EmptySeq
  <1>6. CASE UNCHANGED s_ret
    BY <1>1, <1>3, <1>4, <1>6, SAbsRemove
  <1>7. CASE j \in {1, Len(l)} /\ s_ret' = l[j]
    BY <1>1, <1>3, <1>4, <1>5, <1>7, SAbsEnds
  <1> QED
    BY <1>6, <1>7

\* The calls: each puts in a node, or takes one out, at a place of its own.
LEMMA SInsertAfterStep ==
  ASSUME NEW l, NEW b, SState(s_next, s_Count, l, b), NEW n \in Singly!Unlinked, UNCHANGED <<s_Count, s_ret>>,
         NEW m \in {List} \cup Range(l), Singly!SlInsertNodeAfter(m, n)
  PROVE  SInv' /\ Singly!Lists!Next
  <1>1. /\ Line(Nodes, List, l, NULL) /\ Len(l) \in Nat
        /\ \A i \in 0..Len(l) : s_next[Path(List, l, NULL, i)] = Path(List, l, NULL, i + 1)
    BY SPointers
  <1>2. \E i \in 0..Len(l) : m = Path(List, l, NULL, i)
    <2>1. CASE m = List
      <3>1. Path(List, l, NULL, 0) = List /\ 0 \in 0..Len(l)
        BY <1>1 DEF Path
      <3> QED
        BY <2>1, <3>1
    <2>2. CASE m \in Range(l)
      <3>1. PICK i \in 1..Len(l) : l[i] = m
        BY <1>1, <2>2, Places
      <3>2. i \in 0..Len(l) /\ Path(List, l, NULL, i) = l[i]
        BY <1>1, Places
      <3> QED
        BY <3>1, <3>2
    <2> QED
      BY <2>1, <2>2
  <1>3. PICK j \in 1..(Len(l) + 1) : m = Path(List, l, NULL, j - 1) /\ s_next[m] = Path(List, l, NULL, j)
    <2>1. PICK i \in 0..Len(l) : m = Path(List, l, NULL, i)
      BY <1>2
    <2>2. i + 1 \in 1..(Len(l) + 1) /\ (i + 1) - 1 = i
      BY <1>1
    <2> QED
      BY <1>1, <2>1, <2>2
  <1>4. s_next' = [s_next EXCEPT ![Path(List, l, NULL, j - 1)] = n, ![n] = Path(List, l, NULL, j)]
    BY <1>3 DEF Singly!SlInsertNodeAfter
  <1> QED
    BY <1>4, SInStep

LEMMA SAddTailStep ==
  ASSUME NEW l, NEW b, SState(s_next, s_Count, l, b), NEW n \in Singly!Unlinked, UNCHANGED <<s_Count, s_ret>>,
         Singly!SlAddNodeToTail(List, n)
  PROVE  SInv' /\ Singly!Lists!Next
  <1>1. Len(l) \in Nat
    BY SPointers
  <1>2. PICK j : j = Len(l) + 1
    OBVIOUS
  <1>3. j \in 1..(Len(l) + 1) /\ j - 1 = Len(l) /\ Path(List, l, NULL, j) = NULL
    BY <1>1, <1>2 DEF Path
  <1>4. Singly!TailOf(List) = Path(List, l, NULL, j - 1)
    BY <1>3, STailOf
  <1>5. s_next' = [s_next EXCEPT ![Path(List, l, NULL, j - 1)] = n, ![n] = Path(List, l, NULL, j)]
    BY <1>3, <1>4 DEF Singly!SlAddNodeToTail
  <1> QED
    BY <1>3, <1>5, SInStep

LEMMA SInsertBeforeStep ==
  ASSUME NEW l, NEW b, SState(s_next, s_Count, l, b), NEW n \in Singly!Unlinked, UNCHANGED <<s_Count, s_ret>>,
         NEW m, Singly!SlInsertNodeBefore(List, m, n)
  PROVE  SInv' /\ Singly!Lists!Next
  <1>1. Line(Nodes, List, l, NULL) /\ Len(l) \in Nat /\ Singly!Walk(List) = l
    BY SPointers
  <1>2. PICK j \in 1..Len(l) : l[j] = m
    BY <1>1, Places, SameOps DEF Singly!SlInsertNodeBefore
  <1>3. j \in 1..(Len(l) + 1) /\ Path(List, l, NULL, j) = m
    BY <1>1, <1>2, Places
  <1>4. Singly!Prior(List, m) = Path(List, l, NULL, j - 1)
    BY <1>2, SPrior
  <1>5. s_next' = [s_next EXCEPT ![Path(List, l, NULL, j - 1)] = n, ![n] = Path(List, l, NULL, j)]
    BY <1>3, <1>4 DEF Singly!SlInsertNodeBefore
  <1> QED
    BY <1>3, <1>5, SInStep

LEMMA SRemoveStep ==
  ASSUME NEW l, NEW b, SState(s_next, s_Count, l, b), UNCHANGED <<s_Count, s_ret>>,
         NEW n, Singly!SlRemoveNode(List, n)
  PROVE  SInv' /\ Singly!Lists!Next
  <1>1. /\ Line(Nodes, List, l, NULL) /\ Len(l) \in Nat /\ Singly!Walk(List) = l
        /\ \A i \in 0..Len(l) : s_next[Path(List, l, NULL, i)] = Path(List, l, NULL, i + 1)
    BY SPointers
  <1>2. PICK j \in 1..Len(l) : l[j] = n
    BY <1>1, Places, SameOps DEF Singly!SlRemoveNode
  <1>3. j \in 0..Len(l) /\ Path(List, l, NULL, j) = n
    BY <1>1, <1>2, Places
  <1>4. Singly!Prior(List, n) = Path(List, l, NULL, j - 1) /\ s_next[n] = Path(List, l, NULL, j + 1)
    BY <1>1, <1>2, <1>3, SPrior
  <1>5. s_next' = [s_next EXCEPT ![Path(List, l, NULL, j - 1)] = Path(List, l, NULL, j + 1)]
    BY <1>4 DEF Singly!SlRemoveNode
  <1>6. UNCHANGED s_Count /\ UNCHANGED s_ret
    OBVIOUS
  <1> QED
    BY <1>5, <1>6, SOutStep

\* A list without nodes has none to give.
LEMMA SNothingStep ==
  ASSUME NEW l, NEW b, SState(s_next, s_Count, l, b), l = <<>>, UNCHANGED <<s_next, s_Count>>, s_ret' = NULL
  PROVE  SInv' /\ Singly!Lists!Next
  <1>1. /\ Line(Nodes, List, l, NULL) /\ Singly!Walk(List) = l /\ Singly!Walk(Box) = b
    BY SPointers
  <1>2. SState(s_next', s_Count, l, b)
    OBVIOUS
  <1>3. Singly!Walk(List)' = l /\ Singly!Walk(Box)' = b
    BY <1>2, SWalksNext
  <1>4. SInv'
    BY <1>2 DEF SInv
  <1> QED
    BY <1>1, <1>3, <1>4, SAbsEnds

\* What is next to the head.
LEMMA SFirst ==
  ASSUME NEW l, NEW b, SState(s_next, s_Count, l, b)
  PROVE  /\ l = <<>> => s_next[List] = NULL
         /\ l # <<>> => /\ Len(l) \in 1..Len(l) /\ 1 \in 1..Len(l) /\ s_next[List] = l[1] /\ l[1] # NULL
                        /\ Path(List, l, NULL, 1 - 1) = List
                        /\ s_next[s_next[List]] = Path(List, l, NULL, 1 + 1)
                        /\ Path(List, l, NULL, Len(l)) = l[Len(l)]
                        /\ Path(List, l, NULL, Len(l) + 1) = NULL
  <1>1. /\ Line(Nodes, List, l, NULL) /\ Len(l) \in Nat /\ l \in Seq(Nodes) /\ NULL \notin Nodes
        /\ \A i \in 0..Len(l) : s_next[Path(List, l, NULL, i)] = Path(List, l, NULL, i + 1)
    BY SPointers
  <1>2. Path(List, l, NULL, 0) = List /\ 0 \in 0..Len(l) /\ s_next[List] = Path(List, l, NULL, 1)
    <2>1. 0 \in 0..Len(l) /\ Path(List, l, NULL, 0) = List
      BY <1>1 DEF Path
    <2>2. s_next[Path(List, l, NULL, 0)] = Path(List, l, NULL, 0 + 1)
      BY <1>1, <2>1
    <2> QED
      BY <2>1, <2>2
  <1>3. CASE l = <<>>
    BY <1>2, <1>3 DEF Path
  <1>4. CASE l # <<>>
    <2>1. Len(l) \in Nat \ {0}
      BY <1>1, <1>4, EmptySeq
    <2>2. 1 \in 1..Len(l) /\ 1 \in 0..Len(l) /\ Len(l) \in 1..Len(l)
      BY <2>1
    <2>3. l[1] \in Nodes /\ Path(List, l, NULL, 1) = l[1] /\ Path(List, l, NULL, Len(l)) = l[Len(l)]
      BY <1>1, <2>2, Places
    <2>4. s_next[Path(List, l, NULL, 1)] = Path(List, l, NULL, 1 + 1)
      BY <1>1, <2>2
    <2>5. Path(List, l, NULL, Len(l) + 1) = NULL
      BY <2>1 DEF Path
    <2> QED
      BY <1>1, <1>2, <1>4, <2>2, <2>3, <2>4, <2>5
  <1> QED
    BY <1>3, <1>4

LEMMA SHeadStep ==
  ASSUME NEW l, NEW b, SState(s_next, s_Count, l, b), UNCHANGED s_Count, Singly!SlRemoveNodeFromHead(List)
  PROVE  SInv' /\ Singly!Lists!Next
  <1>1. CASE l = <<>>
    <2>1. UNCHANGED s_next /\ s_ret' = NULL
      BY <1>1, SFirst DEF Singly!SlRemoveNodeFromHead
    <2> QED
      BY <1>1, <2>1, SNothingStep
  <1>2. CASE l # <<>>
    <2>1. /\ 1 \in 1..Len(l) /\ s_next[List] = l[1] /\ s_next[List] # NULL
          /\ Path(List, l, NULL, 1 - 1) = List /\ s_next[s_next[List]] = Path(List, l, NULL, 1 + 1)
      BY <1>2, SFirst
    <2>2. /\ s_next' = [s_next EXCEPT ![Path(List, l, NULL, 1 - 1)] = Path(List, l, NULL, 1 + 1)]
          /\ s_ret' = l[1]
      BY <2>1 DEF Singly!SlRemoveNodeFromHead
    <2> QED
      BY <2>1, <2>2, SOutStep
  <1> QED
    BY <1>1, <1>2

LEMMA STailStep ==
  ASSUME NEW l, NEW b, SState(s_next, s_Count, l, b), UNCHANGED s_Count, Singly!SlRemoveNodeFromTail(List)
  PROVE  SInv' /\ Singly!Lists!Next
  <1>1. CASE l = <<>>
    <2>1. UNCHANGED s_next /\ s_ret' = NULL
      BY <1>1, SFirst DEF Singly!SlRemoveNodeFromTail
    <2> QED
      BY <1>1, <2>1, SNothingStep
  <1>2. CASE l # <<>>
    <2>1. /\ Len(l) \in 1..Len(l) /\ s_next[List] # NULL /\ Path(List, l, NULL, Len(l) + 1) = NULL
          /\ Path(List, l, NULL, Len(l)) = l[Len(l)]
      BY <1>2, SFirst
    <2>2. Singly!TailOf(List) = l[Len(l)]
      BY <2>1, STailOf
    <2>3. Singly!Prior(List, l[Len(l)]) = Path(List, l, NULL, Len(l) - 1)
      BY <2>1, SPrior
    <2>4. /\ s_next' = [s_next EXCEPT ![Path(List, l, NULL, Len(l) - 1)] = Path(List, l, NULL, Len(l) + 1)]
          /\ s_ret' = l[Len(l)]
      BY <2>1, <2>2, <2>3 DEF Singly!SlRemoveNodeFromTail
    <2> QED
      BY <2>1, <2>4, SOutStep
  <1> QED
    BY <1>1, <1>2

LEMMA SPushStep ==
  ASSUME NEW l, NEW b, SState(s_next, s_Count, l, b), NEW n \in Singly!Unlinked, UNCHANGED s_ret,
         Singly!PushOnStack(n)
  PROVE  SInv' /\ Singly!Lists!Next
  <1>1. /\ b \in Seq(Nodes) /\ Singly!Walk(List) = l /\ Singly!Walk(Box) = b
        /\ n \in Nodes /\ n \notin Range(l) \cup Range(b)
    BY SPointers
  <1>2. SState(s_next', s_Count + 1, l, InsertedAt(b, 1, n))
    BY <1>1, SPush DEF Singly!PushOnStack, Singly!SlInsertNodeAfter
  <1>3. Singly!Walk(List)' = l /\ Singly!Walk(Box)' = InsertedAt(b, 1, n)
    BY <1>2, SWalksNext
  <1>4. SInv'
    BY <1>2 DEF SInv, Singly!PushOnStack
  <1> QED
    BY <1>1, <1>3, <1>4, SAbsPut

LEMMA SPopStep ==
  ASSUME NEW l, NEW b, SState(s_next, s_Count, l, b), Singly!PopOffStack
  PROVE  SInv' /\ Singly!Lists!Next
  <1>1. b \in Seq(Nodes) /\ Singly!Walk(List) = l /\ Singly!Walk(Box) = b /\ s_Count = Len(b)
    BY SPointers DEF SState
  <1>2. Len(b) = 0 <=> b = <<>>
    BY <1>1, EmptySeq
  <1>3. CASE b = <<>>
    <2>1. UNCHANGED <<s_next, s_Count>> /\ s_ret' = NULL
      BY <1>1, <1>2, <1>3 DEF Singly!PopOffStack
    <2>2. SState(s_next', s_Count, l, b)
      BY <2>1
    <2>3. Singly!Walk(List)' = l /\ Singly!Walk(Box)' = b
      BY <2>2, SWalksNext
    <2>4. SInv'
      BY <2>1, <2>2 DEF SInv
    <2> QED
      BY <1>1, <1>3, <2>1, <2>3, <2>4, SAbsGet
  <1>4. CASE b # <<>>
    <2>1. PICK g : g = [s_next EXCEPT ![Box] = s_next[s_next[Box]]]
      OBVIOUS
    <2>2. SState(g, s_Count - 1, l, RemovedAt(b, 1)) /\ s_next[Box] = b[1] /\ s_next[Box] # NULL
      BY <1>4, <2>1, SPop
    <2>3. s_next' = g /\ s_Count' = s_Count - 1 /\ s_ret' = b[1]
      BY <1>1, <1>2, <1>4, <2>1, <2>2 DEF Singly!PopOffStack, Singly!SlRemoveNodeFromHead
    <2>4. Singly!Walk(List)' = l /\ Singly!Walk(Box)' = RemovedAt(b, 1)
      BY <2>2, <2>3, SWalksNext
    <2>5. SInv'
      BY <2>2, <2>3 DEF SInv
    <2> QED
      BY <1>1, <1>4, <2>3, <2>4, <2>5, SAbsGet
  <1> QED
    BY <1>3, <1>4

\* The variables of NodeLists.
SVars == <<Singly!Walk(List), Singly!Reverse(Singly!Walk(Box)), s_ret>>

LEMMA SStep == SInv /\ [Singly!Next]_(Singly!vars) => SInv' /\ [Singly!Lists!Next]_SVars
  <1> SUFFICES ASSUME SInv, [Singly!Next]_(Singly!vars) PROVE SInv' /\ [Singly!Lists!Next]_SVars
    OBVIOUS
  <1>1. PICK l, b : SState(s_next, s_Count, l, b)
    BY DEF SInv
  <1>2. Singly!Walk(List) = l /\ \A s : Singly!Range(s) = Range(s)
    BY <1>1, SPointers, SameOps
  <1>3. CASE UNCHANGED Singly!vars
    <2>1. SState(s_next', s_Count', l, b) /\ SState(s_next', s_Count, l, b) /\ UNCHANGED s_ret
      BY <1>1, <1>3 DEF Singly!vars
    <2>2. Singly!Walk(Box) = b /\ Singly!Walk(List)' = l /\ Singly!Walk(Box)' = b
      BY <1>1, <2>1, SPointers, SWalksNext
    <2>3. UNCHANGED SVars
      BY <1>2, <2>1, <2>2, SBoxKept DEF SVars
    <2> QED
      BY <2>1, <2>3 DEF SInv
  <1>4. CASE Singly!ListCall
    <2>1. UNCHANGED s_Count
      BY <1>4 DEF Singly!ListCall
    <2>2. ASSUME UNCHANGED s_ret, NEW n \in Singly!Unlinked,
                 NEW m \in {List} \cup Range(l), Singly!SlInsertNodeAfter(m, n)
          PROVE  SInv' /\ Singly!Lists!Next
      BY <1>1, <2>1, <2>2, SInsertAfterStep
    <2>3. ASSUME UNCHANGED s_ret, NEW n \in Singly!Unlinked, Singly!SlAddNodeToTail(List, n)
          PROVE  SInv' /\ Singly!Lists!Next
      BY <1>1, <2>1, <2>3, SAddTailStep
    <2>4. ASSUME UNCHANGED s_ret, NEW n \in Singly!Unlinked, NEW m, Singly!SlInsertNodeBefore(List, m, n)
          PROVE  SInv' /\ Singly!Lists!Next
      BY <1>1, <2>1, <2>4, SInsertBeforeStep
    <2>5. ASSUME UNCHANGED s_ret, NEW n, Singly!SlRemoveNode(List, n) PROVE SInv' /\ Singly!Lists!Next
      BY <1>1, <2>1, <2>5, SRemoveStep
    <2>6. ASSUME Singly!SlRemoveNodeFromHead(List) PROVE SInv' /\ Singly!Lists!Next
      BY <1>1, <2>1, <2>6, SHeadStep
    <2>7. ASSUME Singly!SlRemoveNodeFromTail(List) PROVE SInv' /\ Singly!Lists!Next
      BY <1>1, <2>1, <2>7, STailStep
    <2> QED
      BY <1>2, <1>4, <2>2, <2>3, <2>4, <2>5, <2>6, <2>7 DEF Singly!ListCall
  <1>5. CASE Singly!StackCall
    <2>1. ASSUME Singly!PopOffStack PROVE SInv' /\ Singly!Lists!Next
      BY <1>1, <2>1, SPopStep
    <2>2. ASSUME UNCHANGED s_ret, NEW n \in Singly!Unlinked, Singly!PushOnStack(n)
          PROVE  SInv' /\ Singly!Lists!Next
      BY <1>1, <2>2, SPushStep
    <2> QED
      BY <1>5, <2>1, <2>2 DEF Singly!StackCall
  <1> QED
    BY <1>3, <1>4, <1>5 DEF Singly!Next

LEMMA SStart == Singly!Init => SInv /\ Singly!Lists!Init
  <1> SUFFICES ASSUME Singly!Init PROVE SInv /\ Singly!Lists!Init
    OBVIOUS
  <1>1. SState(s_next, s_Count, <<>>, <<>>)
    BY SEmpty DEF Singly!Init
  <1>2. Singly!Walk(List) = <<>> /\ Singly!Walk(Box) = <<>>
    BY <1>1, SWalks
  <1>3. Singly!Reverse(<<>>) = <<>>
    BY DEF Singly!Reverse
  <1> QED
    BY <1>1, <1>2, <1>3 DEF SInv, Singly!Lists!Init, Singly!Init

\* For any finite set of nodes, which move between a list and a stack and carry any stale
\* pointers: every call that walks and changes the pointers does to the list what it says,
\* in the place it says, the stack gives back the newest node, and it says that it is empty
\* just when it is (slist.c, stack_simple.c).
THEOREM SListIsASequence == Singly!Spec => SListImplementsLists
  <1>1. Singly!Init => SInv /\ Singly!Lists!Init
    BY SStart
  <1>2. SInv /\ [Singly!Next]_(Singly!vars)
          => SInv' /\ [Singly!Lists!Next]_<<Singly!Walk(List), Singly!Reverse(Singly!Walk(Box)), s_ret>>
    BY SStep DEF SVars
  <1> QED
    BY <1>1, <1>2, PTL
    DEF Singly!Spec, Singly!vars, SListImplementsLists, Singly!ImplementsLists, Singly!Lists!Spec

-----------------------------------------------------------------------------
(* The doubly linked list and the queue.  The invariant says that there is *)
(* a list l and a queue q, the oldest node first: the field next leads     *)
(* from the head of the list through l and back to the head, and prev the  *)
(* other way; for the queue, prev leads through q, and next the other way. *)

\* Two rings that share no node, through h along f and back along g, and through k
\* along g and back along f.
Rings(f, g, h, s, k, t) ==
  /\ f \in [RingNodes \cup {h, k} -> RingNodes \cup {h, k, NULL}]
  /\ g \in [RingNodes \cup {h, k} -> RingNodes \cup {h, k, NULL}]
  /\ Apart(RingNodes, h, s, k, t, h, k)
  /\ Ring(f, g, h, s) /\ Ring(g, f, k, t)

\* With the fields f and g and the count c, the nodes of the list are l, those of the queue q.
DState(f, g, c, l, q) == Rings(f, g, List, l, Box, q) /\ c = Len(q)

LEMMA RingsTurned ==
  ASSUME NEW f, NEW g, NEW h, NEW s, NEW k, NEW t
  PROVE  Rings(f, g, h, s, k, t) <=> Rings(g, f, k, t, h, s)
  <1>1. {h, k} = {k, h} /\ {h, k, NULL} = {k, h, NULL}
    OBVIOUS
  <1> QED
    BY <1>1 DEF Rings, Apart

\* A walk meets the nodes of a ring, from either end.
LEMMA DWalk ==
  ASSUME NEW f, NEW h, NEW s, Line(RingNodes, h, s, h), Linked(f, h, s, h)
  PROVE  Doubly!Walk(f, h) = s
  <1>1. PICK at : at = CHOOSE g : Visits(g, f, h, h, Cardinality(RingNodes))
    OBVIOUS
  <1>2. Met(at, h) = s
    BY <1>1, WalkEnds, DoublyAssumption
  <1>3. \A S : Doubly!Cardinality(S) = Cardinality(S)
    BY DEF Doubly!Cardinality, Cardinality
  <1>4. Doubly!Walk(f, h) = [i \in 1..Doubly!Cardinality({k \in DOMAIN at : at[k] # h}) |-> at[i - 1]]
    <2>1. at = CHOOSE g : Visits(g, f, h, h, Doubly!Cardinality(RingNodes))
      BY <1>1, <1>3
    <2> QED
      BY <2>1 DEF Doubly!Walk, Visits
  <1> QED
    BY <1>2, <1>3, <1>4 DEF Met

LEMMA DWalks ==
  ASSUME NEW f, NEW g, NEW c, NEW l, NEW q, DState(f, g, c, l, q)
  PROVE  Doubly!Walk(f, List) = l /\ Doubly!Walk(g, Box) = q /\ Doubly!Walk(f, Box) = Turned(q)
  <1>1. /\ Line(RingNodes, List, l, List) /\ Line(RingNodes, Box, q, Box)
        /\ Linked(f, List, l, List) /\ Linked(g, Box, q, Box) /\ BackLinked(f, Box, q, Box)
    BY DEF DState, Rings, Apart, Ring
  <1>2. Line(RingNodes, Box, Turned(q), Box) /\ Linked(f, Box, Turned(q), Box)
    BY <1>1, TurnedLine
  <1> QED
    BY <1>1, <1>2, DWalk

LEMMA DWalksNext ==
  ASSUME NEW c, NEW l, NEW q, DState(d_next', d_prev', c, l, q)
  PROVE  Doubly!Walk(d_next, List)' = l /\ Doubly!Walk(d_prev, Box)' = q
  <1>1. PICK f, g : f = d_next' /\ g = d_prev'
    OBVIOUS
  <1>2. Doubly!Walk(f, List) = l /\ Doubly!Walk(g, Box) = q
    BY <1>1, DWalks
  <1>3. Doubly!Walk(d_next, List)' = Doubly!Walk(f, List) /\ Doubly!Walk(d_prev, Box)' = Doubly!Walk(g, Box)
    BY <1>1 DEF Doubly!Walk
  <1> QED
    BY <1>2, <1>3

\* The operators on sequences are the same in DList, NodeLists and here.
LEMMA DSameOps ==
  /\ \A s : Doubly!Range(s) = Range(s) /\ Doubly!Lists!Range(s) = Range(s)
  /\ \A s, j, e : Doubly!Lists!InsertAt(s, j, e) = InsertedAt(s, j, e)
  /\ \A s, j : Doubly!Lists!RemoveAt(s, j) = RemovedAt(s, j)
  /\ \A s : Doubly!Lists!Last(s) = s[Len(s)] /\ Doubly!Lists!Front(s) = SubSeq(s, 1, Len(s) - 1)
  BY
     DEF Doubly!Range, Doubly!Lists!Range, Range, Doubly!Lists!InsertAt, InsertedAt,
         Doubly!Lists!RemoveAt,
     RemovedAt, Doubly!Lists!Last, Doubly!Lists!Front

\* A node put into one of the two rings, and one taken out of it.
LEMMA DIn ==
  ASSUME NEW f, NEW g, NEW h, NEW s, NEW k, NEW t, Rings(f, g, h, s, k, t),
         NEW n \in RingNodes, n \notin Range(s) \cup Range(t), NEW j \in 1..(Len(s) + 1),
         NEW a, a = Path(h, s, h, j - 1), NEW z, z = Path(h, s, h, j),
         NEW ff, ff = [f EXCEPT ![n] = z, ![a] = n],
         NEW gg, gg = [g EXCEPT ![n] = a, ![z] = n]
  PROVE  Rings(ff, gg, h, InsertedAt(s, j, n), k, t)
  <1>0. /\ f \in [RingNodes \cup {h, k} -> RingNodes \cup {h, k, NULL}]
        /\ g \in [RingNodes \cup {h, k} -> RingNodes \cup {h, k, NULL}]
        /\ Apart(RingNodes, h, s, k, t, h, k) /\ Ring(f, g, h, s) /\ Ring(g, f, k, t)
    BY DEF Rings
  <1>1. a \in Range(s) \cup {h} /\ z \in Range(s) \cup {h} /\ a # n
    BY <1>0, ApartIn
  <1>2. Range(s) \subseteq RingNodes /\ h \notin RingNodes
    BY <1>0, Places DEF Apart, Line
  <1>3. z # n
    BY <1>0, <1>1, <1>2
  <1>4. /\ ff \in [RingNodes \cup {h, k} -> RingNodes \cup {h, k, NULL}]
        /\ gg \in [RingNodes \cup {h, k} -> RingNodes \cup {h, k, NULL}]
    BY <1>0, <1>1, <1>2
  <1>5. /\ ff[a] = n /\ ff[n] = z /\ \A x \in RingNodes \cup {h, k} : x # n /\ x # a => ff[x] = f[x]
    BY <1>0, <1>1, <1>2
  <1>6. /\ gg[z] = n /\ gg[n] = a /\ \A x \in RingNodes \cup {h, k} : x # n /\ x # z => gg[x] = g[x]
    BY <1>0, <1>1, <1>2, <1>3
  <1>7. a = Path(h, s, h, j - 1) /\ z = Path(h, s, h, j)
    OBVIOUS
  <1>8. /\ Apart(RingNodes, h, s, k, t, h, k) /\ Ring(f, g, h, s) /\ Ring(g, f, k, t)
        /\ n \in RingNodes /\ n \notin Range(s) \cup Range(t) /\ j \in 1..(Len(s) + 1)
        /\ ff[Path(h, s, h, j - 1)] = n /\ ff[n] = Path(h, s, h, j)
        /\ \A x \in RingNodes \cup {h, k} : x # n /\ x # Path(h, s, h, j - 1) => ff[x] = f[x]
        /\ gg[Path(h, s, h, j)] = n /\ gg[n] = Path(h, s, h, j - 1)
        /\ \A x \in RingNodes \cup {h, k} : x # n /\ x # Path(h, s, h, j) => gg[x] = g[x]
    BY <1>0, <1>5, <1>6, <1>7
  <1>9. /\ Apart(RingNodes, h, InsertedAt(s, j, n), k, t, h, k)
        /\ Ring(ff, gg, h, InsertedAt(s, j, n)) /\ Ring(gg, ff, k, t)
    BY ONLY <1>8, RingIn
  <1> QED
    BY <1>4, <1>9 DEF Rings

LEMMA DOut ==
  ASSUME NEW f, NEW g, NEW h, NEW s, NEW k, NEW t, Rings(f, g, h, s, k, t), NEW j \in 1..Len(s),
         NEW a, a = Path(h, s, h, j - 1), NEW z, z = Path(h, s, h, j + 1),
         NEW ff, ff = [f EXCEPT ![a] = z],
         NEW gg, gg = [g EXCEPT ![z] = a]
  PROVE  Rings(ff, gg, h, RemovedAt(s, j), k, t)
  <1>0. /\ f \in [RingNodes \cup {h, k} -> RingNodes \cup {h, k, NULL}]
        /\ g \in [RingNodes \cup {h, k} -> RingNodes \cup {h, k, NULL}]
        /\ Apart(RingNodes, h, s, k, t, h, k) /\ Ring(f, g, h, s) /\ Ring(g, f, k, t)
    BY DEF Rings
  <1>1. a \in Range(s) \cup {h} /\ z \in Range(s) \cup {h}
    BY <1>0, ApartOut
  <1>2. Range(s) \subseteq RingNodes /\ h \notin RingNodes
    BY <1>0, Places DEF Apart, Line
  <1>3. /\ ff \in [RingNodes \cup {h, k} -> RingNodes \cup {h, k, NULL}]
        /\ gg \in [RingNodes \cup {h, k} -> RingNodes \cup {h, k, NULL}]
    BY <1>0, <1>1, <1>2
  <1>4. /\ ff[a] = z /\ \A x \in RingNodes \cup {h, k} : x # a => ff[x] = f[x]
        /\ gg[z] = a /\ \A x \in RingNodes \cup {h, k} : x # z => gg[x] = g[x]
    BY <1>0, <1>1, <1>2
  <1>5. /\ Apart(RingNodes, h, s, k, t, h, k) /\ Ring(f, g, h, s) /\ Ring(g, f, k, t) /\ j \in 1..Len(s)
        /\ ff[Path(h, s, h, j - 1)] = Path(h, s, h, j + 1)
        /\ \A x \in RingNodes \cup {h, k} : x # Path(h, s, h, j - 1) => ff[x] = f[x]
        /\ gg[Path(h, s, h, j + 1)] = Path(h, s, h, j - 1)
        /\ \A x \in RingNodes \cup {h, k} : x # Path(h, s, h, j + 1) => gg[x] = g[x]
    BY <1>0, <1>4
  <1>6. /\ Apart(RingNodes, h, RemovedAt(s, j), k, t, h, k)
        /\ Ring(ff, gg, h, RemovedAt(s, j)) /\ Ring(gg, ff, k, t)
    BY ONLY <1>5, RingOut
  <1> QED
    BY <1>3, <1>6 DEF Rings

\* What the pointers of a ring say of the places next to a place.
LEMMA Neighbours ==
  ASSUME NEW S, NEW h, NEW s, Line(S, h, s, h), NEW f, NEW g, Ring(f, g, h, s)
  PROVE  /\ Len(s) \in Nat /\ s \in Seq(S) /\ Path(h, s, h, 0) = h /\ Path(h, s, h, Len(s) + 1) = h
         /\ \A i \in 1..Len(s) : Path(h, s, h, i) = s[i] /\ s[i] \in S /\ s[i] \in Range(s) /\ s[i] # h
         /\ \A x \in Range(s) : \E i \in 1..Len(s) : s[i] = x
         /\ \A i \in 0..Len(s) : f[Path(h, s, h, i)] = Path(h, s, h, i + 1)
         /\ \A i \in 0..Len(s) : g[Path(h, s, h, i + 1)] = Path(h, s, h, i)
  BY Places DEF Line, Ring, Linked, BackLinked

\* The inductive invariant.
DInv == \E l, q : DState(d_next, d_prev, d_Count, l, q)

\* The steps of NodeLists, from how the list and the queue have changed.
LEMMA DPlace ==
  ASSUME NEW l, Line(RingNodes, List, l, List), Doubly!Walk(d_next, List) = l, NEW j \in 1..Len(l)
  PROVE  Doubly!Lists!Place(l[j]) = j /\ l[j] \in RingNodes /\ l[j] \in Range(l)
  <1>1. /\ \A i, k \in 1..Len(l) : l[i] = l[k] => i = k
        /\ DOMAIN l = 1..Len(l) /\ l[j] \in RingNodes /\ l[j] \in Range(l)
    BY Members
  <1> QED
    BY <1>1 DEF Doubly!Lists!Place

LEMMA DFree ==
  ASSUME NEW l, NEW q, Doubly!Walk(d_next, List) = l, Doubly!Walk(d_prev, Box) = q,
         NEW n \in RingNodes, n \notin Range(l) \cup Range(q)
  PROVE  n \in Doubly!Lists!Free
  BY DSameOps DEF Doubly!Lists!Free

LEMMA DAbsInsert ==
  ASSUME NEW l, NEW q, Line(RingNodes, List, l, List),
         Doubly!Walk(d_next, List) = l, Doubly!Walk(d_prev, Box) = q,
         NEW n \in RingNodes, n \notin Range(l) \cup Range(q), NEW j \in 1..(Len(l) + 1),
         Doubly!Walk(d_next, List)' = InsertedAt(l, j, n), Doubly!Walk(d_prev, Box)' = q, UNCHANGED d_ret
  PROVE  Doubly!Lists!Next
  <1>1. n \in Doubly!Lists!Free
    BY DFree
  <1>2. Doubly!Lists!Insert(n, j)
    BY DSameOps DEF Doubly!Lists!Insert
  <1>3. CASE j = 1
    BY <1>1, <1>2, <1>3 DEF Doubly!Lists!Next, Doubly!Lists!AddToHead
  <1>4. CASE j # 1
    <2>1. j - 1 \in 1..Len(l) /\ (j - 1) + 1 = j
      BY <1>4, Members
    <2>2. Doubly!Lists!Place(l[j - 1]) = j - 1 /\ l[j - 1] \in RingNodes /\ l[j - 1] \in Range(l)
      BY <2>1, DPlace
    <2>3. Doubly!Lists!InsertAfter(l[j - 1], n)
      BY <1>2, <2>1, <2>2, DSameOps DEF Doubly!Lists!InsertAfter
    <2> QED
      BY <1>1, <2>2, <2>3 DEF Doubly!Lists!Next
  <1> QED
    BY <1>3, <1>4

LEMMA DAbsRemove ==
  ASSUME NEW l, NEW q, Line(RingNodes, List, l, List),
         Doubly!Walk(d_next, List) = l, Doubly!Walk(d_prev, Box) = q, NEW j \in 1..Len(l),
         Doubly!Walk(d_next, List)' = RemovedAt(l, j), Doubly!Walk(d_prev, Box)' = q, UNCHANGED d_ret
  PROVE  Doubly!Lists!Next
  <1>1. Doubly!Lists!Place(l[j]) = j /\ l[j] \in RingNodes /\ l[j] \in Range(l)
    BY DPlace
  <1>2. Doubly!Lists!RemoveNode(l[j])
    BY <1>1, DSameOps DEF Doubly!Lists!RemoveNode
  <1> QED
    BY <1>1, <1>2 DEF Doubly!Lists!Next

LEMMA DAbsEnds ==
  ASSUME NEW l, NEW q, Line(RingNodes, List, l, List),
         Doubly!Walk(d_next, List) = l, Doubly!Walk(d_prev, Box) = q, Doubly!Walk(d_prev, Box)' = q,
         \/ l = <<>> /\ Doubly!Walk(d_next, List)' = l /\ d_ret' = NULL
         \/ l # <<>> /\ Doubly!Walk(d_next, List)' = RemovedAt(l, 1) /\ d_ret' = l[1]
         \/ l # <<>> /\ Doubly!Walk(d_next, List)' = RemovedAt(l, Len(l)) /\ d_ret' = l[Len(l)]
  PROVE  Doubly!Lists!Next
  <1>1. l \in Seq(RingNodes)
    BY DEF Line
  <1>2. CASE l = <<>>
    BY <1>2 DEF Doubly!Lists!Next, Doubly!Lists!RemoveFromHead
  <1>3. CASE l # <<>> /\ Doubly!Walk(d_next, List)' = RemovedAt(l, 1) /\ d_ret' = l[1]
    <2>1. Head(l) = l[1]
      BY <1>1, <1>3
    <2>2. Tail(l) = RemovedAt(l, 1)
      BY <1>1, <1>3, TailIsRemoved
    <2> QED
      BY <1>3, <2>1, <2>2 DEF Doubly!Lists!Next, Doubly!Lists!RemoveFromHead
  <1>4. CASE l # <<>> /\ Doubly!Walk(d_next, List)' = RemovedAt(l, Len(l)) /\ d_ret' = l[Len(l)]
    <2>1. SubSeq(l, 1, Len(l) - 1) = RemovedAt(l, Len(l))
      BY <1>1, <1>4, FrontIsRemoved
    <2> QED
      BY <1>4, <2>1, DSameOps DEF Doubly!Lists!Next, Doubly!Lists!RemoveFromTail
  <1> QED
    BY <1>2, <1>3, <1>4

LEMMA DAbsPut ==
  ASSUME NEW l, NEW q, q \in Seq(RingNodes), Doubly!Walk(d_next, List) = l, Doubly!Walk(d_prev, Box) = q,
         NEW n \in RingNodes, n \notin Range(l) \cup Range(q),
         Doubly!Walk(d_next, List)' = l, Doubly!Walk(d_prev, Box)' = InsertedAt(q, Len(q) + 1, n),
         UNCHANGED d_ret
  PROVE  Doubly!Lists!Next
  <1>1. n \in Doubly!Lists!Free
    BY DFree
  <1>2. InsertedAt(q, Len(q) + 1, n) = Append(q, n)
    BY AppendIsInserted
  <1> QED
    BY <1>1, <1>2 DEF Doubly!Lists!Next, Doubly!Lists!Put

LEMMA DAbsGet ==
  ASSUME NEW l, NEW q, q \in Seq(RingNodes), Doubly!Walk(d_next, List) = l, Doubly!Walk(d_prev, Box) = q,
         Doubly!Walk(d_next, List)' = l,
         \/ q = <<>> /\ Doubly!Walk(d_prev, Box)' = q /\ d_ret' = NULL
         \/ q # <<>> /\ Doubly!Walk(d_prev, Box)' = RemovedAt(q, 1) /\ d_ret' = q[1]
  PROVE  Doubly!Lists!Next
  <1>1. CASE q = <<>>
    BY <1>1 DEF Doubly!Lists!Next, Doubly!Lists!Get
  <1>2. CASE q # <<>> /\ Doubly!Walk(d_prev, Box)' = RemovedAt(q, 1) /\ d_ret' = q[1]
    <2>1. Head(q) = q[1]
      BY <1>2
    <2>2. Tail(q) = RemovedAt(q, 1)
      BY <1>2, TailIsRemoved
    <2> QED
      BY <1>2, <2>1, <2>2 DEF Doubly!Lists!Next, Doubly!Lists!Get, Doubly!Lists!Oldest
  <1> QED
    BY <1>1, <1>2

\* What the state says of the list and of the queue.
LEMMA DFacts ==
  ASSUME NEW l, NEW q, DState(d_next, d_prev, d_Count, l, q)
  PROVE  /\ Line(RingNodes, List, l, List) /\ Line(RingNodes, Box, q, Box)
         /\ Ring(d_next, d_prev, List, l) /\ Ring(d_prev, d_next, Box, q)
         /\ Doubly!Walk(d_next, List) = l /\ Doubly!Walk(d_prev, Box) = q /\ q \in Seq(RingNodes)
         /\ Range(Doubly!Walk(d_next, Box)) = Range(q)
         /\ \A n \in Doubly!Unlinked : n \in RingNodes /\ n \notin Range(l) \cup Range(q)
  <1>1. /\ Line(RingNodes, List, l, List) /\ Line(RingNodes, Box, q, Box) /\ q \in Seq(RingNodes)
        /\ Ring(d_next, d_prev, List, l) /\ Ring(d_prev, d_next, Box, q)
    BY DEF DState, Rings, Apart, Line
  <1>2. /\ Doubly!Walk(d_next, List) = l /\ Doubly!Walk(d_prev, Box) = q
        /\ Doubly!Walk(d_next, Box) = Turned(q)
    BY DWalks
  <1>3. Range(Doubly!Walk(d_next, Box)) = Range(q)
    BY <1>1, <1>2, TurnedIs
  <1> QED
    BY <1>1, <1>2, <1>3, DSameOps DEF Doubly!Unlinked

\* A node put into the list at place j, and one taken out of it, as steps of NodeLists.
LEMMA DInStep ==
  ASSUME NEW l, NEW q, DState(d_next, d_prev, d_Count, l, q), NEW n \in Doubly!Unlinked,
         NEW j \in 1..(Len(l) + 1), UNCHANGED <<d_Count, d_ret>>,
         Doubly!DlInsertNodeAfter(Path(List, l, List, j - 1), n)
  PROVE  DInv' /\ Doubly!Lists!Next
  <1>1. /\ Line(RingNodes, List, l, List) /\ Ring(d_next, d_prev, List, l)
        /\ Doubly!Walk(d_next, List) = l /\ Doubly!Walk(d_prev, Box) = q
        /\ n \in RingNodes /\ n \notin Range(l) \cup Range(q)
    BY DFacts
  <1>2. PICK a, z : a = Path(List, l, List, j - 1) /\ z = Path(List, l, List, j)
    OBVIOUS
  <1>3. d_next[a] = z
    <2>1. j - 1 \in 0..Len(l) /\ (j - 1) + 1 = j
      BY <1>1, Neighbours
    <2> QED
      BY <1>1, <1>2, <2>1, Neighbours
  <1>4. d_next' = [d_next EXCEPT ![n] = z, ![a] = n] /\ d_prev' = [d_prev EXCEPT ![n] = a, ![z] = n]
    BY <1>2, <1>3 DEF Doubly!DlInsertNodeAfter
  <1>5. PICK ff, gg : ff = d_next' /\ gg = d_prev'
    OBVIOUS
  <1>6. Rings(d_next, d_prev, List, l, Box, q) /\ d_Count = Len(q)
    BY DEF DState
  <1>7. Rings(ff, gg, List, InsertedAt(l, j, n), Box, q)
    <2>1. ff = [d_next EXCEPT ![n] = z, ![a] = n] /\ gg = [d_prev EXCEPT ![n] = a, ![z] = n]
      BY <1>4, <1>5
    <2> QED
      BY ONLY <1>1, <1>2, <1>6, <2>1, j \in 1..(Len(l) + 1), DIn
  <1>8. DState(d_next', d_prev', d_Count, InsertedAt(l, j, n), q)
    BY <1>5, <1>6, <1>7 DEF DState
  <1>9. Doubly!Walk(d_next, List)' = InsertedAt(l, j, n) /\ Doubly!Walk(d_prev, Box)' = q
    BY <1>8, DWalksNext
  <1>10. DInv'
    BY <1>8 DEF DInv
  <1> QED
    BY <1>1, <1>9, <1>10, DAbsInsert

LEMMA DOutStep ==
  ASSUME NEW l, NEW q, DState(d_next, d_prev, d_Count, l, q), NEW j \in 1..Len(l), UNCHANGED d_Count,
         Doubly!DlRemoveNode(l[j]), UNCHANGED d_ret \/ (j \in {1, Len(l)} /\ d_ret' = l[j])
  PROVE  DInv' /\ Doubly!Lists!Next
  <1>1. /\ Line(RingNodes, List, l, List) /\ Ring(d_next, d_prev, List, l)
        /\ Doubly!Walk(d_next, List) = l /\ Doubly!Walk(d_prev, Box) = q
    BY DFacts
  <1>2. PICK a, z : a = Path(List, l, List, j - 1) /\ z = Path(List, l, List, j + 1)
    OBVIOUS
  <1>3. d_next[l[j]] = z /\ d_prev[l[j]] = a
    <2>1. j - 1 \in 0..Len(l) /\ (j - 1) + 1 = j /\ j \in 0..Len(l) /\ Path(List, l, List, j) = l[j]
      BY <1>1, Neighbours
    <2>2. d_next[Path(List, l, List, j)] = Path(List, l, List, j + 1)
      BY <1>1, <2>1, Neighbours
    <2>3. d_prev[Path(List, l, List, (j - 1) + 1)] = Path(List, l, List, j - 1)
      BY <1>1, <2>1, Neighbours
    <2> QED
      BY <1>2, <2>1, <2>2, <2>3
  <1>4. d_next' = [d_next EXCEPT ![a] = z] /\ d_prev' = [d_prev EXCEPT ![z] = a]
    BY <1>3 DEF Doubly!DlRemoveNode
  <1>5. PICK ff, gg : ff = d_next' /\ gg = d_prev'
    OBVIOUS
  <1>6. Rings(d_next, d_prev, List, l, Box, q) /\ d_Count = Len(q)
    BY DEF DState
  <1>7. Rings(ff, gg, List, RemovedAt(l, j), Box, q)
    <2>1. ff = [d_next EXCEPT ![a] = z] /\ gg = [d_prev EXCEPT ![z] = a]
      BY <1>4, <1>5
    <2> QED
      BY ONLY <1>2, <1>6, <2>1, j \in 1..Len(l), DOut
  <1>8. DState(d_next', d_prev', d_Count, RemovedAt(l, j), q)
    BY <1>5, <1>6, <1>7 DEF DState
  <1>9. Doubly!Walk(d_next, List)' = RemovedAt(l, j) /\ Doubly!Walk(d_prev, Box)' = q
    BY <1>8, DWalksNext
  <1>10. DInv'
    BY <1>8 DEF DInv
  <1>11. l # <<>>
    <2>1. l \in Seq(RingNodes) /\ Len(l) # 0
      BY <1>1, Neighbours
    <2> QED
      BY <2>1, EmptySeq
  <1>12. CASE UNCHANGED d_ret
    BY <1>1, <1>9, <1>10, <1>12, DAbsRemove
  <1>13. CASE j \in {1, Len(l)} /\ d_ret' = l[j]
    BY <1>1, <1>9, <1>10, <1>11, <1>13, DAbsEnds
  <1> QED
    BY <1>12, <1>13

\* The calls: each puts in a node, or takes one out, at a place of its own.
LEMMA DAddHeadStep ==
  ASSUME NEW l, NEW q, DState(d_next, d_prev, d_Count, l, q), NEW n \in Doubly!Unlinked,
         UNCHANGED <<d_Count, d_ret>>, Doubly!DlAddNodeToHead(List, n)
  PROVE  DInv' /\ Doubly!Lists!Next
  <1>1. Line(RingNodes, List, l, List) /\ Ring(d_next, d_prev, List, l)
    BY DFacts
  <1>2. Len(l) \in Nat /\ Path(List, l, List, 0) = List
    BY <1>1, Neighbours
  <1>3. 1 \in 1..(Len(l) + 1) /\ Path(List, l, List, 1 - 1) = List
    BY <1>2
  <1>4. Doubly!DlInsertNodeAfter(Path(List, l, List, 1 - 1), n)
    BY <1>3 DEF Doubly!DlAddNodeToHead
  <1> QED
    BY <1>3, <1>4, DInStep

LEMMA DAddTailStep ==
  ASSUME NEW l, NEW q, DState(d_next, d_prev, d_Count, l, q), NEW n \in Doubly!Unlinked,
         UNCHANGED <<d_Count, d_ret>>, Doubly!DlAddNodeToTail(List, n)
  PROVE  DInv' /\ Doubly!Lists!Next
  <1>1. Line(RingNodes, List, l, List) /\ Ring(d_next, d_prev, List, l)
    BY DFacts
  <1>2. /\ Len(l) \in Nat /\ Path(List, l, List, Len(l) + 1) = List
        /\ d_prev[Path(List, l, List, Len(l) + 1)] = Path(List, l, List, Len(l))
    <2>1. Len(l) \in 0..Len(l)
      BY <1>1, Neighbours
    <2> QED
      BY <1>1, <2>1, Neighbours
  <1>3. PICK j : j = Len(l) + 1
    OBVIOUS
  <1>4. j \in 1..(Len(l) + 1) /\ j - 1 = Len(l)
    BY <1>2, <1>3
  <1>5. Doubly!DlInsertNodeAfter(Path(List, l, List, j - 1), n)
    BY <1>2, <1>4 DEF Doubly!DlAddNodeToTail
  <1> QED
    BY <1>4, <1>5, DInStep

LEMMA DInsertAfterStep ==
  ASSUME NEW l, NEW q, DState(d_next, d_prev, d_Count, l, q), NEW n \in Doubly!Unlinked,
         UNCHANGED <<d_Count, d_ret>>, NEW m \in Range(l), Doubly!DlInsertNodeAfter(m, n)
  PROVE  DInv' /\ Doubly!Lists!Next
  <1>1. Line(RingNodes, List, l, List) /\ Ring(d_next, d_prev, List, l)
    BY DFacts
  <1>2. PICK i \in 1..Len(l) : Path(List, l, List, i) = m /\ Len(l) \in Nat
    BY <1>1, Neighbours
  <1>3. PICK j : j = i + 1
    OBVIOUS
  <1>4. j \in 1..(Len(l) + 1) /\ j - 1 = i
    BY <1>2, <1>3
  <1>5. Doubly!DlInsertNodeAfter(Path(List, l, List, j - 1), n)
    BY <1>2, <1>4
  <1> QED
    BY <1>4, <1>5, DInStep

LEMMA DInsertBeforeStep ==
  ASSUME NEW l, NEW q, DState(d_next, d_prev, d_Count, l, q), NEW n \in Doubly!Unlinked,
         UNCHANGED <<d_Count, d_ret>>, NEW m \in Range(l) \cup {List}, Doubly!DlInsertNodeBefore(m, n)
  PROVE  DInv' /\ Doubly!Lists!Next
  <1>1. Line(RingNodes, List, l, List) /\ Ring(d_next, d_prev, List, l)
    BY DFacts
  <1>2. PICK j \in 1..(Len(l) + 1) : Path(List, l, List, j) = m
    <2>1. CASE m \in Range(l)
      <3>1. PICK i \in 1..Len(l) : Path(List, l, List, i) = m /\ Len(l) \in Nat
        BY <1>1, <2>1, Neighbours
      <3>2. i \in 1..(Len(l) + 1)
        BY <3>1
      <3> QED
        BY <3>1, <3>2
    <2>2. CASE m = List
      <3>1. Len(l) + 1 \in 1..(Len(l) + 1) /\ Path(List, l, List, Len(l) + 1) = List
        BY <1>1, Neighbours
      <3> QED
        BY <2>2, <3>1
    <2> QED
      BY <2>1, <2>2
  <1>3. d_prev[m] = Path(List, l, List, j - 1)
    <2>1. j - 1 \in 0..Len(l) /\ (j - 1) + 1 = j
      BY <1>1, Neighbours
    <2>2. d_prev[Path(List, l, List, (j - 1) + 1)] = Path(List, l, List, j - 1)
      BY <1>1, <2>1, Neighbours
    <2> QED
      BY <1>2, <2>1, <2>2
  <1>4. Doubly!DlInsertNodeAfter(Path(List, l, List, j - 1), n)
    BY <1>3 DEF Doubly!DlInsertNodeBefore
  <1> QED
    BY <1>4, DInStep

LEMMA DRemoveStep ==
  ASSUME NEW l, NEW q, DState(d_next, d_prev, d_Count, l, q), UNCHANGED d_Count, UNCHANGED d_ret,
         NEW n \in Range(l), Doubly!DlRemoveNode(n)
  PROVE  DInv' /\ Doubly!Lists!Next
  <1>1. Line(RingNodes, List, l, List) /\ Ring(d_next, d_prev, List, l)
    BY DFacts
  <1>2. PICK j \in 1..Len(l) : l[j] = n
    BY <1>1, Neighbours
  <1>3. Doubly!DlRemoveNode(l[j])
    BY <1>2
  <1> QED
    BY <1>3, DOutStep

\* The first and the last of a ring, from its head.
LEMMA RingEnds ==
  ASSUME NEW S, NEW h, NEW s, Line(S, h, s, h), NEW f, NEW g, Ring(f, g, h, s)
  PROVE  /\ s = <<>> => f[h] = h
         /\ s # <<>> => /\ 1 \in 1..Len(s) /\ Len(s) \in 1..Len(s)
                        /\ f[h] = s[1] /\ g[h] = s[Len(s)] /\ f[h] # h /\ g[h] # h
  <1>1. /\ Len(s) \in Nat /\ s \in Seq(S) /\ Path(h, s, h, 0) = h /\ Path(h, s, h, Len(s) + 1) = h
        /\ \A i \in 1..Len(s) : Path(h, s, h, i) = s[i] /\ s[i] # h
        /\ \A i \in 0..Len(s) : f[Path(h, s, h, i)] = Path(h, s, h, i + 1)
        /\ \A i \in 0..Len(s) : g[Path(h, s, h, i + 1)] = Path(h, s, h, i)
    BY Neighbours
  <1>2. f[h] = Path(h, s, h, 1) /\ g[h] = Path(h, s, h, Len(s))
    <2>1. 0 \in 0..Len(s) /\ Len(s) \in 0..Len(s)
      BY <1>1
    <2>2. f[Path(h, s, h, 0)] = Path(h, s, h, 0 + 1)
      BY <1>1, <2>1
    <2>3. g[Path(h, s, h, Len(s) + 1)] = Path(h, s, h, Len(s))
      BY <1>1, <2>1
    <2> QED
      BY <1>1, <2>2, <2>3
  <1>3. CASE s = <<>>
    BY <1>1, <1>2, <1>3, EmptySeq
  <1>4. CASE s # <<>>
    <2>1. Len(s) # 0
      BY <1>1, <1>4, EmptySeq
    <2>2. 1 \in 1..Len(s) /\ Len(s) \in 1..Len(s)
      BY <1>1, <2>1
    <2> QED
      BY <1>1, <1>2, <1>4, <2>2
  <1> QED
    BY <1>3, <1>4

\* A list without nodes has none to give.
LEMMA DNothingStep ==
  ASSUME NEW l, NEW q, DState(d_next, d_prev, d_Count, l, q), l = <<>>,
         UNCHANGED <<d_next, d_prev, d_Count>>, d_ret' = NULL
  PROVE  DInv' /\ Doubly!Lists!Next
  <1>1. /\ Line(RingNodes, List, l, List)
        /\ Doubly!Walk(d_next, List) = l /\ Doubly!Walk(d_prev, Box) = q
    BY DFacts
  <1>2. DState(d_next', d_prev', d_Count, l, q)
    OBVIOUS
  <1>3. Doubly!Walk(d_next, List)' = l /\ Doubly!Walk(d_prev, Box)' = q
    BY <1>2, DWalksNext
  <1>4. DInv'
    BY <1>2 DEF DInv
  <1> QED
    BY <1>1, <1>3, <1>4, DAbsEnds

LEMMA DEndStep ==
  ASSUME NEW l, NEW q, DState(d_next, d_prev, d_Count, l, q), UNCHANGED d_Count,
         Doubly!DlRemoveNodeFromHead(List) \/ Doubly!DlRemoveNodeFromTail(List)
  PROVE  DInv' /\ Doubly!Lists!Next
  <1>1. Line(RingNodes, List, l, List) /\ Ring(d_next, d_prev, List, l)
    BY DFacts
  <1>2. CASE l = <<>>
    <2>1. d_next[List] = List
      BY <1>1, <1>2, RingEnds
    <2>2. UNCHANGED <<d_next, d_prev>> /\ d_ret' = NULL
      BY <2>1 DEF Doubly!DlRemoveNodeFromHead, Doubly!DlRemoveNodeFromTail, Doubly!RemoveEnd
    <2> QED
      BY <1>2, <2>2, DNothingStep
  <1>3. CASE l # <<>>
    <2>1. /\ 1 \in 1..Len(l) /\ Len(l) \in 1..Len(l)
          /\ d_next[List] = l[1] /\ d_prev[List] = l[Len(l)] /\ d_next[List] # List
      BY <1>1, <1>3, RingEnds
    <2>2. PICK j \in 1..Len(l) : j \in {1, Len(l)} /\ d_ret' = l[j] /\ Doubly!DlRemoveNode(l[j])
      <3>1. CASE Doubly!DlRemoveNodeFromHead(List)
        <4>1. d_ret' = l[1] /\ Doubly!DlRemoveNode(l[1])
          BY <2>1, <3>1 DEF Doubly!DlRemoveNodeFromHead, Doubly!RemoveEnd
        <4> QED
          BY <2>1, <4>1
      <3>2. CASE Doubly!DlRemoveNodeFromTail(List)
        <4>1. d_ret' = l[Len(l)] /\ Doubly!DlRemoveNode(l[Len(l)])
          BY <2>1, <3>2 DEF Doubly!DlRemoveNodeFromTail, Doubly!RemoveEnd
        <4> QED
          BY <2>1, <4>1
      <3> QED
        BY <3>1, <3>2
    <2> QED
      BY <2>2, DOutStep
  <1> QED
    BY <1>2, <1>3

LEMMA DEnqueueStep ==
  ASSUME NEW l, NEW q, DState(d_next, d_prev, d_Count, l, q), NEW n \in Doubly!Unlinked,
         UNCHANGED d_ret, Doubly!Enqueue(n)
  PROVE  DInv' /\ Doubly!Lists!Next
  <1>1. /\ Line(RingNodes, Box, q, Box) /\ Ring(d_prev, d_next, Box, q) /\ q \in Seq(RingNodes)
        /\ Doubly!Walk(d_next, List) = l /\ Doubly!Walk(d_prev, Box) = q
        /\ n \in RingNodes /\ n \notin Range(l) \cup Range(q)
    BY DFacts
  <1>2. PICK j, a, z : j = Len(q) + 1 /\ a = Path(Box, q, Box, j - 1) /\ z = Path(Box, q, Box, j)
    OBVIOUS
  <1>3. j \in 1..(Len(q) + 1) /\ j - 1 = Len(q) /\ z = Box /\ d_next[Box] = a
    <2>1. Len(q) \in Nat /\ Len(q) \in 0..Len(q)
      BY <1>1, Neighbours
    <2>2. z = Box
      BY <1>1, <1>2, Neighbours
    <2>3. d_next[Path(Box, q, Box, Len(q) + 1)] = Path(Box, q, Box, Len(q))
      BY <1>1, <2>1, Neighbours
    <2> QED
      BY <1>2, <2>1, <2>2, <2>3
  <1>4. /\ d_next' = [d_next EXCEPT ![n] = a, ![z] = n] /\ d_prev' = [d_prev EXCEPT ![n] = z, ![a] = n]
        /\ d_Count' = d_Count + 1
    BY <1>3 DEF Doubly!Enqueue, Doubly!DlAddNodeToHead, Doubly!DlInsertNodeAfter
  <1>5. PICK ff, gg : ff = d_prev' /\ gg = d_next'
    OBVIOUS
  <1>6. Rings(d_prev, d_next, Box, q, List, l) /\ d_Count = Len(q)
    BY RingsTurned DEF DState
  <1>7. Rings(ff, gg, Box, InsertedAt(q, j, n), List, l)
    <2>1. ff = [d_prev EXCEPT ![n] = z, ![a] = n] /\ gg = [d_next EXCEPT ![n] = a, ![z] = n]
      BY <1>4, <1>5
    <2> QED
      BY ONLY <1>1, <1>2, <1>3, <1>6, <2>1, DIn
  <1>8. Len(InsertedAt(q, j, n)) = d_Count + 1
    BY <1>1, <1>3, <1>6, PathIn
  <1>9. DState(d_next', d_prev', d_Count + 1, l, InsertedAt(q, j, n))
    BY <1>5, <1>7, <1>8, RingsTurned DEF DState
  <1>10. Doubly!Walk(d_next, List)' = l /\ Doubly!Walk(d_prev, Box)' = InsertedAt(q, j, n)
    BY <1>9, DWalksNext
  <1>11. DInv'
    BY <1>4, <1>9 DEF DInv
  <1> QED
    BY <1>1, <1>2, <1>10, <1>11, DAbsPut

LEMMA DDequeueStep ==
  ASSUME NEW l, NEW q, DState(d_next, d_prev, d_Count, l, q), Doubly!Dequeue
  PROVE  DInv' /\ Doubly!Lists!Next
  <1>1. /\ Line(RingNodes, Box, q, Box) /\ Ring(d_prev, d_next, Box, q) /\ q \in Seq(RingNodes)
        /\ Doubly!Walk(d_next, List) = l /\ Doubly!Walk(d_prev, Box) = q
    BY DFacts
  <1>2. Rings(d_prev, d_next, Box, q, List, l) /\ d_Count = Len(q)
    BY RingsTurned DEF DState
  <1>3. Len(q) \in Nat /\ (Len(q) = 0 <=> q = <<>>)
    BY <1>1, Neighbours, EmptySeq
  <1>4. CASE q = <<>>
    <2>1. UNCHANGED <<d_next, d_prev, d_Count>> /\ d_ret' = NULL
      BY <1>2, <1>3, <1>4 DEF Doubly!Dequeue
    <2>2. DState(d_next', d_prev', d_Count, l, q)
      BY <2>1
    <2>3. Doubly!Walk(d_next, List)' = l /\ Doubly!Walk(d_prev, Box)' = q
      BY <2>2, DWalksNext
    <2>4. DInv'
      BY <2>1, <2>2 DEF DInv
    <2> QED
      BY <1>1, <1>4, <2>1, <2>3, <2>4, DAbsGet
  <1>5. CASE q # <<>>
    <2>1. 1 \in 1..Len(q) /\ d_prev[Box] = q[1] /\ d_next[Box] # Box
      BY <1>1, <1>5, RingEnds
    <2>2. PICK a, z : a = Path(Box, q, Box, 1 - 1) /\ z = Path(Box, q, Box, 1 + 1)
      OBVIOUS
    <2>3. d_prev[q[1]] = z /\ d_next[q[1]] = a
      <3>1. 0 \in 0..Len(q) /\ 1 \in 0..Len(q) /\ Path(Box, q, Box, 1) = q[1]
        BY <1>1, <1>3, <2>1, Neighbours
      <3>2. d_prev[Path(Box, q, Box, 1)] = Path(Box, q, Box, 1 + 1)
        BY <1>1, <3>1, Neighbours
      <3>3. d_next[Path(Box, q, Box, 0 + 1)] = Path(Box, q, Box, 0)
        BY <1>1, <3>1, Neighbours
      <3> QED
        BY <2>2, <3>1, <3>2, <3>3
    <2>4. /\ d_next' = [d_next EXCEPT ![z] = a] /\ d_prev' = [d_prev EXCEPT ![a] = z]
          /\ d_Count' = d_Count - 1 /\ d_ret' = q[1]
      BY <1>2, <1>3, <1>5, <2>1, <2>3
      DEF Doubly!Dequeue, Doubly!DlRemoveNodeFromTail, Doubly!RemoveEnd, Doubly!DlRemoveNode
    <2>5. PICK ff, gg : ff = d_prev' /\ gg = d_next'
      OBVIOUS
    <2>6. Rings(ff, gg, Box, RemovedAt(q, 1), List, l)
      <3>1. ff = [d_prev EXCEPT ![a] = z] /\ gg = [d_next EXCEPT ![z] = a]
        BY <2>4, <2>5
      <3> QED
        BY ONLY <1>2, <2>1, <2>2, <3>1, DOut
    <2>7. Len(RemovedAt(q, 1)) = d_Count - 1
      BY <1>1, <1>2, <2>1, PathOut
    <2>8. DState(d_next', d_prev', d_Count - 1, l, RemovedAt(q, 1))
      BY <2>5, <2>6, <2>7, RingsTurned DEF DState
    <2>9. Doubly!Walk(d_next, List)' = l /\ Doubly!Walk(d_prev, Box)' = RemovedAt(q, 1)
      BY <2>8, DWalksNext
    <2>10. DInv'
      BY <2>4, <2>8 DEF DInv
    <2> QED
      BY <1>1, <1>5, <2>4, <2>9, <2>10, DAbsGet
  <1> QED
    BY <1>4, <1>5

LEMMA DStart == Doubly!Init => DInv /\ Doubly!Lists!Init
  <1> SUFFICES ASSUME Doubly!Init PROVE DInv /\ Doubly!Lists!Init
    OBVIOUS
  <1>1. List # Box /\ List \notin RingNodes /\ Box \notin RingNodes
    BY DoublyAssumption DEF Doubly!HeadsApart
  <1>2. PICK e : e = <<>>
    OBVIOUS
  <1>3. e \in Seq(RingNodes) /\ IsInjective(e) /\ Range(e) = {} /\ Len(e) = 0
    BY <1>2, EmptyQueue
  <1>4. Apart(RingNodes, List, e, Box, e, List, Box)
    BY <1>1, <1>3 DEF Apart, Line
  <1>5. /\ d_prev = d_next /\ d_next[List] = List /\ d_next[Box] = Box
        /\ d_next \in [RingNodes \cup {List, Box} -> RingNodes \cup {List, Box, NULL}]
    BY <1>1 DEF Doubly!Init
  <1>6. Ring(d_next, d_prev, List, e) /\ Ring(d_prev, d_next, Box, e)
    BY <1>3, <1>5 DEF Ring, Linked, BackLinked, Path
  <1>7. DState(d_next, d_prev, d_Count, e, e)
    BY <1>3, <1>4, <1>5, <1>6 DEF DState, Rings, Doubly!Init
  <1>8. Doubly!Walk(d_next, List) = e /\ Doubly!Walk(d_prev, Box) = e
    BY <1>7, DWalks
  <1> QED
    BY <1>2, <1>7, <1>8 DEF DInv, Doubly!Lists!Init, Doubly!Init

\* The variables of NodeLists.
DVars == <<Doubly!Walk(d_next, List), Doubly!Walk(d_prev, Box), d_ret>>

LEMMA DStep == DInv /\ [Doubly!Next]_(Doubly!vars) => DInv' /\ [Doubly!Lists!Next]_DVars
  <1> SUFFICES ASSUME DInv, [Doubly!Next]_(Doubly!vars) PROVE DInv' /\ [Doubly!Lists!Next]_DVars
    OBVIOUS
  <1>1. PICK l, q : DState(d_next, d_prev, d_Count, l, q)
    BY DEF DInv
  <1>2. Doubly!Walk(d_next, List) = l /\ \A s : Doubly!Range(s) = Range(s)
    BY <1>1, DFacts, DSameOps
  <1>3. CASE UNCHANGED Doubly!vars
    <2>1. /\ DState(d_next', d_prev', d_Count', l, q) /\ DState(d_next', d_prev', d_Count, l, q)
          /\ UNCHANGED d_ret
      BY <1>1, <1>3 DEF Doubly!vars
    <2>2. /\ Doubly!Walk(d_prev, Box) = q
          /\ Doubly!Walk(d_next, List)' = l /\ Doubly!Walk(d_prev, Box)' = q
      BY <1>1, <2>1, DFacts, DWalksNext
    <2>3. UNCHANGED DVars
      BY <1>2, <2>1, <2>2 DEF DVars
    <2> QED
      BY <2>1, <2>3 DEF DInv
  <1>4. CASE Doubly!ListCall
    <2>1. UNCHANGED d_Count
      BY <1>4 DEF Doubly!ListCall
    <2>2. ASSUME UNCHANGED d_ret, NEW n \in Doubly!Unlinked, Doubly!DlAddNodeToHead(List, n)
          PROVE  DInv' /\ Doubly!Lists!Next
      BY <1>1, <2>1, <2>2, DAddHeadStep
    <2>3. ASSUME UNCHANGED d_ret, NEW n \in Doubly!Unlinked, Doubly!DlAddNodeToTail(List, n)
          PROVE  DInv' /\ Doubly!Lists!Next
      BY <1>1, <2>1, <2>3, DAddTailStep
    <2>4. ASSUME UNCHANGED d_ret, NEW n \in Doubly!Unlinked,
                 NEW m \in Range(l), Doubly!DlInsertNodeAfter(m, n)
          PROVE  DInv' /\ Doubly!Lists!Next
      BY <1>1, <2>1, <2>4, DInsertAfterStep
    <2>5. ASSUME UNCHANGED d_ret, NEW n \in Doubly!Unlinked,
                 NEW m \in Range(l) \cup {List}, Doubly!DlInsertNodeBefore(m, n)
          PROVE  DInv' /\ Doubly!Lists!Next
      BY <1>1, <2>1, <2>5, DInsertBeforeStep
    <2>6. ASSUME UNCHANGED d_ret, NEW n \in Range(l), Doubly!DlRemoveNode(n)
          PROVE  DInv' /\ Doubly!Lists!Next
      BY <1>1, <2>1, <2>6, DRemoveStep
    <2>7. ASSUME Doubly!DlRemoveNodeFromHead(List) \/ Doubly!DlRemoveNodeFromTail(List)
          PROVE  DInv' /\ Doubly!Lists!Next
      BY <1>1, <2>1, <2>7, DEndStep
    <2> QED
      BY <1>2, <1>4, <2>2, <2>3, <2>4, <2>5, <2>6, <2>7 DEF Doubly!ListCall
  <1>5. CASE Doubly!QueueCall
    <2>1. ASSUME Doubly!Dequeue PROVE DInv' /\ Doubly!Lists!Next
      BY <1>1, <2>1, DDequeueStep
    <2>2. ASSUME UNCHANGED d_ret, NEW n \in Doubly!Unlinked, Doubly!Enqueue(n)
          PROVE  DInv' /\ Doubly!Lists!Next
      BY <1>1, <2>2, DEnqueueStep
    <2> QED
      BY <1>5, <2>1, <2>2 DEF Doubly!QueueCall
  <1> QED
    BY <1>3, <1>4, <1>5 DEF Doubly!Next

\* For any finite set of nodes, which move between a list and a queue: every call keeps both
\* chains of pointers right, also where it reads only one of them, the queue gives back the
\* oldest node, and it says that it is empty just when it is (dlist.c, queue_simple.c).
THEOREM DListIsASequence == Doubly!Spec => DListImplementsLists
  <1>1. Doubly!Init => DInv /\ Doubly!Lists!Init
    BY DStart
  <1>2. DInv /\ [Doubly!Next]_(Doubly!vars)
          => DInv' /\ [Doubly!Lists!Next]_<<Doubly!Walk(d_next, List), Doubly!Walk(d_prev, Box), d_ret>>
    BY DStep DEF DVars
  <1> QED
    BY <1>1, <1>2, PTL
    DEF Doubly!Spec, Doubly!vars, DListImplementsLists, Doubly!ImplementsLists, Doubly!Lists!Spec
=============================================================================
