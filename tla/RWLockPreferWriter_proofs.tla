---------------------- MODULE RWLockPreferWriter_proofs ----------------------
(***************************************************************************)
(* Proofs about the read/write lock that prefers writers, for every finite *)
(* set of threads: LockInv is an invariant; hence writers are alone, no    *)
(* reader overtakes a registered writer, and the lock implements the       *)
(* abstract read/write lock.                                               *)
(***************************************************************************)
EXTENDS RWLockPreferWriter, FiniteSetTheorems, TLAPS

\* A thread that goes to a label of a set joins the set.
LEMMA Joins ==
  ASSUME NEW t \in Threads, NEW l, pc \in [Threads -> Labels], Goto(t, l)
  PROVE  /\ l \in IsCountedReader => CountedReaders' = CountedReaders \cup {t}
         /\ l \in IsCountedWriter => CountedWriters' = CountedWriters \cup {t}
         /\ l \in IsHolding => Holding' = Holding \cup {t}
         /\ l \in IsPassing => Passing' = Passing \cup {t}
         /\ l \in IsShutting => Shutting' = Shutting \cup {t}
         /\ l = "reading" => Reading' = Reading \cup {t}
         /\ l = "writing" => Writing' = Writing \cup {t}
  <1>0. \A u \in Threads : pc'[u] = IF u = t THEN l ELSE pc[u]
    BY DEF Goto
  <1>1. ASSUME l \in IsCountedReader PROVE CountedReaders' = CountedReaders \cup {t}
    BY <1>0, <1>1 DEF CountedReaders
  <1>2. ASSUME l \in IsCountedWriter PROVE CountedWriters' = CountedWriters \cup {t}
    BY <1>0, <1>2 DEF CountedWriters
  <1>3. ASSUME l \in IsHolding PROVE Holding' = Holding \cup {t}
    BY <1>0, <1>3 DEF Holding
  <1>4. ASSUME l \in IsPassing PROVE Passing' = Passing \cup {t}
    BY <1>0, <1>4 DEF Passing
  <1>5. ASSUME l \in IsShutting PROVE Shutting' = Shutting \cup {t}
    BY <1>0, <1>5 DEF Shutting
  <1>6. ASSUME l = "reading" PROVE Reading' = Reading \cup {t}
    BY <1>0, <1>6 DEF Reading
  <1>7. ASSUME l = "writing" PROVE Writing' = Writing \cup {t}
    BY <1>0, <1>7 DEF Writing
  <1> QED
    BY <1>1, <1>2, <1>3, <1>4, <1>5, <1>6, <1>7

\* A thread that goes to another label leaves it.
LEMMA Leaves ==
  ASSUME NEW t \in Threads, NEW l, pc \in [Threads -> Labels], Goto(t, l)
  PROVE  /\ l \notin IsCountedReader => CountedReaders' = CountedReaders \ {t}
         /\ l \notin IsCountedWriter => CountedWriters' = CountedWriters \ {t}
         /\ l \notin IsHolding => Holding' = Holding \ {t}
         /\ l \notin IsPassing => Passing' = Passing \ {t}
         /\ l \notin IsShutting => Shutting' = Shutting \ {t}
         /\ l # "reading" => Reading' = Reading \ {t}
         /\ l # "writing" => Writing' = Writing \ {t}
  <1>0. \A u \in Threads : pc'[u] = IF u = t THEN l ELSE pc[u]
    BY DEF Goto
  <1>1. ASSUME l \notin IsCountedReader PROVE CountedReaders' = CountedReaders \ {t}
    BY <1>0, <1>1 DEF CountedReaders
  <1>2. ASSUME l \notin IsCountedWriter PROVE CountedWriters' = CountedWriters \ {t}
    BY <1>0, <1>2 DEF CountedWriters
  <1>3. ASSUME l \notin IsHolding PROVE Holding' = Holding \ {t}
    BY <1>0, <1>3 DEF Holding
  <1>4. ASSUME l \notin IsPassing PROVE Passing' = Passing \ {t}
    BY <1>0, <1>4 DEF Passing
  <1>5. ASSUME l \notin IsShutting PROVE Shutting' = Shutting \ {t}
    BY <1>0, <1>5 DEF Shutting
  <1>6. ASSUME l # "reading" PROVE Reading' = Reading \ {t}
    BY <1>0, <1>6 DEF Reading
  <1>7. ASSUME l # "writing" PROVE Writing' = Writing \ {t}
    BY <1>0, <1>7 DEF Writing
  <1> QED
    BY <1>1, <1>2, <1>3, <1>4, <1>5, <1>6, <1>7

\* Which set a thread is in is what its label says.
LEMMA Membership ==
  ASSUME NEW t \in Threads
  PROVE  /\ t \in CountedReaders <=> pc[t] \in IsCountedReader
         /\ t \in CountedWriters <=> pc[t] \in IsCountedWriter
         /\ t \in Holding <=> pc[t] \in IsHolding
         /\ t \in Passing <=> pc[t] \in IsPassing
         /\ t \in Shutting <=> pc[t] \in IsShutting
         /\ t \in Reading <=> pc[t] = "reading"
         /\ t \in Writing <=> pc[t] = "writing"
  BY DEF CountedReaders, CountedWriters, Holding, Passing, Shutting, Reading, Writing

\* The cardinality of a set of threads, as one joins or leaves.
LEMMA CardinalityOfThreads ==
  ASSUME NEW S \in SUBSET Threads
  PROVE  /\ Cardinality(S) \in Nat
         /\ Cardinality(S) = 0 <=> S = {}
         /\ \A t \in Threads \ S : Cardinality(S \cup {t}) = Cardinality(S) + 1
         /\ \A t \in S : /\ Cardinality(S \ {t}) = Cardinality(S) - 1
                         /\ Cardinality(S) = 1 => S = {t}
  <1>1. IsFiniteSet(S)
    BY ThreadsAssumption, FS_Subset
  <1>2. Cardinality(S) \in Nat /\ (Cardinality(S) = 0 <=> S = {})
    BY <1>1, FS_CardinalityType, FS_EmptySet
  <1>4. \A t \in Threads \ S : Cardinality(S \cup {t}) = Cardinality(S) + 1
    BY <1>1, FS_AddElement
  <1>5. \A t \in S : Cardinality(S \ {t}) = Cardinality(S) - 1
    BY <1>1, FS_RemoveElement
  <1>6. Cardinality(S) = 1 => \E u : S = {u}
    BY <1>1, FS_Singleton
  <1>7. \A t \in S : Cardinality(S) = 1 => S = {t}
    BY <1>6
  <1> QED
    BY <1>2, <1>4, <1>5, <1>7

\* The state that CreateReadWriteLockPreferWriter returns satisfies the invariant.
LEMMA InitLockInv == Init => LockInv
  <1> SUFFICES ASSUME Init PROVE LockInv
    OBVIOUS
  <1>1. \A t \in Threads : pc[t] = "out"
    BY DEF Init
  <1>2. /\ CountedReaders = {} /\ CountedWriters = {} /\ Holding = {} /\ Passing = {}
        /\ Shutting = {} /\ Writing = {}
    BY <1>1 DEF CountedReaders, CountedWriters, Holding, Passing, Shutting, Writing,
       IsCountedReader, IsCountedWriter, IsHolding, IsPassing, IsShutting, IsRegistered
  <1>3. TypeOK
    BY DEF Init, TypeOK, Labels
  <1>4. MutexInv
    BY <1>1, ThreadsAssumption DEF Init, MutexInv, HoldsReadLock, HoldsWriteLock
  <1>5. CountsExact
    BY <1>2, FS_EmptySet DEF Init, CountsExact
  <1>6. ResourceInv /\ BlockInv
    BY <1>1, <1>2 DEF Init, ResourceInv, BlockInv
  <1> QED
    BY <1>3, <1>4, <1>5, <1>6 DEF LockInv

\* A reader that leaves, and a writer that leaves, is counted, so neither count
\* goes below zero.
LEMMA CountsPositive ==
  ASSUME LockInv, NEW t \in Threads
  PROVE  /\ pc[t] \in IsCountedReader => readCount \in Nat \ {0}
         /\ pc[t] \in IsCountedWriter => writeCount \in Nat \ {0}
  <1>1. CountedReaders \subseteq Threads /\ CountedWriters \subseteq Threads
    BY DEF CountedReaders, CountedWriters
  <1> QED
    BY <1>1, Membership, CardinalityOfThreads DEF LockInv, CountsExact

\* Every step keeps the types, and each mutex with one holder.
LEMMA StepMutexInv ==
  ASSUME LockInv, NEW t \in Threads,
         CallReaderLock(t) \/ CallWriterLock(t) \/ GoOn(t)
  PROVE  TypeOK' /\ MutexInv'
  <1> USE DEF LockInv, TypeOK, MutexInv, HoldsReadLock, HoldsWriteLock, Labels, Goto,
              readerVars, writerVars
  <1>1. CASE CallReaderLock(t) \/ CallWriterLock(t) \/ CallReaderUnlock(t)
    BY <1>1 DEF CallReaderLock, CallWriterLock, CallReaderUnlock
  <1>2. CASE ReaderLockTake(t) \/ ReaderUnlockTake(t)
    BY <1>2, ThreadsAssumption DEF ReaderLockTake, ReaderUnlockTake
  <1>3. CASE ReaderLockCount(t) \/ WriterLockCount(t)
    BY <1>3 DEF ReaderLockCount, WriterLockCount
  <1>4. CASE ReaderUnlockCount(t)
    <2>1. readCount - 1 \in Nat
      BY <1>4, CountsPositive DEF ReaderUnlockCount, IsCountedReader
    <2> QED
      BY <1>4, <2>1 DEF ReaderUnlockCount
  <1>5. CASE WriterUnlockCount(t)
    <2>1. writeCount - 1 \in Nat
      BY <1>5, CountsPositive DEF WriterUnlockCount, IsCountedWriter
    <2> QED
      BY <1>5, <2>1 DEF WriterUnlockCount
  <1>6. CASE ReaderLockGive(t) \/ ReaderUnlockGive(t)
    BY <1>6, ThreadsAssumption DEF ReaderLockGive, ReaderUnlockGive
  <1>7. CASE WriterLockTake(t) \/ WriterUnlockTake(t)
    BY <1>7, ThreadsAssumption DEF WriterLockTake, WriterUnlockTake
  <1>8. CASE WriterLockGive(t) \/ WriterUnlockGive(t)
    BY <1>8, ThreadsAssumption DEF WriterLockGive, WriterUnlockGive
  <1>9. CASE ReaderLockResource(t) \/ ReaderUnlockResource(t)
             \/ WriterLockResource(t) \/ WriterUnlockResource(t)
    BY <1>9 DEF ReaderLockResource, ReaderUnlockResource, WriterLockResource,
                WriterUnlockResource
  <1>10. CASE ReaderLockBlock(t) \/ ReaderLockUnblock(t)
              \/ WriterLockBlock(t) \/ WriterUnlockUnblock(t)
    BY <1>10 DEF ReaderLockBlock, ReaderLockUnblock, WriterLockBlock, WriterUnlockUnblock
  <1> QED
    BY <1>1, <1>2, <1>3, <1>4, <1>5, <1>6, <1>7, <1>8, <1>9, <1>10
    DEF GoOn, ReaderGoesOn, WriterGoesOn

\* A set that t is in exactly when its new label says so has not changed.
LEMMA Unmoved ==
  ASSUME NEW t \in Threads, NEW l, pc \in [Threads -> Labels], Goto(t, l)
  PROVE  /\ (pc[t] \in IsCountedReader <=> l \in IsCountedReader) => CountedReaders' = CountedReaders
         /\ (pc[t] \in IsCountedWriter <=> l \in IsCountedWriter) => CountedWriters' = CountedWriters
         /\ (pc[t] \in IsHolding <=> l \in IsHolding) => Holding' = Holding
         /\ (pc[t] \in IsPassing <=> l \in IsPassing) => Passing' = Passing
         /\ (pc[t] \in IsShutting <=> l \in IsShutting) => Shutting' = Shutting
         /\ (pc[t] = "reading" <=> l = "reading") => Reading' = Reading
         /\ (pc[t] = "writing" <=> l = "writing") => Writing' = Writing
  <1>0. \A u \in Threads : pc'[u] = IF u = t THEN l ELSE pc[u]
    BY DEF Goto
  <1>1. ASSUME pc[t] \in IsCountedReader <=> l \in IsCountedReader PROVE CountedReaders' = CountedReaders
    BY <1>0, <1>1 DEF CountedReaders
  <1>2. ASSUME pc[t] \in IsCountedWriter <=> l \in IsCountedWriter PROVE CountedWriters' = CountedWriters
    BY <1>0, <1>2 DEF CountedWriters
  <1>3. ASSUME pc[t] \in IsHolding <=> l \in IsHolding PROVE Holding' = Holding
    BY <1>0, <1>3 DEF Holding
  <1>4. ASSUME pc[t] \in IsPassing <=> l \in IsPassing PROVE Passing' = Passing
    BY <1>0, <1>4 DEF Passing
  <1>5. ASSUME pc[t] \in IsShutting <=> l \in IsShutting PROVE Shutting' = Shutting
    BY <1>0, <1>5 DEF Shutting
  <1>6. ASSUME pc[t] = "reading" <=> l = "reading" PROVE Reading' = Reading
    BY <1>0, <1>6 DEF Reading
  <1>7. ASSUME pc[t] = "writing" <=> l = "writing" PROVE Writing' = Writing
    BY <1>0, <1>7 DEF Writing
  <1> QED
    BY <1>1, <1>2, <1>3, <1>4, <1>5, <1>6, <1>7

\* Every step keeps the two counts the numbers of counted threads.
LEMMA StepCountsExact ==
  ASSUME LockInv, NEW t \in Threads,
         CallReaderLock(t) \/ CallWriterLock(t) \/ GoOn(t)
  PROVE  CountsExact'
  <1> USE DEF LockInv, TypeOK, CountsExact, readerVars, writerVars
  <1>0. CountedReaders \subseteq Threads /\ CountedWriters \subseteq Threads
    BY DEF CountedReaders, CountedWriters
  <1>1. CASE ReaderLockCount(t) \/ ReaderUnlockCount(t)
    <2>1. CountedWriters' = CountedWriters /\ writeCount' = writeCount
      BY <1>1, Unmoved
      DEF ReaderLockCount, ReaderUnlockCount, IsCountedWriter
    <2>2. CASE ReaderLockCount(t)
      <3>1. CountedReaders' = CountedReaders \cup {t} /\ t \notin CountedReaders
        BY <2>2, Joins, Membership DEF ReaderLockCount, IsCountedReader
      <3> QED
        BY <1>0, <2>1, <2>2, <3>1, CardinalityOfThreads DEF ReaderLockCount
    <2>3. CASE ReaderUnlockCount(t)
      <3>1. CountedReaders' = CountedReaders \ {t} /\ t \in CountedReaders
        BY <2>3, Leaves, Membership DEF ReaderUnlockCount, IsCountedReader
      <3> QED
        BY <1>0, <2>1, <2>3, <3>1, CardinalityOfThreads DEF ReaderUnlockCount
    <2> QED
      BY <1>1, <2>2, <2>3
  <1>2. CASE WriterLockCount(t) \/ WriterUnlockCount(t)
    <2>1. CountedReaders' = CountedReaders /\ readCount' = readCount
      BY <1>2, Unmoved
      DEF WriterLockCount, WriterUnlockCount, IsCountedReader
    <2>2. CASE WriterLockCount(t)
      <3>1. CountedWriters' = CountedWriters \cup {t} /\ t \notin CountedWriters
        BY <2>2, Joins, Membership DEF WriterLockCount, IsCountedWriter
      <3> QED
        BY <1>0, <2>1, <2>2, <3>1, CardinalityOfThreads DEF WriterLockCount
    <2>3. CASE WriterUnlockCount(t)
      <3>1. CountedWriters' = CountedWriters \ {t} /\ t \in CountedWriters
        BY <2>3, Leaves, Membership DEF WriterUnlockCount, IsCountedWriter
      <3> QED
        BY <1>0, <2>1, <2>3, <3>1, CardinalityOfThreads DEF WriterUnlockCount
    <2> QED
      BY <1>2, <2>2, <2>3
  <1>3. CASE /\ ~ReaderLockCount(t) /\ ~ReaderUnlockCount(t)
             /\ ~WriterLockCount(t) /\ ~WriterUnlockCount(t)
    <2>1. /\ \E l : /\ Goto(t, l)
                    /\ pc[t] \in IsCountedReader <=> l \in IsCountedReader
                    /\ pc[t] \in IsCountedWriter <=> l \in IsCountedWriter
          /\ readCount' = readCount /\ writeCount' = writeCount
      BY <1>3
      DEF IsCountedReader, IsCountedWriter, GoOn, ReaderGoesOn, WriterGoesOn,
          CallReaderLock, ReaderLockBlock, ReaderLockTake, ReaderLockResource,
          ReaderLockGive, ReaderLockUnblock, CallReaderUnlock, ReaderUnlockTake,
          ReaderUnlockResource, ReaderUnlockGive, CallWriterLock, WriterLockTake,
          WriterLockBlock, WriterLockGive, WriterLockResource, WriterUnlockResource,
          WriterUnlockTake, WriterUnlockUnblock, WriterUnlockGive
    <2>2. CountedReaders' = CountedReaders /\ CountedWriters' = CountedWriters
      BY <2>1, Unmoved
    <2> QED
      BY <2>1, <2>2
  <1> QED
    BY <1>1, <1>2, <1>3

\* With a mutex in t's hands no other thread is at a label that needs it; in
\* particular every other counted thread has the semaphore of its side.
LEMMA HolderAlone ==
  ASSUME LockInv, NEW t \in Threads
  PROVE  /\ pc[t] \in HoldsReadLock =>
              /\ \A u \in Threads \ {t} : pc[u] \notin HoldsReadLock
              /\ CountedReaders \ {t} \subseteq Holding
         /\ pc[t] \in HoldsWriteLock =>
              /\ \A u \in Threads \ {t} : pc[u] \notin HoldsWriteLock
              /\ CountedWriters \ {t} \subseteq Shutting
  <1>1. ASSUME pc[t] \in HoldsReadLock
        PROVE  /\ \A u \in Threads \ {t} : pc[u] \notin HoldsReadLock
               /\ CountedReaders \ {t} \subseteq Holding
    BY <1>1 DEF LockInv, MutexInv, HoldsReadLock, CountedReaders, Holding,
                IsCountedReader, IsHolding
  <1>2. ASSUME pc[t] \in HoldsWriteLock
        PROVE  /\ \A u \in Threads \ {t} : pc[u] \notin HoldsWriteLock
               /\ CountedWriters \ {t} \subseteq Shutting
    BY <1>2 DEF LockInv, MutexInv, HoldsWriteLock, CountedWriters, Shutting,
                IsCountedWriter, IsShutting, IsRegistered
  <1> QED
    BY <1>1, <1>2

\* Every step keeps ResourceLock free exactly when nobody has the resource.
LEMMA StepResourceInv ==
  ASSUME LockInv, NEW t \in Threads,
         CallReaderLock(t) \/ CallWriterLock(t) \/ GoOn(t)
  PROVE  ResourceInv'
  <1> USE DEF LockInv, TypeOK
  <1>0. CountedReaders \subseteq Threads
    BY DEF CountedReaders
  <1> DEFINE Asks == {"rl_resource", "ru_resource"}
  <1>1. CASE /\ ~ReaderLockCount(t) /\ ~ReaderLockResource(t) /\ ~ReaderUnlockCount(t)
             /\ ~ReaderUnlockResource(t) /\ ~WriterLockResource(t) /\ ~WriterUnlockResource(t)
    <2>1. /\ \E l : /\ Goto(t, l) /\ l \notin Asks
                    /\ pc[t] \in IsCountedReader <=> l \in IsCountedReader
                    /\ pc[t] \in IsHolding <=> l \in IsHolding
                    /\ pc[t] = "writing" <=> l = "writing"
          /\ resourceLock' = resourceLock
      BY <1>1
      DEF IsCountedReader, IsHolding, GoOn, ReaderGoesOn, WriterGoesOn, readerVars, writerVars,
          CallReaderLock, ReaderLockBlock, ReaderLockTake, ReaderLockGive,
          ReaderLockUnblock, CallReaderUnlock, ReaderUnlockTake, ReaderUnlockGive,
          CallWriterLock, WriterLockTake, WriterLockCount, WriterLockBlock, WriterLockGive,
          WriterUnlockTake, WriterUnlockCount, WriterUnlockUnblock, WriterUnlockGive
    <2>2. CountedReaders' = CountedReaders /\ Holding' = Holding /\ Writing' = Writing
      BY <2>1, Unmoved
    <2>3. \A u \in Threads : pc'[u] \in Asks => pc'[u] = pc[u]
      BY <2>1 DEF Goto
    <2> QED
      BY <2>1, <2>2, <2>3 DEF ResourceInv
  <1>2. CASE ReaderLockCount(t)
    <2>0. /\ pc[t] = "rl_count" /\ t \notin CountedReaders /\ t \notin Holding /\ t \notin Writing
          /\ pc[t] \in HoldsReadLock /\ resourceLock' = resourceLock
      BY <1>2, Membership
      DEF ReaderLockCount, IsCountedReader, IsHolding, HoldsReadLock, readerVars, writerVars
    <2>1. \A u \in Threads : u # t => pc'[u] \notin Asks
      BY <1>2, <2>0, HolderAlone DEF ReaderLockCount, Goto, HoldsReadLock
    <2>2. CASE CountedReaders = {}
      <3>1. Goto(t, "rl_resource")
        BY <1>0, <1>2, <2>2, CardinalityOfThreads DEF ReaderLockCount, CountsExact
      <3>2. CountedReaders' = {t}
        BY <2>2, <3>1, Joins DEF IsCountedReader
      <3>3. Holding' = Holding /\ Writing' = Writing
        BY <2>0, <3>1, Unmoved DEF IsHolding
      <3>4. pc'[t] = "rl_resource"
        BY <3>1 DEF Goto
      <3> QED
        BY <2>0, <2>1, <3>2, <3>3, <3>4 DEF ResourceInv
    <2>3. CASE CountedReaders # {}
      <3>1. Cardinality(CountedReaders) # 0
        BY <1>0, <2>3, CardinalityOfThreads
      <3>2. Goto(t, "rl_give")
        BY <1>2, <3>1 DEF ReaderLockCount, CountsExact
      <3>3. Holding # {}
        BY <2>0, <2>3, HolderAlone
      <3>4. Holding' = Holding \cup {t} /\ Writing' = Writing
        BY <2>0, <3>2, Joins, Unmoved DEF IsHolding
      <3>5. Writing = {} /\ resourceLock # 1 /\ pc'[t] = "rl_give"
        BY <3>2, <3>3 DEF ResourceInv, Goto
      <3> QED
        BY <2>0, <2>1, <3>3, <3>4, <3>5 DEF ResourceInv
    <2> QED
      BY <2>2, <2>3
  <1>3. CASE ReaderLockResource(t)
    <2>1. /\ pc[t] = "rl_resource" /\ CountedReaders = {t} /\ Holding = {} /\ Writing = {}
          /\ Goto(t, "rl_give") /\ resourceLock' = 0
      BY <1>3 DEF ReaderLockResource, ResourceInv
    <2>2. Holding' = {t}
      BY <2>1, Joins DEF IsHolding
    <2>4. Writing' = {}
      BY <2>1, Unmoved DEF Goto
    <2>3. \A u \in Threads : pc'[u] \notin Asks
      BY <2>1, Membership DEF Goto, IsCountedReader, IsHolding
    <2> QED
      BY <2>1, <2>2, <2>3, <2>4 DEF ResourceInv
  <1>4. CASE ReaderUnlockCount(t)
    <2>0. /\ pc[t] = "ru_count" /\ t \in CountedReaders /\ t \in Holding
          /\ pc[t] \in HoldsReadLock /\ resourceLock' = resourceLock
      BY <1>4, Membership
      DEF ReaderUnlockCount, IsCountedReader, IsHolding, HoldsReadLock, readerVars, writerVars
    <2>1. /\ \A u \in Threads : u # t => pc'[u] \notin Asks
          /\ Writing = {} /\ resourceLock # 1
      BY <1>4, <2>0, HolderAlone DEF ReaderUnlockCount, Goto, HoldsReadLock, ResourceInv
    <2>2. CASE CountedReaders = {t}
      <3>1. Cardinality(CountedReaders) = 1
        BY <2>2, FS_Singleton
      <3>2. Goto(t, "ru_resource")
        BY <1>4, <3>1 DEF ReaderUnlockCount, CountsExact
      <3>3. CountedReaders' = {} /\ Writing' = Writing \ {t} /\ Holding' = Holding \cup {t}
        BY <2>2, <3>2, Leaves, Joins DEF IsCountedReader, IsHolding
      <3>4. pc'[t] = "ru_resource"
        BY <3>2 DEF Goto
      <3> QED
        BY <2>0, <2>1, <3>3, <3>4 DEF ResourceInv
    <2>3. CASE CountedReaders # {t}
      <3>1. CountedReaders \ {t} # {} /\ CountedReaders \ {t} \subseteq Holding
        BY <2>0, <2>3, HolderAlone
      <3>2. Cardinality(CountedReaders) - 1 # 0
        <4>1. Cardinality(CountedReaders) \in Nat
          BY <1>0, CardinalityOfThreads
        <4>2. Cardinality(CountedReaders) # 1
          BY <1>0, <2>0, <2>3, CardinalityOfThreads
        <4> QED
          BY <4>1, <4>2
      <3>3. Goto(t, "ru_give")
        BY <1>4, <3>2 DEF ReaderUnlockCount, CountsExact
      <3>4. Holding' = Holding \ {t} /\ Writing' = Writing \ {t}
        BY <3>3, Leaves DEF IsHolding
      <3>5. pc'[t] = "ru_give"
        BY <3>3 DEF Goto
      <3> QED
        BY <2>0, <2>1, <3>1, <3>4, <3>5 DEF ResourceInv
    <2> QED
      BY <2>2, <2>3
  <1>5. CASE ReaderUnlockResource(t)
    <2>1. /\ pc[t] = "ru_resource" /\ CountedReaders = {} /\ t \in Holding /\ pc[t] \in HoldsReadLock
          /\ Goto(t, "ru_give") /\ resourceLock' = 1
      BY <1>5, Membership
      DEF ReaderUnlockResource, ResourceInv, IsHolding, HoldsReadLock
    <2>2. CountedReaders' = {} /\ Holding' = Holding \ {t} /\ Writing' = Writing \ {t}
      BY <2>1, Leaves DEF IsCountedReader, IsHolding
    <2>3. Writing = {}
      BY <2>1 DEF ResourceInv
    <2>4. \A u \in Holding : u = t
      BY <2>1, HolderAlone, Membership
      DEF Holding, IsCountedReader, IsHolding, HoldsReadLock
    <2>5. \A u \in Threads : pc'[u] \notin Asks
      BY <2>1, HolderAlone DEF Goto, HoldsReadLock
    <2> QED
      BY <2>1, <2>2, <2>3, <2>4, <2>5 DEF ResourceInv
  <1>6. CASE WriterLockResource(t)
    <2>1. /\ pc[t] = "wl_resource" /\ Holding = {} /\ Writing = {}
          /\ Goto(t, "writing") /\ resourceLock' = 0
      BY <1>6 DEF WriterLockResource, ResourceInv
    <2>2. CountedReaders' = CountedReaders /\ Holding' = Holding
      BY <2>1, Unmoved DEF IsCountedReader, IsHolding
    <2>3. Writing' = {t}
      BY <2>1, Joins DEF Goto
    <2>4. \A u \in Threads : pc'[u] \in Asks => pc'[u] = pc[u]
      BY <2>1 DEF Goto
    <2> QED
      BY <2>1, <2>2, <2>3, <2>4 DEF ResourceInv
  <1>7. CASE WriterUnlockResource(t)
    <2>1. /\ t \in Writing /\ Goto(t, "wu_take") /\ resourceLock' = 1
          /\ pc[t] = "writing"
      BY <1>7, Membership DEF WriterUnlockResource
    <2>2. CountedReaders' = CountedReaders /\ Holding' = Holding
      BY <2>1, Unmoved DEF IsCountedReader, IsHolding
    <2>3. Writing' = Writing \ {t}
      BY <2>1, Leaves
    <2>4. Holding = {} /\ Writing = {t}
      BY <2>1 DEF ResourceInv
    <2>5. \A u \in Threads : pc'[u] \in Asks => pc'[u] = pc[u]
      BY <2>1 DEF Goto
    <2> QED
      BY <2>1, <2>2, <2>3, <2>4, <2>5 DEF ResourceInv
  <1> QED
    BY <1>1, <1>2, <1>3, <1>4, <1>5, <1>6, <1>7

\* Every step keeps BlockReadersLock free exactly when no writer is registered and no
\* reader is on its way in.
LEMMA StepBlockInv ==
  ASSUME LockInv, NEW t \in Threads,
         CallReaderLock(t) \/ CallWriterLock(t) \/ GoOn(t)
  PROVE  BlockInv'
  <1> USE DEF LockInv, TypeOK
  <1>0. CountedWriters \subseteq Threads
    BY DEF CountedWriters
  <1> DEFINE Asks == {"wl_block", "wu_unblock"}
  <1>1. CASE /\ ~WriterLockCount(t) /\ ~WriterLockBlock(t) /\ ~WriterUnlockCount(t)
             /\ ~WriterUnlockUnblock(t) /\ ~ReaderLockBlock(t) /\ ~ReaderLockUnblock(t)
    <2>1. /\ \E l : /\ Goto(t, l) /\ l \notin Asks
                    /\ pc[t] \in IsCountedWriter <=> l \in IsCountedWriter
                    /\ pc[t] \in IsShutting <=> l \in IsShutting
                    /\ pc[t] \in IsPassing <=> l \in IsPassing
          /\ blockReadersLock' = blockReadersLock
      BY <1>1
      DEF IsPassing, IsCountedWriter, IsShutting, IsRegistered, GoOn, ReaderGoesOn, WriterGoesOn, readerVars,
          writerVars, CallReaderLock, ReaderLockTake, ReaderLockCount, ReaderLockResource,
          ReaderLockGive, CallReaderUnlock, ReaderUnlockTake, ReaderUnlockCount,
          ReaderUnlockResource, ReaderUnlockGive, CallWriterLock, WriterLockTake,
          WriterLockGive, WriterLockResource, WriterUnlockResource, WriterUnlockTake,
          WriterUnlockGive
    <2>2. CountedWriters' = CountedWriters /\ Shutting' = Shutting /\ Passing' = Passing
      BY <2>1, Unmoved
    <2>3. \A u \in Threads : pc'[u] \in Asks => pc'[u] = pc[u]
      BY <2>1 DEF Goto
    <2> QED
      BY <2>1, <2>2, <2>3 DEF BlockInv
  <1>2. CASE WriterLockCount(t)
    <2>0. /\ pc[t] = "wl_count" /\ t \notin CountedWriters /\ t \notin Shutting /\ t \notin Passing
          /\ pc[t] \in HoldsWriteLock /\ blockReadersLock' = blockReadersLock
      BY <1>2, Membership
      DEF WriterLockCount, IsCountedWriter, IsShutting, IsRegistered, IsPassing, HoldsWriteLock,
          readerVars, writerVars
    <2>1. \A u \in Threads : u # t => pc'[u] \notin Asks
      BY <1>2, <2>0, HolderAlone DEF WriterLockCount, Goto, HoldsWriteLock
    <2>2. CASE CountedWriters = {}
      <3>1. Goto(t, "wl_block")
        BY <1>0, <1>2, <2>2, CardinalityOfThreads DEF WriterLockCount, CountsExact
      <3>2. CountedWriters' = {t}
        BY <2>2, <3>1, Joins DEF IsCountedWriter
      <3>3. Shutting' = Shutting /\ Passing' = Passing
        BY <2>0, <3>1, Unmoved DEF IsShutting, IsRegistered, IsCountedWriter, IsPassing
      <3>4. pc'[t] = "wl_block"
        BY <3>1 DEF Goto
      <3> QED
        BY <2>0, <2>1, <3>2, <3>3, <3>4 DEF BlockInv
    <2>3. CASE CountedWriters # {}
      <3>1. Cardinality(CountedWriters) # 0
        BY <1>0, <2>3, CardinalityOfThreads
      <3>2. Goto(t, "wl_give")
        BY <1>2, <3>1 DEF WriterLockCount, CountsExact
      <3>3. Shutting # {}
        BY <2>0, <2>3, HolderAlone
      <3>4. Shutting' = Shutting \cup {t} /\ Passing' = Passing
        <4>1. Shutting' = Shutting \cup {t}
          BY <3>2, Joins DEF IsShutting, IsRegistered, IsCountedWriter
        <4>2. Passing' = Passing
          BY <2>0, <3>2, Unmoved DEF IsPassing
        <4> QED
          BY <4>1, <4>2
      <3>5. Passing = {} /\ blockReadersLock # 1 /\ pc'[t] = "wl_give"
        BY <3>2, <3>3 DEF BlockInv, Goto
      <3> QED
        BY <2>0, <2>1, <3>3, <3>4, <3>5 DEF BlockInv
    <2> QED
      BY <2>2, <2>3
  <1>3. CASE WriterLockBlock(t)
    <2>1. /\ pc[t] = "wl_block" /\ CountedWriters = {t} /\ Shutting = {} /\ Passing = {}
          /\ Goto(t, "wl_give") /\ blockReadersLock' = 0
      BY <1>3 DEF WriterLockBlock, BlockInv
    <2>2. Shutting' = {t}
      BY <2>1, Joins DEF IsShutting, IsRegistered, IsCountedWriter
    <2>4. Passing' = {}
      BY <2>1, Unmoved DEF IsPassing
    <2>3. \A u \in Threads : pc'[u] \notin Asks
      BY <2>1, Membership DEF Goto, IsCountedWriter, IsShutting, IsRegistered
    <2> QED
      BY <2>1, <2>2, <2>3, <2>4 DEF BlockInv
  <1>4. CASE WriterUnlockCount(t)
    <2>0. /\ pc[t] = "wu_count" /\ t \in CountedWriters /\ t \in Shutting
          /\ pc[t] \in HoldsWriteLock /\ blockReadersLock' = blockReadersLock
      BY <1>4, Membership
      DEF WriterUnlockCount, IsCountedWriter, IsShutting, IsRegistered, HoldsWriteLock, readerVars,
          writerVars
    <2>1. /\ \A u \in Threads : u # t => pc'[u] \notin Asks
          /\ Passing = {} /\ blockReadersLock # 1
      BY <1>4, <2>0, HolderAlone DEF WriterUnlockCount, Goto, HoldsWriteLock, BlockInv
    <2>2. CASE CountedWriters = {t}
      <3>1. Cardinality(CountedWriters) = 1
        BY <2>2, FS_Singleton
      <3>2. Goto(t, "wu_unblock")
        BY <1>4, <3>1 DEF WriterUnlockCount, CountsExact
      <3>3. CountedWriters' = {} /\ Passing' = Passing \ {t} /\ Shutting' = Shutting \cup {t}
        BY <2>2, <3>2, Leaves, Joins DEF IsCountedWriter, IsShutting, IsRegistered, IsPassing
      <3>4. pc'[t] = "wu_unblock"
        BY <3>2 DEF Goto
      <3> QED
        BY <2>0, <2>1, <3>3, <3>4 DEF BlockInv
    <2>3. CASE CountedWriters # {t}
      <3>1. CountedWriters \ {t} # {} /\ CountedWriters \ {t} \subseteq Shutting
        BY <2>0, <2>3, HolderAlone
      <3>2. Cardinality(CountedWriters) - 1 # 0
        <4>1. Cardinality(CountedWriters) \in Nat
          BY <1>0, CardinalityOfThreads
        <4>2. Cardinality(CountedWriters) # 1
          BY <1>0, <2>0, <2>3, CardinalityOfThreads
        <4> QED
          BY <4>1, <4>2
      <3>3. Goto(t, "wu_give")
        BY <1>4, <3>2 DEF WriterUnlockCount, CountsExact
      <3>4. Shutting' = Shutting \ {t} /\ Passing' = Passing \ {t}
        BY <3>3, Leaves DEF IsShutting, IsRegistered, IsCountedWriter, IsPassing
      <3>5. pc'[t] = "wu_give"
        BY <3>3 DEF Goto
      <3> QED
        BY <2>0, <2>1, <3>1, <3>4, <3>5 DEF BlockInv
    <2> QED
      BY <2>2, <2>3
  <1>5. CASE WriterUnlockUnblock(t)
    <2>1. /\ pc[t] = "wu_unblock" /\ CountedWriters = {} /\ t \in Shutting /\ pc[t] \in HoldsWriteLock
          /\ Goto(t, "wu_give") /\ blockReadersLock' = 1
      BY <1>5, Membership
      DEF WriterUnlockUnblock, BlockInv, IsShutting, IsRegistered, HoldsWriteLock
    <2>2. CountedWriters' = {} /\ Shutting' = Shutting \ {t} /\ Passing' = Passing \ {t}
      BY <2>1, Leaves DEF IsCountedWriter, IsShutting, IsRegistered, IsPassing
    <2>3. Passing = {}
      BY <2>1 DEF BlockInv
    <2>4. \A u \in Shutting : u = t
      BY <2>1, HolderAlone, Membership
      DEF Shutting, IsCountedWriter, IsShutting, IsRegistered, HoldsWriteLock
    <2>5. \A u \in Threads : pc'[u] \notin Asks
      BY <2>1, HolderAlone DEF Goto, HoldsWriteLock
    <2> QED
      BY <2>1, <2>2, <2>3, <2>4, <2>5 DEF BlockInv
  <1>6. CASE ReaderLockBlock(t)
    <2>1. /\ pc[t] = "rl_block" /\ Shutting = {} /\ Passing = {}
          /\ Goto(t, "rl_take") /\ blockReadersLock' = 0
      BY <1>6 DEF ReaderLockBlock, BlockInv
    <2>2. CountedWriters' = CountedWriters /\ Shutting' = Shutting
      BY <2>1, Unmoved DEF IsCountedWriter, IsShutting, IsRegistered
    <2>3. Passing' = {t}
      BY <2>1, Joins DEF IsPassing
    <2>4. \A u \in Threads : pc'[u] \in Asks => pc'[u] = pc[u]
      BY <2>1 DEF Goto
    <2> QED
      BY <2>1, <2>2, <2>3, <2>4 DEF BlockInv
  <1>7. CASE ReaderLockUnblock(t)
    <2>1. /\ t \in Passing /\ Goto(t, "reading") /\ blockReadersLock' = 1
          /\ pc[t] = "rl_unblock"
      BY <1>7, Membership DEF ReaderLockUnblock, IsPassing
    <2>2. CountedWriters' = CountedWriters /\ Shutting' = Shutting
      BY <2>1, Unmoved DEF IsCountedWriter, IsShutting, IsRegistered
    <2>3. Passing' = Passing \ {t}
      BY <2>1, Leaves DEF IsPassing
    <2>4. Shutting = {} /\ Passing = {t}
      BY <2>1 DEF BlockInv
    <2>5. \A u \in Threads : pc'[u] \in Asks => pc'[u] = pc[u]
      BY <2>1 DEF Goto
    <2> QED
      BY <2>1, <2>2, <2>3, <2>4, <2>5 DEF BlockInv
  <1> QED
    BY <1>1, <1>2, <1>3, <1>4, <1>5, <1>6, <1>7
-----------------------------------------------------------------------------
\* LockInv is an invariant: the types, the one holder of each mutex, the exact
\* counts and who has ResourceLock and BlockReadersLock (read_write_lock.c:324-531).
THEOREM Invariance == Spec => []LockInv
  <1>1. LockInv /\ [Next]_vars => LockInv'
    <2> SUFFICES ASSUME LockInv, [Next]_vars PROVE LockInv'
      OBVIOUS
    <2>1. CASE UNCHANGED vars
      BY <2>1 DEF vars, LockInv, TypeOK, MutexInv, CountsExact, ResourceInv, BlockInv,
                  CountedReaders, CountedWriters, Holding, Passing, Shutting, Writing
    <2>2. ASSUME NEW t \in Threads, CallReaderLock(t) \/ CallWriterLock(t) \/ GoOn(t)
          PROVE  LockInv'
      BY <2>2, StepMutexInv, StepCountsExact, StepResourceInv, StepBlockInv DEF LockInv
    <2> QED
      BY <2>1, <2>2 DEF Next
  <1> QED
    BY <1>1, InitLockInv, PTL DEF Spec

\* A writer is alone with the lock, whatever the number of threads.
THEOREM WriterIsAlone == Spec => []Exclusion
  <1>1. LockInv => Exclusion
    BY DEF LockInv, ResourceInv, Exclusion, Reading, Writing, Holding, IsHolding
  <1> QED
    BY <1>1, Invariance, PTL

\* A reader that got past BlockReadersLock does not sleep on ResourceLock with
\* the mutex and the semaphore in its hands.
THEOREM AdmittedReaderGoesOn == Spec => []AdmittedReaderNeverWaits
  <1>1. LockInv => AdmittedReaderNeverWaits
    <2> SUFFICES ASSUME LockInv, NEW t \in Threads, pc[t] = "rl_resource"
                 PROVE  resourceLock = 1
      BY DEF AdmittedReaderNeverWaits
    <2>1. CountedReaders = {t} /\ pc[t] \in HoldsReadLock /\ t \in Passing
      BY DEF LockInv, ResourceInv, HoldsReadLock, Passing, IsPassing
    <2>2. Writing = {}
      BY <2>1 DEF LockInv, BlockInv, Writing, Shutting, IsShutting, IsRegistered,
                  IsCountedWriter
    <2>3. \A u \in Threads : pc[u] \in IsHolding
                              => pc[u] \in IsCountedReader \/ pc[u] \in HoldsReadLock
      BY DEF IsHolding, IsCountedReader, HoldsReadLock
    <2>4. Holding = {}
      BY <2>1, <2>3, HolderAlone DEF Holding, IsHolding, CountedReaders
    <2> QED
      BY <2>2, <2>4 DEF LockInv, ResourceInv
  <1> QED
    BY <1>1, Invariance, PTL

\* While a writer is registered no thread begins to read, nor enters the part
\* of ReaderLock behind BlockReadersLock: the preference for writers.
THEOREM WritersFirst == Spec => NoReaderOvertakes
  <1> DEFINE Overtakes == Registered # {} => 
               /\ Reading' \subseteq Reading
               /\ \A t \in Threads : pc'[t] = "rl_take" => pc[t] = "rl_take"
  <1>1. LockInv /\ [Next]_vars => [Overtakes]_vars
    <2> SUFFICES ASSUME LockInv, Registered # {}, NEW t \in Threads,
                        CallReaderLock(t) \/ CallWriterLock(t) \/ GoOn(t)
                 PROVE  /\ Reading' \subseteq Reading
                        /\ \A u \in Threads : pc'[u] = "rl_take" => pc[u] = "rl_take"
      BY DEF Next
    <2>1. Shutting # {}
      BY DEF Registered, Shutting, IsShutting
    <2>2. t \notin Passing /\ blockReadersLock # 1
      BY <2>1 DEF LockInv, BlockInv
    <2>3. pc[t] # "rl_unblock" /\ pc \in [Threads -> Labels]
      BY <2>2 DEF Passing, IsPassing, LockInv, TypeOK
    <2>4. \E l : Goto(t, l) /\ l # "reading" /\ l # "rl_take"
      BY <2>2, <2>3
      DEF GoOn, ReaderGoesOn, WriterGoesOn,
          CallReaderLock, ReaderLockBlock, ReaderLockTake, ReaderLockCount,
          ReaderLockResource, ReaderLockGive, ReaderLockUnblock, CallReaderUnlock,
          ReaderUnlockTake, ReaderUnlockCount, ReaderUnlockResource, ReaderUnlockGive,
          CallWriterLock, WriterLockTake, WriterLockCount, WriterLockBlock,
          WriterLockGive, WriterLockResource, WriterUnlockResource, WriterUnlockTake,
          WriterUnlockCount, WriterUnlockUnblock, WriterUnlockGive
    <2>5. Reading' = Reading \ {t}
      BY <2>3, <2>4, Leaves
    <2>6. \A u \in Threads : pc'[u] = "rl_take" => pc[u] = "rl_take"
      BY <2>3, <2>4 DEF Goto
    <2> QED
      BY <2>5, <2>6
  <1> QED
    BY <1>1, Invariance, PTL DEF Spec, NoReaderOvertakes

\* The lock implements the abstract read/write lock: each step of a thread is a
\* step of that lock or leaves the readers and the writers as they are.
THEOREM Implementation == Spec => ImplementsRWLock
  <1>1. Init => Abstract!Init
    BY DEF Init, Abstract!Init, Reading, Writing
  <1>2. LockInv /\ [Next]_vars => [Abstract!Next]_(Abstract!vars)
    <2> SUFFICES ASSUME LockInv, [Next]_vars PROVE [Abstract!Next]_(Abstract!vars)
      OBVIOUS
    <2> USE DEF Abstract!vars, LockInv, TypeOK
    <2>1. CASE UNCHANGED vars
      BY <2>1 DEF vars, Reading, Writing
    <2>2. ASSUME NEW t \in Threads, CallReaderLock(t) \/ CallWriterLock(t) \/ GoOn(t)
          PROVE  [Abstract!Next]_(Abstract!vars)
      <3>1. CASE ReaderLockUnblock(t)
        <4>0. pc[t] = "rl_unblock" /\ Goto(t, "reading")
          BY <3>1 DEF ReaderLockUnblock
        <4>1. Reading' = Reading \cup {t}
          BY <4>0, Joins
        <4>2. Writing' = Writing
          BY <4>0, Unmoved
        <4>3. t \notin Reading \cup Writing /\ Writing = {}
          BY <4>0 DEF Reading, Writing, ResourceInv, Holding, IsHolding
        <4> QED
          BY <4>1, <4>2, <4>3 DEF Abstract!Next, Abstract!StartReading
      <3>2. CASE CallReaderUnlock(t)
        <4>0. pc[t] = "reading" /\ Goto(t, "ru_take") /\ t \in Reading
          BY <3>2 DEF CallReaderUnlock, Reading
        <4>1. Reading' = Reading \ {t}
          BY <4>0, Leaves
        <4>2. Writing' = Writing
          BY <4>0, Unmoved
        <4> QED
          BY <4>0, <4>1, <4>2 DEF Abstract!Next, Abstract!StopReading
      <3>3. CASE WriterLockResource(t)
        <4>0. pc[t] = "wl_resource" /\ Goto(t, "writing") /\ resourceLock = 1
          BY <3>3 DEF WriterLockResource
        <4>1. Writing' = Writing \cup {t}
          BY <4>0, Joins
        <4>2. Reading' = Reading
          BY <4>0, Unmoved
        <4>3. Reading = {} /\ Writing = {}
          BY <4>0 DEF ResourceInv, Holding, IsHolding, Reading
        <4> QED
          BY <4>1, <4>2, <4>3 DEF Abstract!Next, Abstract!StartWriting
      <3>4. CASE WriterUnlockResource(t)
        <4>0. pc[t] = "writing" /\ Goto(t, "wu_take") /\ t \in Writing
          BY <3>4 DEF WriterUnlockResource, Writing
        <4>1. Writing' = Writing \ {t}
          BY <4>0, Leaves
        <4>2. Reading' = Reading
          BY <4>0, Unmoved
        <4> QED
          BY <4>0, <4>1, <4>2 DEF Abstract!Next, Abstract!StopWriting
      <3>5. CASE /\ ~ReaderLockUnblock(t) /\ ~CallReaderUnlock(t)
                 /\ ~WriterLockResource(t) /\ ~WriterUnlockResource(t)
        <4>1. \E l : /\ Goto(t, l)
                     /\ pc[t] # "reading" /\ l # "reading"
                     /\ pc[t] # "writing" /\ l # "writing"
          BY <2>2, <3>5
          DEF GoOn, ReaderGoesOn, WriterGoesOn, CallReaderLock, CallWriterLock,
              ReaderLockBlock, ReaderLockTake, ReaderLockCount, ReaderLockResource,
              ReaderLockGive, ReaderUnlockTake, ReaderUnlockCount,
              ReaderUnlockResource, ReaderUnlockGive, WriterLockTake, WriterLockCount,
              WriterLockBlock, WriterLockGive, WriterUnlockTake, WriterUnlockCount,
              WriterUnlockUnblock, WriterUnlockGive
        <4> QED
          BY <4>1, Unmoved
      <3> QED
        BY <3>1, <3>2, <3>3, <3>4, <3>5
    <2> QED
      BY <2>1, <2>2 DEF Next
  <1> QED
    BY <1>1, <1>2, Invariance, PTL DEF Spec, ImplementsRWLock, Abstract!Spec
=============================================================================
