---------------------- MODULE RWLockPreferReader_proofs ----------------------
(***************************************************************************)
(* Proofs about the read/write lock that prefers readers, for every finite *)
(* set of threads: LockInv is an invariant, hence writers are alone and    *)
(* the lock implements the abstract read/write lock.                       *)
(***************************************************************************)
EXTENDS RWLockPreferReader, FiniteSetTheorems, TLAPS

\* What moving thread t to a label does to the sets that the invariant is about.
LEMMA GotoMoves ==
  ASSUME NEW t \in Threads, NEW l, pc \in [Threads -> Labels], Goto(t, l)
  PROVE  /\ Counted' = IF l \in IsCounted THEN Counted \cup {t} ELSE Counted \ {t}
         /\ Holding' = IF l \in IsHolding THEN Holding \cup {t} ELSE Holding \ {t}
         /\ Reading' = IF l = "reading" THEN Reading \cup {t} ELSE Reading \ {t}
         /\ Writing' = IF l = "writing" THEN Writing \cup {t} ELSE Writing \ {t}
  <1>1. \A u \in Threads : pc'[u] = IF u = t THEN l ELSE pc[u]
    BY DEF Goto
  <1>2. Counted' = IF l \in IsCounted THEN Counted \cup {t} ELSE Counted \ {t}
    BY <1>1 DEF Counted
  <1>3. Holding' = IF l \in IsHolding THEN Holding \cup {t} ELSE Holding \ {t}
    BY <1>1 DEF Holding
  <1>4. Reading' = IF l = "reading" THEN Reading \cup {t} ELSE Reading \ {t}
    BY <1>1 DEF Reading
  <1>5. Writing' = IF l = "writing" THEN Writing \cup {t} ELSE Writing \ {t}
    BY <1>1 DEF Writing
  <1> QED
    BY <1>2, <1>3, <1>4, <1>5

\* The counted readers are finitely many, and none is counted at count 0.
LEMMA CountedCardinality ==
  /\ IsFiniteSet(Counted) /\ Cardinality(Counted) \in Nat
  /\ Cardinality(Counted) = 0 <=> Counted = {}
  /\ \A t \in Threads \ Counted : Cardinality(Counted \cup {t}) = Cardinality(Counted) + 1
  /\ \A t \in Counted : Cardinality(Counted \ {t}) = Cardinality(Counted) - 1
  <1>1. IsFiniteSet(Counted)
    BY ThreadsAssumption, FS_Subset DEF Counted
  <1> QED
    BY <1>1, FS_CardinalityType, FS_EmptySet, FS_AddElement, FS_RemoveElement

\* The state that CreateReadWriteLockPreferReader returns satisfies the invariant.
LEMMA InitLockInv == Init => LockInv
  <1> SUFFICES ASSUME Init PROVE LockInv
    OBVIOUS
  <1>1. \A t \in Threads : pc[t] = "out"
    BY DEF Init
  <1>2. Counted = {} /\ Holding = {} /\ Writing = {}
    BY <1>1 DEF Counted, Holding, Writing, IsCounted, IsHolding
  <1>3. TypeOK
    BY DEF Init, TypeOK, Labels
  <1>4. MutexInv
    BY <1>1, ThreadsAssumption DEF Init, MutexInv, HoldsReadLock
  <1>5. ReadCountExact
    BY <1>2, FS_EmptySet DEF Init, ReadCountExact
  <1>6. ResourceInv
    BY <1>1, <1>2 DEF Init, ResourceInv
  <1> QED
    BY <1>3, <1>4, <1>5, <1>6 DEF LockInv

\* A step of ReaderLock or ReaderUnlock that takes, holds or gives the mutex
\* leaves the mutex with one holder.
LEMMA StepMutexInv ==
  ASSUME LockInv, NEW t \in Threads,
         CallReaderLock(t) \/ CallWriterLock(t) \/ GoOn(t)
  PROVE  TypeOK' /\ MutexInv'
  <1> USE DEF LockInv, TypeOK, MutexInv, HoldsReadLock, Labels, Goto
  <1>1. CASE CallReaderLock(t) \/ CallWriterLock(t) \/ CallReaderUnlock(t)
    BY <1>1 DEF CallReaderLock, CallWriterLock, CallReaderUnlock
  <1>2. CASE ReaderLockTake(t) \/ ReaderUnlockTake(t)
    BY <1>2, ThreadsAssumption DEF ReaderLockTake, ReaderUnlockTake
  <1>3. CASE ReaderLockCount(t)
    BY <1>3 DEF ReaderLockCount
  <1>4. CASE ReaderUnlockCount(t)
    <2>1. readCount - 1 \in Nat
      BY <1>4, CountedCardinality
      DEF ReaderUnlockCount, ReadCountExact, Counted, IsCounted
    <2> QED
      BY <1>4, <2>1 DEF ReaderUnlockCount
  <1>5. CASE ReaderLockResource(t) \/ ReaderUnlockResource(t)
    BY <1>5 DEF ReaderLockResource, ReaderUnlockResource
  <1>6. CASE ReaderLockGive(t) \/ ReaderUnlockGive(t)
    BY <1>6, ThreadsAssumption DEF ReaderLockGive, ReaderUnlockGive
  <1>7. CASE WriterLockResource(t) \/ WriterUnlock(t)
    BY <1>7 DEF WriterLockResource, WriterUnlock
  <1> QED
    BY <1>1, <1>2, <1>3, <1>4, <1>5, <1>6, <1>7 DEF GoOn

\* Every step keeps ReadCount the number of counted readers.
LEMMA StepReadCountExact ==
  ASSUME LockInv, NEW t \in Threads,
         CallReaderLock(t) \/ CallWriterLock(t) \/ GoOn(t)
  PROVE  ReadCountExact'
  <1> USE DEF LockInv, TypeOK, ReadCountExact
  <1>0. t \in Counted <=> pc[t] \in IsCounted
    BY DEF Counted
  <1>1. CASE ReaderLockCount(t)
    <2>1. Counted' = Counted \cup {t} /\ t \notin Counted
      BY <1>0, <1>1, GotoMoves DEF ReaderLockCount, IsCounted
    <2> QED
      BY <1>1, <2>1, CountedCardinality DEF ReaderLockCount
  <1>2. CASE ReaderUnlockCount(t)
    <2>1. Counted' = Counted \ {t} /\ t \in Counted
      BY <1>0, <1>2, GotoMoves DEF ReaderUnlockCount, IsCounted
    <2> QED
      BY <1>2, <2>1, CountedCardinality DEF ReaderUnlockCount
  <1>3. CASE ~ReaderLockCount(t) /\ ~ReaderUnlockCount(t)
    <2>1. /\ \E l : Goto(t, l) /\ (pc[t] \in IsCounted <=> l \in IsCounted)
          /\ readCount' = readCount
      BY <1>3
      DEF IsCounted, GoOn, CallReaderLock, CallWriterLock, ReaderLockTake,
          ReaderLockResource, ReaderLockGive, CallReaderUnlock, ReaderUnlockTake,
          ReaderUnlockResource, ReaderUnlockGive, WriterLockResource, WriterUnlock
    <2>2. Counted' = Counted
      <3>1. PICK l : Goto(t, l) /\ (pc[t] \in IsCounted <=> l \in IsCounted)
        BY <2>1
      <3>2. Counted' = IF l \in IsCounted THEN Counted \cup {t} ELSE Counted \ {t}
        BY <3>1, GotoMoves
      <3> QED
        BY <1>0, <3>1, <3>2
    <2> QED
      BY <2>1, <2>2
  <1> QED
    BY <1>1, <1>2, <1>3

\* With the mutex in t's hands no other thread is at a label that needs it; in
\* particular every other counted reader has the resource.
LEMMA HolderAlone ==
  ASSUME LockInv, NEW t \in Threads, pc[t] \in HoldsReadLock
  PROVE  /\ \A u \in Threads \ {t} : pc[u] \notin HoldsReadLock
         /\ Counted \ {t} \subseteq Holding
  BY DEF LockInv, TypeOK, MutexInv, HoldsReadLock, Counted, Holding, IsCounted, IsHolding

\* Every step keeps ResourceLock free exactly when nobody has the resource.
LEMMA StepResourceInv ==
  ASSUME LockInv, NEW t \in Threads,
         CallReaderLock(t) \/ CallWriterLock(t) \/ GoOn(t)
  PROVE  ResourceInv'
  <1> USE DEF LockInv, TypeOK
  <1>0. /\ \A u \in Threads : u \in Counted <=> pc[u] \in IsCounted
        /\ \A u \in Threads : u \in Holding <=> pc[u] \in IsHolding
        /\ \A u \in Threads : u \in Writing <=> pc[u] = "writing"
        /\ Counted \subseteq Threads /\ Holding \subseteq Threads /\ Writing \subseteq Threads
    BY DEF Counted, Holding, Writing
  <1>1. CASE \/ CallReaderLock(t) \/ CallWriterLock(t) \/ ReaderLockTake(t)
             \/ ReaderLockGive(t) \/ CallReaderUnlock(t) \/ ReaderUnlockTake(t)
             \/ ReaderUnlockGive(t)
    <2>1. /\ Counted' = Counted /\ Holding' = Holding /\ Writing' = Writing
          /\ resourceLock' = resourceLock
      BY <1>0, <1>1, GotoMoves
      DEF IsCounted, IsHolding, CallReaderLock, CallWriterLock, ReaderLockTake,
          ReaderLockGive, CallReaderUnlock, ReaderUnlockTake, ReaderUnlockGive
    <2>2. \A u \in Threads : pc'[u] \in {"rl_resource", "ru_resource"} => pc'[u] = pc[u]
      BY <1>1 DEF Goto, CallReaderLock, CallWriterLock, ReaderLockTake,
          ReaderLockGive, CallReaderUnlock, ReaderUnlockTake, ReaderUnlockGive
    <2> QED
      BY <2>1, <2>2 DEF ResourceInv
  <1>2. CASE ReaderLockCount(t)
    <2>0. pc[t] = "rl_count" /\ t \notin Counted /\ pc[t] \in HoldsReadLock
      BY <1>0, <1>2 DEF ReaderLockCount, IsCounted, HoldsReadLock
    <2>1. \A u \in Threads : u # t => pc'[u] \notin {"rl_resource", "ru_resource"}
      BY <1>2, <2>0, HolderAlone DEF ReaderLockCount, Goto, HoldsReadLock
    <2>2. CASE Counted = {}
      <3>1. Goto(t, "rl_resource") /\ resourceLock' = resourceLock
        BY <1>2, <2>2, CountedCardinality DEF ReaderLockCount, ReadCountExact
      <3>2. Counted' = {t} /\ Holding' = Holding \ {t} /\ Writing' = Writing \ {t}
        BY <2>2, <3>1, GotoMoves DEF IsCounted, IsHolding
      <3>3. t \notin Holding /\ t \notin Writing /\ pc'[t] = "rl_resource"
        BY <1>0, <2>0, <3>1 DEF IsHolding, Goto
      <3> QED
        BY <2>1, <3>1, <3>2, <3>3 DEF ResourceInv
    <2>3. CASE Counted # {}
      <3>1. Goto(t, "rl_give") /\ resourceLock' = resourceLock
        BY <1>2, <2>3, CountedCardinality DEF ReaderLockCount, ReadCountExact
      <3>2. Holding # {} /\ Holding' = Holding \cup {t} /\ Writing' = Writing \ {t}
        BY <2>0, <2>3, <3>1, GotoMoves, HolderAlone DEF IsCounted, IsHolding
      <3>3. pc'[t] = "rl_give" /\ Writing = {} /\ resourceLock = 0
        BY <1>0, <3>1, <3>2 DEF ResourceInv, Goto
      <3> QED
        BY <2>1, <3>1, <3>2, <3>3 DEF ResourceInv
    <2> QED
      BY <2>2, <2>3
  <1>3. CASE ReaderLockResource(t)
    <2>1. /\ pc[t] = "rl_resource" /\ Counted = {t} /\ Holding = {} /\ Writing = {}
          /\ Goto(t, "rl_give") /\ resourceLock' = 0
      BY <1>3 DEF ReaderLockResource, ResourceInv
    <2>2. Counted' = {t} /\ Holding' = {t} /\ Writing' = {}
      BY <2>1, GotoMoves DEF IsCounted, IsHolding
    <2>3. \A u \in Threads : pc'[u] \notin {"rl_resource", "ru_resource"}
      BY <1>0, <2>1 DEF Goto, IsCounted, IsHolding
    <2> QED
      BY <2>1, <2>2, <2>3 DEF ResourceInv
  <1>4. CASE ReaderUnlockCount(t)
    <2>0. pc[t] = "ru_count" /\ t \in Counted /\ t \in Holding /\ pc[t] \in HoldsReadLock
      BY <1>0, <1>4 DEF ReaderUnlockCount, IsCounted, IsHolding, HoldsReadLock
    <2>1. /\ \A u \in Threads : u # t => pc'[u] \notin {"rl_resource", "ru_resource"}
          /\ Writing = {} /\ resourceLock = 0 /\ resourceLock' = 0
      BY <1>0, <1>4, <2>0, HolderAlone DEF ReaderUnlockCount, Goto, HoldsReadLock, ResourceInv
    <2>2. CASE Counted = {t}
      <3>0. Cardinality(Counted) = 1
        BY <2>2, FS_Singleton
      <3>1. Goto(t, "ru_resource")
        BY <1>4, <3>0 DEF ReaderUnlockCount, ReadCountExact
      <3>2. /\ Counted' = {} /\ Holding' = Holding \cup {t} /\ Writing' = {}
            /\ pc'[t] = "ru_resource"
        BY <2>1, <2>2, <3>1, GotoMoves DEF IsCounted, IsHolding, Goto
      <3> QED
        BY <2>1, <3>2 DEF ResourceInv
    <2>3. CASE Counted # {t}
      <3>1. Counted \ {t} # {} /\ Counted \ {t} \subseteq Holding
        BY <2>0, <2>3, HolderAlone
      <3>2. Cardinality(Counted) - 1 # 0
        <4>1. Cardinality(Counted \ {t}) = Cardinality(Counted) - 1
          BY <2>0, CountedCardinality
        <4>2. IsFiniteSet(Counted \ {t})
          BY CountedCardinality, FS_RemoveElement
        <4> QED
          BY <3>1, <4>1, <4>2, FS_EmptySet
      <3>3. Goto(t, "ru_give")
        BY <1>4, <3>2 DEF ReaderUnlockCount, ReadCountExact
      <3>4. Holding' = Holding \ {t} /\ Writing' = Writing \ {t}
        BY <3>3, GotoMoves DEF IsHolding
      <3>5. pc'[t] = "ru_give"
        BY <3>3 DEF Goto
      <3> QED
        BY <2>1, <3>1, <3>4, <3>5 DEF ResourceInv
    <2> QED
      BY <2>2, <2>3
  <1>5. CASE ReaderUnlockResource(t)
    <2>1. /\ pc[t] = "ru_resource" /\ Counted = {} /\ t \in Holding
          /\ Goto(t, "ru_give") /\ resourceLock' = 1 /\ pc[t] \in HoldsReadLock
      BY <1>0, <1>5 DEF ReaderUnlockResource, ResourceInv, IsHolding, HoldsReadLock
    <2>2. Counted' = {} /\ Holding' = Holding \ {t} /\ Writing' = Writing \ {t}
      BY <2>1, GotoMoves DEF IsCounted, IsHolding
    <2>3. Writing = {} /\ Holding = {t}
      BY <1>0, <2>1, HolderAlone DEF ResourceInv, IsHolding, IsCounted, HoldsReadLock
    <2>4. \A u \in Threads : pc'[u] \notin {"rl_resource", "ru_resource"}
      BY <2>1, HolderAlone DEF Goto, HoldsReadLock
    <2> QED
      BY <2>1, <2>2, <2>3, <2>4 DEF ResourceInv
  <1>6. CASE WriterLockResource(t)
    <2>1. /\ pc[t] = "wl_resource" /\ Holding = {} /\ Writing = {} /\ t \notin Counted
          /\ Goto(t, "writing") /\ resourceLock' = 0
      BY <1>0, <1>6 DEF WriterLockResource, ResourceInv, IsCounted
    <2>2. Counted' = Counted /\ Holding' = {} /\ Writing' = {t}
      BY <2>1, GotoMoves DEF IsCounted, IsHolding
    <2>3. \A u \in Threads : pc'[u] \in {"rl_resource", "ru_resource"} => pc'[u] = pc[u]
      BY <2>1 DEF Goto
    <2> QED
      BY <2>1, <2>2, <2>3 DEF ResourceInv
  <1>7. CASE WriterUnlock(t)
    <2>1. /\ pc[t] = "writing" /\ t \in Writing /\ t \notin Counted
          /\ Goto(t, "out") /\ resourceLock' = 1
      BY <1>0, <1>7 DEF WriterUnlock, IsCounted
    <2>2. Counted' = Counted /\ Holding' = Holding \ {t} /\ Writing' = Writing \ {t}
      BY <2>1, GotoMoves DEF IsCounted, IsHolding
    <2>3. Holding = {} /\ Writing = {t}
      BY <2>1 DEF ResourceInv
    <2>4. \A u \in Threads : pc'[u] \in {"rl_resource", "ru_resource"} => pc'[u] = pc[u]
      BY <2>1 DEF Goto
    <2> QED
      BY <2>1, <2>2, <2>3, <2>4 DEF ResourceInv
  <1> QED
    BY <1>1, <1>2, <1>3, <1>4, <1>5, <1>6, <1>7 DEF GoOn

-----------------------------------------------------------------------------
\* LockInv is an invariant: the type of every variable, the one holder of
\* ReadLock, the exact ReadCount and who has ResourceLock (read_write_lock.c:324-459).
THEOREM Invariance == Spec => []LockInv
  <1>1. LockInv /\ [Next]_vars => LockInv'
    <2> SUFFICES ASSUME LockInv, [Next]_vars PROVE LockInv'
      OBVIOUS
    <2>1. CASE UNCHANGED vars
      BY <2>1 DEF vars, LockInv, TypeOK, MutexInv, ReadCountExact, ResourceInv,
                  Counted, Holding, Writing
    <2>2. ASSUME NEW t \in Threads, CallReaderLock(t) \/ CallWriterLock(t) \/ GoOn(t)
          PROVE  LockInv'
      BY <2>2, StepMutexInv, StepReadCountExact, StepResourceInv DEF LockInv
    <2> QED
      BY <2>1, <2>2 DEF Next
  <1> QED
    BY <1>1, InitLockInv, PTL DEF Spec

\* A writer is alone with the lock, whatever the number of threads.
THEOREM WriterIsAlone == Spec => []Exclusion
  <1>1. LockInv => Exclusion
    BY DEF LockInv, ResourceInv, Exclusion, Reading, Writing, Holding, IsHolding
  <1> QED
    BY <1>1, Invariance, PTL

\* A reader sleeps on ResourceLock only while a writer has it.
THEOREM ReaderWaitsForAWriter == Spec => []ReaderWaitsOnlyForAWriter
  <1>1. LockInv => ReaderWaitsOnlyForAWriter
    BY DEF LockInv, TypeOK, ResourceInv, MutexInv, ReaderWaitsOnlyForAWriter,
           Holding, IsHolding, Counted, IsCounted, HoldsReadLock
  <1> QED
    BY <1>1, Invariance, PTL

\* The lock implements the abstract read/write lock: each step of a thread is a
\* step of that lock or leaves the readers and the writers as they are.
THEOREM Implementation == Spec => ImplementsRWLock
  <1>1. Init => Abstract!Init
    BY DEF Init, Abstract!Init, Reading, Writing
  <1>2. LockInv /\ [Next]_vars => [Abstract!Next]_(Abstract!vars)
    <2> SUFFICES ASSUME LockInv, [Next]_vars PROVE [Abstract!Next]_(Abstract!vars)
      OBVIOUS
    <2> USE DEF Abstract!vars, LockInv, TypeOK
    <2>1. CASE UNCHANGED vars
      BY <2>1 DEF vars, Reading, Writing
    <2>2. ASSUME NEW t \in Threads, CallReaderLock(t) \/ CallWriterLock(t) \/ GoOn(t)
          PROVE  [Abstract!Next]_(Abstract!vars)
      <3>0. /\ t \in Reading <=> pc[t] = "reading"
            /\ t \in Writing <=> pc[t] = "writing"
        BY DEF Reading, Writing
      <3>1. CASE ReaderLockGive(t)
        <4>0. pc[t] = "rl_give" /\ Goto(t, "reading")
          BY <3>1 DEF ReaderLockGive
        <4>1. Reading' = Reading \cup {t} /\ Writing' = Writing \ {t}
          BY <4>0, GotoMoves
        <4>2. t \notin Reading \cup Writing /\ Writing = {}
          BY <3>0, <4>0 DEF ResourceInv, Holding, IsHolding
        <4> QED
          BY <4>1, <4>2 DEF Abstract!Next, Abstract!StartReading
      <3>2. CASE CallReaderUnlock(t)
        <4>0. pc[t] = "reading" /\ Goto(t, "ru_take")
          BY <3>2 DEF CallReaderUnlock
        <4>1. Reading' = Reading \ {t} /\ Writing' = Writing /\ t \in Reading
          BY <3>0, <4>0, GotoMoves
        <4> QED
          BY <4>1 DEF Abstract!Next, Abstract!StopReading
      <3>3. CASE WriterLockResource(t)
        <4>1. Reading' = Reading /\ Writing' = Writing \cup {t}
          BY <3>0, <3>3, GotoMoves DEF WriterLockResource
        <4>2. Reading = {} /\ Writing = {}
          BY <3>3 DEF WriterLockResource, ResourceInv, Holding, IsHolding, Reading
        <4> QED
          BY <4>1, <4>2 DEF Abstract!Next, Abstract!StartWriting
      <3>4. CASE WriterUnlock(t)
        <4>1. Reading' = Reading /\ Writing' = Writing \ {t} /\ t \in Writing
          BY <3>0, <3>4, GotoMoves DEF WriterUnlock
        <4> QED
          BY <4>1 DEF Abstract!Next, Abstract!StopWriting
      <3>5. CASE /\ ~ReaderLockGive(t) /\ ~CallReaderUnlock(t)
                 /\ ~WriterLockResource(t) /\ ~WriterUnlock(t)
        <4>1. \E l : Goto(t, l) /\ {pc[t], l} \cap {"reading", "writing"} = {}
          BY <2>2, <3>5
          DEF GoOn, CallReaderLock, CallWriterLock, ReaderLockTake, ReaderLockCount,
              ReaderLockResource, ReaderUnlockTake, ReaderUnlockCount,
              ReaderUnlockResource, ReaderUnlockGive
        <4>2. Reading' = Reading \ {t} /\ Writing' = Writing \ {t}
          BY <4>1, GotoMoves
        <4>3. t \notin Reading /\ t \notin Writing
          BY <3>0, <4>1
        <4> QED
          BY <4>2, <4>3
      <3> QED
        BY <3>1, <3>2, <3>3, <3>4, <3>5
    <2> QED
      BY <2>1, <2>2 DEF Next
  <1> QED
    BY <1>1, <1>2, Invariance, PTL DEF Spec, ImplementsRWLock, Abstract!Spec
=============================================================================
