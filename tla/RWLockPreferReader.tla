------------------------- MODULE RWLockPreferReader -------------------------
(***************************************************************************)
(* The read/write lock of freertos-addons that prefers readers             *)
(* (c/Source/read_write_lock.c, the RwPreferReader branches), used by any  *)
(* number of threads, each of which locks before it unlocks.               *)
(*                                                                         *)
(* ReadLock is a FreeRTOS mutex that protects ReadCount.  ResourceLock is  *)
(* a binary semaphore: the first reader takes it for all readers, the last *)
(* one gives it back, and a writer takes it for itself.  Each semaphore    *)
(* call is a step; a take with portMAX_DELAY waits until the semaphore is  *)
(* there, and which of several waiting threads gets it is left open.       *)
(***************************************************************************)
EXTENDS Integers, FiniteSets

CONSTANTS Threads, Nobody

ASSUME ThreadsAssumption == IsFiniteSet(Threads) /\ Nobody \notin Threads

VARIABLES pc,            \* where each thread is
          readCount,     \* lock->ReadCount
          readLock,      \* holder of the mutex lock->ReadLock
          resourceLock   \* count of the binary semaphore lock->ResourceLock

vars == <<pc, readCount, readLock, resourceLock>>

Goto(t, label) == pc' = [pc EXCEPT ![t] = label]

Labels == {"out", "rl_take", "rl_count", "rl_resource", "rl_give", "reading",
           "ru_take", "ru_count", "ru_resource", "ru_give",
           "wl_resource", "writing"}

\* CreateReadWriteLockPreferReader, when every allocation succeeds.
Init == /\ pc = [t \in Threads |-> "out"]
        /\ readCount = 0 /\ readLock = Nobody /\ resourceLock = 1

-----------------------------------------------------------------------------
(* ReaderLock.                                                             *)

CallReaderLock(t) ==
  pc[t] = "out" /\ Goto(t, "rl_take") /\ UNCHANGED <<readCount, readLock, resourceLock>>

ReaderLockTake(t) ==
  /\ pc[t] = "rl_take" /\ readLock = Nobody
  /\ readLock' = t /\ Goto(t, "rl_count")
  /\ UNCHANGED <<readCount, resourceLock>>

\* Mutant: the reader does not count itself when others read already.
ReaderLockCountFirstOnly(t) ==
  /\ pc[t] = "rl_count"
  /\ readCount' = 1
  /\ Goto(t, IF readCount = 0 THEN "rl_resource" ELSE "rl_give")
  /\ UNCHANGED <<readLock, resourceLock>>

ReaderLockCount(t) ==
  /\ pc[t] = "rl_count"
  /\ readCount' = readCount + 1
  /\ Goto(t, IF readCount' = 1 THEN "rl_resource" ELSE "rl_give")
  /\ UNCHANGED <<readLock, resourceLock>>

ReaderLockResource(t) ==
  /\ pc[t] = "rl_resource" /\ resourceLock = 1
  /\ resourceLock' = 0 /\ Goto(t, "rl_give")
  /\ UNCHANGED <<readCount, readLock>>

ReaderLockGive(t) ==
  /\ pc[t] = "rl_give"
  /\ readLock' = Nobody /\ Goto(t, "reading")
  /\ UNCHANGED <<readCount, resourceLock>>

-----------------------------------------------------------------------------
(* ReaderUnlock.                                                           *)

CallReaderUnlock(t) ==
  pc[t] = "reading" /\ Goto(t, "ru_take") /\ UNCHANGED <<readCount, readLock, resourceLock>>

ReaderUnlockTake(t) ==
  /\ pc[t] = "ru_take" /\ readLock = Nobody
  /\ readLock' = t /\ Goto(t, "ru_count")
  /\ UNCHANGED <<readCount, resourceLock>>

\* Mutant: no reader that leaves gives the resource.
ReaderUnlockCountNeverGives(t) ==
  /\ pc[t] = "ru_count"
  /\ readCount' = readCount - 1
  /\ Goto(t, IF readCount' < 0 THEN "ru_resource" ELSE "ru_give")
  /\ UNCHANGED <<readLock, resourceLock>>

ReaderUnlockCount(t) ==
  /\ pc[t] = "ru_count"
  /\ readCount' = readCount - 1
  /\ Goto(t, IF readCount' = 0 THEN "ru_resource" ELSE "ru_give")
  /\ UNCHANGED <<readLock, resourceLock>>

ReaderUnlockResource(t) ==
  /\ pc[t] = "ru_resource"
  /\ resourceLock' = 1 /\ Goto(t, "ru_give")
  /\ UNCHANGED <<readCount, readLock>>

ReaderUnlockGive(t) ==
  /\ pc[t] = "ru_give"
  /\ readLock' = Nobody /\ Goto(t, "out")
  /\ UNCHANGED <<readCount, resourceLock>>

-----------------------------------------------------------------------------
(* WriterLock and WriterUnlock.                                            *)

CallWriterLock(t) ==
  pc[t] = "out" /\ Goto(t, "wl_resource") /\ UNCHANGED <<readCount, readLock, resourceLock>>

\* Mutant: the writer looks at ReadCount instead of taking ResourceLock.
WriterLockResourceByCount(t) ==
  /\ pc[t] = "wl_resource" /\ readCount = 0
  /\ resourceLock' = 0 /\ Goto(t, "writing")
  /\ UNCHANGED <<readCount, readLock>>

WriterLockResource(t) ==
  /\ pc[t] = "wl_resource" /\ resourceLock = 1
  /\ resourceLock' = 0 /\ Goto(t, "writing")
  /\ UNCHANGED <<readCount, readLock>>

WriterUnlock(t) ==
  /\ pc[t] = "writing"
  /\ resourceLock' = 1 /\ Goto(t, "out")
  /\ UNCHANGED <<readCount, readLock>>

-----------------------------------------------------------------------------
\* A thread inside a call of the lock, or holding it, goes on.
GoOn(t) == \/ ReaderLockTake(t) \/ ReaderLockCount(t) \/ ReaderLockResource(t)
           \/ ReaderLockGive(t) \/ CallReaderUnlock(t) \/ ReaderUnlockTake(t)
           \/ ReaderUnlockCount(t) \/ ReaderUnlockResource(t)
           \/ ReaderUnlockGive(t) \/ WriterLockResource(t) \/ WriterUnlock(t)

Next == \E t \in Threads : CallReaderLock(t) \/ CallWriterLock(t) \/ GoOn(t)

\* The scheduler runs every ready thread; it does not promise a thread that
\* contends for a semaphore that it ever gets it, hence only weak fairness.
Spec == Init /\ [][Next]_vars /\ \A t \in Threads : WF_vars(GoOn(t))

-----------------------------------------------------------------------------
(* Properties.                                                             *)

\* Threads that hold the mutex ReadLock, and threads that ReadCount counts.
HoldsReadLock == {"rl_count", "rl_resource", "rl_give",
                  "ru_count", "ru_resource", "ru_give"}
IsCounted == {"rl_resource", "rl_give", "reading", "ru_take", "ru_count"}
Counted == {t \in Threads : pc[t] \in IsCounted}

Reading == {t \in Threads : pc[t] = "reading"}
Writing == {t \in Threads : pc[t] = "writing"}

\* Every variable keeps its type.
TypeOK == /\ pc \in [Threads -> Labels]
          /\ readCount \in Nat
          /\ readLock \in Threads \cup {Nobody}
          /\ resourceLock \in {0, 1}

\* A writer is alone: the header's "exclusive read / write access".
Exclusion == \A t, u \in Threads : t \in Writing /\ u \in Reading \cup Writing => t = u

\* ReadCount is the number of readers that are counted, whatever the order in
\* which they came and leave: the last one to leave gives the resource.
ReadCountExact == readCount = Cardinality(Counted)

\* A reader that waits for ResourceLock waits for a writer: while readers have
\* the resource no further reader is held up by it, even with writers waiting.
ReaderWaitsOnlyForAWriter ==
  (\E t \in Threads : pc[t] = "rl_resource") /\ resourceLock = 0 => Writing # {}

\* Why the lock works, as an inductive invariant: the mutex has one holder, the
\* count is exact, and ResourceLock is free exactly when no reader and no writer
\* has it.  Readers have it from the first one's take to the last one's give.
IsHolding == {"rl_give", "reading", "ru_take", "ru_count", "ru_resource"}
Holding == {t \in Threads : pc[t] \in IsHolding}

MutexInv == \A t \in Threads : pc[t] \in HoldsReadLock <=> readLock = t

ResourceInv ==
  /\ resourceLock = 1 <=> Holding = {} /\ Writing = {}
  /\ \A t \in Writing : Holding = {} /\ \A u \in Writing : t = u
  /\ \A t \in Threads : pc[t] = "rl_resource" => Counted = {t}
  /\ \A t \in Threads : pc[t] = "ru_resource" => Counted = {}

LockInv == TypeOK /\ MutexInv /\ ReadCountExact /\ ResourceInv

\* No deadlock and no lost semaphore: when threads want the lock and nobody
\* has it, somebody gets it.
SomebodyGetsIn ==
  (\E t \in Threads : pc[t] \in {"rl_take", "wl_resource"}) ~> Reading \cup Writing # {}

\* The lock implements the abstract read/write lock.
Abstract == INSTANCE RWLock WITH readers <- Reading, writers <- Writing
ImplementsRWLock == Abstract!Spec
=============================================================================
