------------------------- MODULE RWLockPreferWriter -------------------------
(***************************************************************************)
(* The read/write lock of freertos-addons that prefers writers             *)
(* (c/Source/read_write_lock.c, the RwPreferWriter branches), used by any  *)
(* number of threads, each of which locks before it unlocks.               *)
(*                                                                         *)
(* To the two semaphores of the lock that prefers readers it adds the      *)
(* mutex WriteLock, which protects WriteCount, and the binary semaphore    *)
(* BlockReadersLock, which the first writer that comes takes for all       *)
(* writers and which every reader has to pass.  The granularity of the     *)
(* steps is that of RWLockPreferReader.                                    *)
(***************************************************************************)
EXTENDS Integers, FiniteSets

CONSTANTS Threads, Nobody

ASSUME ThreadsAssumption == IsFiniteSet(Threads) /\ Nobody \notin Threads

VARIABLES pc,                \* where each thread is
          readCount,         \* lock->ReadCount
          writeCount,        \* lock->WriteCount
          readLock,          \* holder of the mutex lock->ReadLock
          writeLock,         \* holder of the mutex lock->WriteLock
          blockReadersLock,  \* count of the semaphore lock->BlockReadersLock
          resourceLock       \* count of the semaphore lock->ResourceLock

vars == <<pc, readCount, writeCount, readLock, writeLock, blockReadersLock, resourceLock>>

readerVars == <<readCount, readLock>>
writerVars == <<writeCount, writeLock>>

Goto(t, label) == pc' = [pc EXCEPT ![t] = label]

Labels == {"out", "rl_block", "rl_take", "rl_count", "rl_resource", "rl_give",
           "rl_unblock", "reading", "ru_take", "ru_count", "ru_resource", "ru_give",
           "wl_take", "wl_count", "wl_block", "wl_give", "wl_resource", "writing",
           "wu_take", "wu_count", "wu_unblock", "wu_give"}

\* CreateReadWriteLockPreferWriter, when every allocation succeeds.
Init == /\ pc = [t \in Threads |-> "out"]
        /\ readCount = 0 /\ writeCount = 0
        /\ readLock = Nobody /\ writeLock = Nobody
        /\ blockReadersLock = 1 /\ resourceLock = 1

-----------------------------------------------------------------------------
(* ReaderLock.                                                             *)

CallReaderLock(t) ==
  /\ pc[t] = "out" /\ Goto(t, "rl_block")
  /\ UNCHANGED <<readerVars, writerVars, blockReadersLock, resourceLock>>

\* Mutant: readers do not pass BlockReadersLock (they release it all the same).
ReaderLockBlockSkipped(t) ==
  /\ pc[t] = "rl_block" /\ Goto(t, "rl_take")
  /\ UNCHANGED <<readerVars, writerVars, blockReadersLock, resourceLock>>

ReaderLockBlock(t) ==
  /\ pc[t] = "rl_block" /\ blockReadersLock = 1
  /\ blockReadersLock' = 0 /\ Goto(t, "rl_take")
  /\ UNCHANGED <<readerVars, writerVars, resourceLock>>

ReaderLockTake(t) ==
  /\ pc[t] = "rl_take" /\ readLock = Nobody
  /\ readLock' = t /\ Goto(t, "rl_count")
  /\ UNCHANGED <<readCount, writerVars, blockReadersLock, resourceLock>>

ReaderLockCount(t) ==
  /\ pc[t] = "rl_count"
  /\ readCount' = readCount + 1
  /\ Goto(t, IF readCount' = 1 THEN "rl_resource" ELSE "rl_give")
  /\ UNCHANGED <<readLock, writerVars, blockReadersLock, resourceLock>>

ReaderLockResource(t) ==
  /\ pc[t] = "rl_resource" /\ resourceLock = 1
  /\ resourceLock' = 0 /\ Goto(t, "rl_give")
  /\ UNCHANGED <<readerVars, writerVars, blockReadersLock>>

ReaderLockGive(t) ==
  /\ pc[t] = "rl_give"
  /\ readLock' = Nobody /\ Goto(t, "rl_unblock")
  /\ UNCHANGED <<readCount, writerVars, blockReadersLock, resourceLock>>

ReaderLockUnblock(t) ==
  /\ pc[t] = "rl_unblock"
  /\ blockReadersLock' = 1 /\ Goto(t, "reading")
  /\ UNCHANGED <<readerVars, writerVars, resourceLock>>

-----------------------------------------------------------------------------
(* ReaderUnlock.                                                           *)

CallReaderUnlock(t) ==
  /\ pc[t] = "reading" /\ Goto(t, "ru_take")
  /\ UNCHANGED <<readerVars, writerVars, blockReadersLock, resourceLock>>

ReaderUnlockTake(t) ==
  /\ pc[t] = "ru_take" /\ readLock = Nobody
  /\ readLock' = t /\ Goto(t, "ru_count")
  /\ UNCHANGED <<readCount, writerVars, blockReadersLock, resourceLock>>

ReaderUnlockCount(t) ==
  /\ pc[t] = "ru_count"
  /\ readCount' = readCount - 1
  /\ Goto(t, IF readCount' = 0 THEN "ru_resource" ELSE "ru_give")
  /\ UNCHANGED <<readLock, writerVars, blockReadersLock, resourceLock>>

ReaderUnlockResource(t) ==
  /\ pc[t] = "ru_resource"
  /\ resourceLock' = 1 /\ Goto(t, "ru_give")
  /\ UNCHANGED <<readerVars, writerVars, blockReadersLock>>

ReaderUnlockGive(t) ==
  /\ pc[t] = "ru_give"
  /\ readLock' = Nobody /\ Goto(t, "out")
  /\ UNCHANGED <<readCount, writerVars, blockReadersLock, resourceLock>>

-----------------------------------------------------------------------------
(* WriterLock.                                                             *)

CallWriterLock(t) ==
  /\ pc[t] = "out" /\ Goto(t, "wl_take")
  /\ UNCHANGED <<readerVars, writerVars, blockReadersLock, resourceLock>>

WriterLockTake(t) ==
  /\ pc[t] = "wl_take" /\ writeLock = Nobody
  /\ writeLock' = t /\ Goto(t, "wl_count")
  /\ UNCHANGED <<readerVars, writeCount, blockReadersLock, resourceLock>>

WriterLockCount(t) ==
  /\ pc[t] = "wl_count"
  /\ writeCount' = writeCount + 1
  /\ Goto(t, IF writeCount' = 1 THEN "wl_block" ELSE "wl_give")
  /\ UNCHANGED <<readerVars, writeLock, blockReadersLock, resourceLock>>

WriterLockBlock(t) ==
  /\ pc[t] = "wl_block" /\ blockReadersLock = 1
  /\ blockReadersLock' = 0 /\ Goto(t, "wl_give")
  /\ UNCHANGED <<readerVars, writerVars, resourceLock>>

WriterLockGive(t) ==
  /\ pc[t] = "wl_give"
  /\ writeLock' = Nobody /\ Goto(t, "wl_resource")
  /\ UNCHANGED <<readerVars, writeCount, blockReadersLock, resourceLock>>

\* Mutant: the writer looks at ReadCount instead of taking ResourceLock.
WriterLockResourceByCount(t) ==
  /\ pc[t] = "wl_resource" /\ readCount = 0
  /\ resourceLock' = 0 /\ Goto(t, "writing")
  /\ UNCHANGED <<readerVars, writerVars, blockReadersLock>>

WriterLockResource(t) ==
  /\ pc[t] = "wl_resource" /\ resourceLock = 1
  /\ resourceLock' = 0 /\ Goto(t, "writing")
  /\ UNCHANGED <<readerVars, writerVars, blockReadersLock>>

-----------------------------------------------------------------------------
(* WriterUnlock.                                                           *)

WriterUnlockResource(t) ==
  /\ pc[t] = "writing"
  /\ resourceLock' = 1 /\ Goto(t, "wu_take")
  /\ UNCHANGED <<readerVars, writerVars, blockReadersLock>>

WriterUnlockTake(t) ==
  /\ pc[t] = "wu_take" /\ writeLock = Nobody
  /\ writeLock' = t /\ Goto(t, "wu_count")
  /\ UNCHANGED <<readerVars, writeCount, blockReadersLock, resourceLock>>

\* Mutants: every writer that leaves lets the readers in; the count is reset.
WriterUnlockCountAlwaysGives(t) ==
  /\ pc[t] = "wu_count"
  /\ writeCount' = writeCount - 1
  /\ Goto(t, "wu_unblock")
  /\ UNCHANGED <<readerVars, writeLock, blockReadersLock, resourceLock>>

WriterUnlockCountResets(t) ==
  /\ pc[t] = "wu_count"
  /\ writeCount' = 0
  /\ Goto(t, IF writeCount' = 0 THEN "wu_unblock" ELSE "wu_give")
  /\ UNCHANGED <<readerVars, writeLock, blockReadersLock, resourceLock>>

WriterUnlockCount(t) ==
  /\ pc[t] = "wu_count"
  /\ writeCount' = writeCount - 1
  /\ Goto(t, IF writeCount' = 0 THEN "wu_unblock" ELSE "wu_give")
  /\ UNCHANGED <<readerVars, writeLock, blockReadersLock, resourceLock>>

WriterUnlockUnblock(t) ==
  /\ pc[t] = "wu_unblock"
  /\ blockReadersLock' = 1 /\ Goto(t, "wu_give")
  /\ UNCHANGED <<readerVars, writerVars, resourceLock>>

WriterUnlockGive(t) ==
  /\ pc[t] = "wu_give"
  /\ writeLock' = Nobody /\ Goto(t, "out")
  /\ UNCHANGED <<readerVars, writeCount, blockReadersLock, resourceLock>>

-----------------------------------------------------------------------------
\* A thread inside a call of the lock, or holding it, goes on.
ReaderGoesOn(t) ==
  \/ ReaderLockBlock(t) \/ ReaderLockTake(t) \/ ReaderLockCount(t)
  \/ ReaderLockResource(t) \/ ReaderLockGive(t) \/ ReaderLockUnblock(t)
  \/ CallReaderUnlock(t) \/ ReaderUnlockTake(t) \/ ReaderUnlockCount(t)
  \/ ReaderUnlockResource(t) \/ ReaderUnlockGive(t)
WriterGoesOn(t) ==
  \/ WriterLockTake(t) \/ WriterLockCount(t) \/ WriterLockBlock(t)
  \/ WriterLockGive(t) \/ WriterLockResource(t) \/ WriterUnlockResource(t)
  \/ WriterUnlockTake(t) \/ WriterUnlockCount(t) \/ WriterUnlockUnblock(t)
  \/ WriterUnlockGive(t)
GoOn(t) == ReaderGoesOn(t) \/ WriterGoesOn(t)

Next == \E t \in Threads : CallReaderLock(t) \/ CallWriterLock(t) \/ GoOn(t)

\* Weak fairness only, for the reason given in RWLockPreferReader.
Spec == Init /\ [][Next]_vars /\ \A t \in Threads : WF_vars(GoOn(t))

-----------------------------------------------------------------------------
(* Properties.                                                             *)

\* Holders of the two mutexes, and threads that the two counts count.
HoldsReadLock == {"rl_count", "rl_resource", "rl_give",
                  "ru_count", "ru_resource", "ru_give"}
HoldsWriteLock == {"wl_count", "wl_block", "wl_give",
                   "wu_count", "wu_unblock", "wu_give"}
IsCountedReader == {"rl_resource", "rl_give", "rl_unblock", "reading", "ru_take", "ru_count"}
IsCountedWriter == {"wl_block", "wl_give", "wl_resource", "writing", "wu_take", "wu_count"}
CountedReaders == {t \in Threads : pc[t] \in IsCountedReader}
CountedWriters == {t \in Threads : pc[t] \in IsCountedWriter}

\* A counted writer past the take of BlockReadersLock: readers are shut out for it.
IsRegistered == IsCountedWriter \ {"wl_block"}
Registered == {t \in Threads : pc[t] \in IsRegistered}

Reading == {t \in Threads : pc[t] = "reading"}
Writing == {t \in Threads : pc[t] = "writing"}

\* Every variable keeps its type.
TypeOK == /\ pc \in [Threads -> Labels]
          /\ readCount \in Nat /\ writeCount \in Nat
          /\ readLock \in Threads \cup {Nobody} /\ writeLock \in Threads \cup {Nobody}
          /\ blockReadersLock \in {0, 1} /\ resourceLock \in {0, 1}

\* A writer is alone: the header's "exclusive read / write access".
Exclusion == \A t, u \in Threads : t \in Writing /\ u \in Reading \cup Writing => t = u

\* The counts are exact, whatever the order in which threads come and leave, so
\* that the last reader gives the resource and the last writer lets readers in.
CountsExact == /\ readCount = Cardinality(CountedReaders)
               /\ writeCount = Cardinality(CountedWriters)

\* A reader that got past BlockReadersLock finds ResourceLock free or taken by
\* readers: it never sleeps on it with the mutex and the semaphore in its hands.
AdmittedReaderNeverWaits ==
  \A t \in Threads : pc[t] = "rl_resource" => resourceLock = 1

\* Writer preference: while a writer is registered no thread begins to read,
\* nor even enters the part of ReaderLock behind BlockReadersLock.
NoReaderOvertakes ==
  [][Registered # {} => /\ Reading' \subseteq Reading
                        /\ \A t \in Threads : pc'[t] = "rl_take" => pc[t] = "rl_take"]_vars

\* Why the lock works, as an inductive invariant: the mutexes have one holder,
\* the counts are exact, and each of the two semaphores is free exactly when
\* nobody has it: ResourceLock the readers or one writer, BlockReadersLock the
\* writers or one reader on its way in.
IsHolding == {"rl_give", "rl_unblock", "reading", "ru_take", "ru_count", "ru_resource"}
IsPassing == {"rl_take", "rl_count", "rl_resource", "rl_give", "rl_unblock"}
IsShutting == IsRegistered \cup {"wu_unblock"}
Holding  == {t \in Threads : pc[t] \in IsHolding}
Passing  == {t \in Threads : pc[t] \in IsPassing}
Shutting == {t \in Threads : pc[t] \in IsShutting}

MutexInv == \A t \in Threads : /\ pc[t] \in HoldsReadLock <=> readLock = t
                               /\ pc[t] \in HoldsWriteLock <=> writeLock = t

ResourceInv ==
  /\ resourceLock = 1 <=> Holding = {} /\ Writing = {}
  /\ \A t \in Writing : Holding = {} /\ \A u \in Writing : t = u
  /\ \A t \in Threads : pc[t] = "rl_resource" => CountedReaders = {t}
  /\ \A t \in Threads : pc[t] = "ru_resource" => CountedReaders = {}

BlockInv ==
  /\ blockReadersLock = 1 <=> Shutting = {} /\ Passing = {}
  /\ \A t \in Passing : Shutting = {} /\ \A u \in Passing : t = u
  /\ \A t \in Threads : pc[t] = "wl_block" => CountedWriters = {t}
  /\ \A t \in Threads : pc[t] = "wu_unblock" => CountedWriters = {}

LockInv == TypeOK /\ MutexInv /\ CountsExact /\ ResourceInv /\ BlockInv

\* Readers cannot starve the writers: once a writer is registered, a writer
\* gets the lock, however many readers keep coming.
WritersAreServed ==
  (\E t \in Threads : pc[t] = "wl_resource") ~> Writing # {}

\* The lock implements the abstract read/write lock.
Abstract == INSTANCE RWLock WITH readers <- Reading, writers <- Writing
ImplementsRWLock == Abstract!Spec
=============================================================================
