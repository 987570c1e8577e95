--------------------------- MODULE BoundedQueueDemo ---------------------------
(***************************************************************************)
(* The program that the repository keeps to show how condition variables   *)
(* are used (Linux_g++_condition_variables_multiple_producers_consumers2): *)
(* producers and consumers share a bounded queue under one mutex and two   *)
(* condition variables.  It composes the threads' loops with the steps of  *)
(* ConditionVariable; only the number of queued items matters here.        *)
(***************************************************************************)
EXTENDS ConditionVariable

CONSTANTS Producers, Consumers, NotEmpty, NotFull, MaxSize

DemoAssumption ==
  /\ Threads = Producers \cup Consumers /\ Producers \cap Consumers = {}
  /\ CVs = {NotEmpty, NotFull} /\ MaxSize \in Nat \ {0}

VARIABLES step,    \* where each thread is in its loop
          curSize  \* boundedQueue->CurSize

demoVars == <<vars, step, curSize>>

DemoInit == Init /\ step = [t \in Threads |-> "lock"] /\ curSize = 0

IsFull  == curSize = MaxSize
IsEmpty == curSize = 0
Blocked(t) == IF t \in Producers THEN IsFull ELSE IsEmpty

\* Mutant: one condition variable for both conditions.
AnyChange(t) == NotEmpty

WaitsFor(t)  == IF t \in Producers THEN NotFull ELSE NotEmpty
Provides(t)  == IF t \in Producers THEN NotEmpty ELSE NotFull
Becomes(t, s) == step' = [step EXCEPT ![t] = s]

Lock(t) == step[t] = "lock" /\ LockCv(t) /\ Becomes(t, "test") /\ UNCHANGED curSize

WhileBlockedWait(t) ==
  /\ step[t] = "test" /\ Blocked(t) /\ CallWait(t, WaitsFor(t)) /\ UNCHANGED <<step, curSize>>

GoAhead(t) ==
  /\ step[t] = "test" /\ pc[t] = "locked" /\ ~Blocked(t)
  /\ Becomes(t, "change") /\ UNCHANGED <<vars, curSize>>

\* Add and Remove.  A failed configASSERT never returns, and keeps the lock.
Change(t) ==
  /\ step[t] = "change" /\ pc[t] = "locked"
  /\ IF Blocked(t) THEN Becomes(t, "assert") /\ UNCHANGED curSize
     ELSE /\ curSize' = IF t \in Producers THEN curSize + 1 ELSE curSize - 1
          /\ Becomes(t, "signal")
  /\ UNCHANGED vars

SignalOther(t) ==
  /\ step[t] = "signal" /\ CallSignal(t, Provides(t)) /\ Becomes(t, "unlock") /\ UNCHANGED curSize

Unlock(t) == step[t] = "unlock" /\ UnlockCv(t) /\ Becomes(t, "lock") /\ UNCHANGED curSize

Library(t) == (Waiting(t) \/ Signalling(t) \/ Acquiring(t)) /\ UNCHANGED <<step, curSize>>

Run(t) == \/ Lock(t) \/ WhileBlockedWait(t) \/ GoAhead(t) \/ Change(t)
          \/ SignalOther(t) \/ Unlock(t) \/ Library(t)

DemoNext == \E t \in Threads : Run(t)

\* The scheduler runs every ready thread, and no thread waits for ever for a
\* mutex that is free again and again.
DemoFairness == \A t \in Threads : SF_demoVars(Run(t))

DemoSpec == DemoInit /\ [][DemoNext]_demoVars /\ DemoFairness

-----------------------------------------------------------------------------
\* The program's own claim, that it "never deadlocks": items are added and removed
\* for ever, although a thread that was signalled finds the lock taken, and the queue
\* changed, by others; so no assertion fails either, which would stop everything.
KeepsGoing == /\ []<>(\E p \in Producers : step[p] = "signal")
              /\ []<>(\E c \in Consumers : step[c] = "signal")
=============================================================================
