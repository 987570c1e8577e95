-------------------------- MODULE ConditionVariable --------------------------
(***************************************************************************)
(* Condition variables of the C++ wrapper: ccondition_variable.cpp and     *)
(* Thread::Wait.  A condition variable is a list of threads under a mutex  *)
(* of its own; a waiting thread blocks on a binary semaphore of its own,   *)
(* ThreadWaitSem, that Signal and Broadcast give.  The caller's mutex,     *)
(* CvLock, is released after the thread is on the list.  A step is what a  *)
(* thread does between two semaphore calls, or the semaphore call.         *)
(***************************************************************************)
EXTENDS Naturals, Sequences, Functions

CONSTANTS Threads,
          CVs,         \* the condition variables
          Nobody,      \* no holder of a mutex, and no thread
          TimedWaits,  \* may a Wait time out?
          MaxListed    \* bound: entries on a list as a Wait is called; without
                       \* timeouts a list has one entry per thread at most

ASSUME NobodyAssumption == Nobody \notin Threads
ASSUME TimedAssumption == TimedWaits \in BOOLEAN /\ MaxListed \in Nat

VARIABLES
  pc,        \* where each thread is in Wait, Signal or Broadcast
  cv,        \* the condition variable that a thread's call is about
  cvLock,    \* holder of the caller's mutex CvLock
  lock,      \* holder of each condition variable's Lock
  waitList,  \* WaitList
  sem,       \* count of each thread's ThreadWaitSem
  target,    \* the local variable thr of Signal and Broadcast
  all,       \* is the call a Broadcast?
  result     \* what a thread's last Wait returned

vars == <<pc, cv, cvLock, lock, waitList, sem, target, all, result>>

Goto(t, label) == pc' = [pc EXCEPT ![t] = label]

Init ==
  /\ pc = [t \in Threads |-> "out"] /\ cv \in [Threads -> CVs] /\ cvLock = Nobody
  /\ lock = [c \in CVs |-> Nobody] /\ waitList = [c \in CVs |-> <<>>]
  /\ sem = [t \in Threads |-> 0] /\ target = [t \in Threads |-> Nobody]
  /\ all = [t \in Threads |-> FALSE] /\ result = [t \in Threads |-> FALSE]

-----------------------------------------------------------------------------
(* The callers: Wait needs CvLock, Signal and Broadcast do not.            *)

LockCv(t) ==
  /\ pc[t] = "out" /\ cvLock = Nobody
  /\ cvLock' = t /\ Goto(t, "locked")
  /\ UNCHANGED <<cv, lock, waitList, sem, target, all, result>>

UnlockCv(t) ==
  /\ pc[t] = "locked"
  /\ cvLock' = Nobody /\ Goto(t, "out")
  /\ UNCHANGED <<cv, lock, waitList, sem, target, all, result>>

CallWait(t, c) ==
  /\ pc[t] = "locked" /\ Len(waitList[c]) < MaxListed
  /\ cv' = [cv EXCEPT ![t] = c] /\ Goto(t, "w_lock")
  /\ UNCHANGED <<cvLock, lock, waitList, sem, target, all, result>>

CallSignal(t, c) ==
  /\ pc[t] \in {"out", "locked"}
  /\ cv' = [cv EXCEPT ![t] = c] /\ all' = [all EXCEPT ![t] = FALSE] /\ Goto(t, "s_lock")
  /\ UNCHANGED <<cvLock, lock, waitList, sem, target, result>>

CallBroadcast(t, c) ==
  /\ pc[t] \in {"out", "locked"}
  /\ cv' = [cv EXCEPT ![t] = c] /\ all' = [all EXCEPT ![t] = TRUE] /\ Goto(t, "s_lock")
  /\ UNCHANGED <<cvLock, lock, waitList, sem, target, result>>

-----------------------------------------------------------------------------
(* Thread::Wait.                                                           *)

WaitLock(t) ==
  /\ pc[t] = "w_lock" /\ lock[cv[t]] = Nobody
  /\ lock' = [lock EXCEPT ![cv[t]] = t] /\ Goto(t, "w_add")
  /\ UNCHANGED <<cv, cvLock, waitList, sem, target, all, result>>

WaitAdd(t) ==
  /\ pc[t] = "w_add"
  /\ waitList' = [waitList EXCEPT ![cv[t]] = Append(@, t)] /\ Goto(t, "w_unlock")
  /\ UNCHANGED <<cv, cvLock, lock, sem, target, all, result>>

WaitUnlock(t) ==
  /\ pc[t] = "w_unlock"
  /\ lock' = [lock EXCEPT ![cv[t]] = Nobody] /\ Goto(t, "w_release")
  /\ UNCHANGED <<cv, cvLock, waitList, sem, target, all, result>>

WaitRelease(t) ==
  /\ pc[t] = "w_release"
  /\ cvLock' = Nobody /\ Goto(t, "w_take")
  /\ UNCHANGED <<cv, lock, waitList, sem, target, all, result>>

WaitTake(t) ==
  /\ pc[t] = "w_take" /\ sem[t] = 1
  /\ sem' = [sem EXCEPT ![t] = 0] /\ result' = [result EXCEPT ![t] = TRUE]
  /\ Goto(t, "w_relock")
  /\ UNCHANGED <<cv, cvLock, lock, waitList, target, all>>

\* Mutant: a thread that times out leaves without CvLock.
WaitTimesOutUnlocked(t) ==
  /\ TimedWaits /\ pc[t] = "w_take" /\ sem[t] = 0
  /\ result' = [result EXCEPT ![t] = FALSE] /\ Goto(t, "out")
  /\ UNCHANGED <<cv, cvLock, lock, waitList, sem, target, all>>

\* ThreadWaitSem.Take(Timeout) gives up; the thread stays on WaitList.
WaitTimesOut(t) ==
  /\ TimedWaits /\ pc[t] = "w_take" /\ sem[t] = 0
  /\ result' = [result EXCEPT ![t] = FALSE] /\ Goto(t, "w_relock")
  /\ UNCHANGED <<cv, cvLock, lock, waitList, sem, target, all>>

WaitRelock(t) ==
  /\ pc[t] = "w_relock" /\ cvLock = Nobody
  /\ cvLock' = t /\ Goto(t, "locked")
  /\ UNCHANGED <<cv, lock, waitList, sem, target, all, result>>

-----------------------------------------------------------------------------
(* ConditionVariable::Signal and Broadcast.                                *)

\* Mutant: the list is read without the condition variable's Lock.
SignalWithoutLock(t) ==
  /\ pc[t] = "s_lock" /\ Goto(t, "s_pop")
  /\ UNCHANGED <<cv, cvLock, lock, waitList, sem, target, all, result>>

SignalLock(t) ==
  /\ pc[t] = "s_lock" /\ lock[cv[t]] = Nobody
  /\ lock' = [lock EXCEPT ![cv[t]] = t] /\ Goto(t, "s_pop")
  /\ UNCHANGED <<cv, cvLock, waitList, sem, target, all, result>>

\* Mutant: the thread stays on the list.
SignalFirstKept(t) ==
  /\ pc[t] = "s_pop" /\ waitList[cv[t]] # <<>>
  /\ target' = [target EXCEPT ![t] = Head(waitList[cv[t]])] /\ Goto(t, "s_give")
  /\ UNCHANGED <<cv, cvLock, lock, waitList, sem, all, result>>

SignalFirst(t) ==
  /\ pc[t] = "s_pop" /\ waitList[cv[t]] # <<>>
  /\ target' = [target EXCEPT ![t] = Head(waitList[cv[t]])]
  /\ waitList' = [waitList EXCEPT ![cv[t]] = Tail(@)] /\ Goto(t, "s_give")
  /\ UNCHANGED <<cv, cvLock, lock, sem, all, result>>

SignalNobody(t) ==
  /\ pc[t] = "s_pop" /\ waitList[cv[t]] = <<>>
  /\ Goto(t, "s_unlock")
  /\ UNCHANGED <<cv, cvLock, lock, waitList, sem, target, all, result>>

\* Mutant: Broadcast forgets to look at the list again.
SignalGiveOnce(t) ==
  /\ pc[t] = "s_give"
  /\ sem' = [sem EXCEPT ![target[t]] = 1] /\ target' = [target EXCEPT ![t] = Nobody]
  /\ Goto(t, "s_unlock")
  /\ UNCHANGED <<cv, cvLock, lock, waitList, all, result>>

\* thr->Signal(): Broadcast goes on with the next thread.
SignalGive(t) ==
  /\ pc[t] = "s_give"
  /\ sem' = [sem EXCEPT ![target[t]] = 1] /\ target' = [target EXCEPT ![t] = Nobody]
  /\ Goto(t, IF all[t] THEN "s_pop" ELSE "s_unlock")
  /\ UNCHANGED <<cv, cvLock, lock, waitList, all, result>>

SignalUnlock(t) ==
  /\ pc[t] = "s_unlock"
  /\ lock' = [lock EXCEPT ![cv[t]] = Nobody]
  /\ Goto(t, IF cvLock = t THEN "locked" ELSE "out")
  /\ UNCHANGED <<cv, cvLock, waitList, sem, target, all, result>>

-----------------------------------------------------------------------------
Calls(t)   == LockCv(t) \/ \E c \in CVs : CallWait(t, c) \/ CallSignal(t, c) \/ CallBroadcast(t, c)
Waiting(t) == \/ WaitAdd(t) \/ WaitUnlock(t) \/ WaitRelease(t)
              \/ WaitTake(t) \/ WaitTimesOut(t)
Signalling(t) == SignalFirst(t) \/ SignalNobody(t) \/ SignalGive(t) \/ SignalUnlock(t)
Acquiring(t)  == WaitLock(t) \/ WaitRelock(t) \/ SignalLock(t)

Next == \E t \in Threads : Calls(t) \/ UnlockCv(t) \/ Waiting(t) \/ Signalling(t) \/ Acquiring(t)

\* The scheduler runs every ready thread, CvLock is given back again and again,
\* and a mutex is not taken by others for ever before a thread that waits
\* for it.
Fairness ==
  /\ SF_vars(\E t \in Threads : UnlockCv(t))
  /\ \A t \in Threads : WF_vars(Waiting(t) \/ Signalling(t)) /\ SF_vars(Acquiring(t))

Spec == Init /\ [][Next]_vars /\ Fairness

-----------------------------------------------------------------------------
(* Properties.                                                             *)

\* Every variable keeps its type.
Labels == {"out", "locked", "w_lock", "w_add", "w_unlock", "w_release", "w_take", "w_relock",
           "s_lock", "s_pop", "s_give", "s_unlock"}
TypeOK ==
  /\ pc \in [Threads -> Labels]
  /\ cv \in [Threads -> CVs] /\ cvLock \in Threads \cup {Nobody}
  /\ lock \in [CVs -> Threads \cup {Nobody}] /\ waitList \in [CVs -> Seq(Threads)]
  /\ sem \in [Threads -> {0, 1}] /\ target \in [Threads -> Threads \cup {Nobody}]
  /\ all \in [Threads -> BOOLEAN] /\ result \in [Threads -> BOOLEAN]

\* Who holds which mutex where.
HasCvLock(t) == pc[t] \in {"locked", "w_lock", "w_add", "w_unlock", "w_release"}
HasLock(t)   == pc[t] \in {"w_add", "w_unlock", "s_pop", "s_give", "s_unlock"}
MutexInv ==
  \A t \in Threads : /\ HasCvLock(t) => cvLock = t
                     /\ pc[t] \in {"out", "w_take", "w_relock"} => cvLock # t
                     /\ \A c \in CVs : lock[c] = t <=> HasLock(t) /\ cv[t] = c

\* A thread inside Wait, from the moment it is on the list to its wakeup, is owed
\* exactly one wakeup, and a thread that is not inside Wait is owed none: it is
\* once on the list that it waits on, or one thread is about to give its semaphore,
\* or the semaphore is given.  No signal is lost, doubled or given to a thread that
\* has gone.
InWaitLabels == {"w_unlock", "w_release", "w_take"}
InWait(t) == pc[t] \in InWaitLabels
OnList(t) == t \in Range(waitList[cv[t]])
Wakers(t) == {s \in Threads : pc[s] = "s_give" /\ target[s] = t}
OneWakeupOwed ==
  /\ \A c \in CVs : /\ IsInjective(waitList[c])
                    /\ \A t \in Range(waitList[c]) : InWait(t) /\ cv[t] = c
  /\ \A s \in Threads : pc[s] = "s_give" => target[s] \in Threads
  /\ \A t \in Threads :
       /\ InWait(t) => OnList(t) \/ Wakers(t) # {} \/ sem[t] = 1
       /\ Wakers(t) # {} => InWait(t) /\ ~OnList(t) /\ sem[t] = 0
       /\ \A s, r \in Wakers(t) : s = r
       /\ sem[t] = 1 => InWait(t) /\ ~OnList(t)

CondVarInv == TypeOK /\ MutexInv /\ OneWakeupOwed

\* A thread that is signalled comes back from Wait with CvLock, and a thread on a
\* list whose condition variable is broadcast comes back as well.
Woken(t) == pc[t] = "w_take" /\ (sem[t] = 1 \/ Wakers(t) # {})
Broadcast(c) == \E t \in Threads : pc[t] = "s_pop" /\ all[t] /\ cv[t] = c
SignalledReturns ==
  \A t \in Threads : Woken(t) \/ (OnList(t) /\ Broadcast(cv[t])) ~> pc[t] = "locked" /\ result[t]

\* A Wait with a timeout comes back with CvLock, signalled or not.
TimedWaitReturns ==
  \A t \in Threads : pc[t] = "w_take" ~> pc[t] = "locked"
=============================================================================
