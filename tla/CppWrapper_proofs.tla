--------------------------- MODULE CppWrapper_proofs --------------------------
(***************************************************************************)
(* Proofs about the C++ wrapper: condition variables (on the variables of  *)
(* ConditionVariable), tasklets, the work queue and the start of threads   *)
(* (on those of MCCppAddons).                                              *)
(***************************************************************************)
EXTENDS ConditionVariable, MCCppAddons, QueueLemmas, TLAPS

-----------------------------------------------------------------------------
(* Condition variables: as long as no wait times out, every waiting thread *)
(* is owed exactly one wakeup and no other thread is owed one.             *)

LEMMA CondVarInit == Init => CondVarInv
  <1> SUFFICES ASSUME Init PROVE CondVarInv
    OBVIOUS
  <1>1. TypeOK
    BY DEF Init, TypeOK, Labels
  <1>2. MutexInv
    BY NobodyAssumption DEF Init, MutexInv, HasCvLock, HasLock
  <1>3. OneWakeupOwed
    <2>1. \A t \in Threads : Wakers(t) = {} /\ ~InWait(t)
      BY DEF Init, Wakers, InWait, InWaitLabels
    <2> QED
      BY <2>1, EmptyQueue DEF Init, OneWakeupOwed
  <1> QED
    BY <1>1, <1>2, <1>3 DEF CondVarInv

\* A step that touches no list, no semaphore and no target, and that takes its
\* thread neither into nor out of Wait, leaves the wakeups as they are.
LEMMA QuietStep ==
  ASSUME CondVarInv, NEW t \in Threads, NEW l \in Labels, Goto(t, l),
         UNCHANGED <<waitList, sem, target>>, NEW c \in CVs,
         cv' = cv \/ (cv' = [cv EXCEPT ![t] = c] /\ ~InWait(t)),
         InWait(t) <=> l \in InWaitLabels, pc[t] # "s_give", l # "s_give"
  PROVE  OneWakeupOwed'
  <1> USE DEF CondVarInv, TypeOK, Goto
  <1>1. \A u \in Threads : InWait(u)' <=> InWait(u)
    BY DEF InWait
  <1>2. \A u \in Threads : Wakers(u)' = Wakers(u)
    BY DEF Wakers
  <1>3. \A u \in Threads : InWait(u) => cv'[u] = cv[u]
    OBVIOUS
  <1>4. \A d \in CVs : \A u \in Range(waitList[d]) : u \in Threads
    BY DEF Range
  <1>5. \A u \in Threads : InWait(u) => (OnList(u)' <=> OnList(u))
    BY <1>3 DEF OnList
  <1>6. \A s \in Threads : pc'[s] = "s_give" <=> pc[s] = "s_give"
    OBVIOUS
  <1> HIDE DEF CondVarInv, TypeOK, Goto
  <1>7. OneWakeupOwed
    BY DEF CondVarInv
  <1>8. \A d \in CVs : /\ IsInjective(waitList'[d])
                       /\ \A u \in Range(waitList'[d]) : InWait(u)' /\ cv'[u] = d
    BY <1>1, <1>3, <1>4, <1>7 DEF OneWakeupOwed
  <1>9. \A s \in Threads : pc'[s] = "s_give" => target'[s] \in Threads
    BY <1>6, <1>7 DEF OneWakeupOwed
  <1>10. ASSUME NEW u \in Threads
         PROVE  /\ InWait(u)' => OnList(u)' \/ Wakers(u)' # {} \/ sem'[u] = 1
                /\ Wakers(u)' # {} => InWait(u)' /\ ~OnList(u)' /\ sem'[u] = 0
                /\ \A s, r \in Wakers(u)' : s = r
                /\ sem'[u] = 1 => InWait(u)' /\ ~OnList(u)'
    BY <1>1, <1>2, <1>5, <1>7 DEF OneWakeupOwed
  <1> QED
    BY <1>8, <1>9, <1>10 DEF OneWakeupOwed

\* AddToWaitList: the new entry is the thread's only claim to a wakeup.
LEMMA AddStep ==
  ASSUME CondVarInv, NEW t \in Threads, WaitAdd(t)
  PROVE  OneWakeupOwed'
  <1> DEFINE c == cv[t]
  <1>0. c \in CVs /\ waitList[c] \in Seq(Threads) /\ OneWakeupOwed
    BY DEF CondVarInv, TypeOK
  <1>1. ~InWait(t) /\ Wakers(t) = {} /\ sem[t] = 0
    <2>1. ~InWait(t) /\ sem[t] \in {0, 1}
      BY DEF CondVarInv, TypeOK, WaitAdd, InWait, InWaitLabels
    <2> QED
      BY <1>0, <2>1 DEF OneWakeupOwed
  <1>2. \A d \in CVs : t \notin Range(waitList[d])
    BY <1>0, <1>1 DEF OneWakeupOwed
  <1>3. /\ \A u \in Threads : InWait(u)' <=> InWait(u) \/ u = t
        /\ \A u \in Threads : Wakers(u)' = Wakers(u)
        /\ \A s \in Threads : pc'[s] = "s_give" <=> pc[s] = "s_give"
        /\ UNCHANGED <<cv, sem, target>>
    BY DEF CondVarInv, TypeOK, WaitAdd, Goto, InWait, InWaitLabels, Wakers
  <1>4. /\ Range(waitList'[c]) = Range(waitList[c]) \cup {t} /\ IsInjective(waitList'[c])
        /\ \A d \in CVs \ {c} : waitList'[d] = waitList[d]
    <2>1. waitList' = [waitList EXCEPT ![c] = Append(waitList[c], t)] /\ waitList \in [CVs -> Seq(Threads)]
      BY DEF WaitAdd, CondVarInv, TypeOK
    <2>2. IsInjective(waitList[c])
      BY <1>0 DEF OneWakeupOwed
    <2> HIDE DEF c
    <2> QED
      BY <1>0, <1>2, <2>1, <2>2, AppendElement
  <1>5. \A d \in CVs : \A u \in Range(waitList[d]) : u \in Threads
    BY DEF Range, CondVarInv, TypeOK
  <1>6. \A d \in CVs : /\ IsInjective(waitList'[d])
                       /\ \A u \in Range(waitList'[d]) : InWait(u)' /\ cv'[u] = d
    BY <1>0, <1>3, <1>4, <1>5 DEF OneWakeupOwed
  <1>7. \A u \in Threads \ {t} : OnList(u)' <=> OnList(u)
    BY <1>3, <1>4 DEF OnList, CondVarInv, TypeOK
  <1>8. OnList(t)'
    BY <1>3, <1>4 DEF OnList
  <1>9. ASSUME NEW u \in Threads
        PROVE  /\ InWait(u)' => OnList(u)' \/ Wakers(u)' # {} \/ sem'[u] = 1
               /\ Wakers(u)' # {} => InWait(u)' /\ ~OnList(u)' /\ sem'[u] = 0
               /\ \A s, r \in Wakers(u)' : s = r
               /\ sem'[u] = 1 => InWait(u)' /\ ~OnList(u)'
    <2>1. CASE u = t
      BY <2>1, <1>1, <1>3, <1>8
    <2>2. CASE u # t
      BY <2>2, <1>0, <1>3, <1>7 DEF OneWakeupOwed
    <2> QED
      BY <2>1, <2>2
  <1> QED
    BY <1>0, <1>3, <1>6, <1>9 DEF OneWakeupOwed

\* ThreadWaitSem.Take: the wakeup is used up as the thread leaves Wait.
LEMMA TakeStep ==
  ASSUME CondVarInv, NEW t \in Threads, WaitTake(t)
  PROVE  OneWakeupOwed'
  <1>0. OneWakeupOwed
    BY DEF CondVarInv
  <1>1. InWait(t) /\ ~OnList(t) /\ Wakers(t) = {}
    BY <1>0 DEF WaitTake, OneWakeupOwed
  <1>2. /\ \A u \in Threads : InWait(u)' <=> InWait(u) /\ u # t
        /\ \A u \in Threads : Wakers(u)' = Wakers(u)
        /\ \A s \in Threads : pc'[s] = "s_give" <=> pc[s] = "s_give"
        /\ \A u \in Threads : sem'[u] = IF u = t THEN 0 ELSE sem[u]
        /\ UNCHANGED <<cv, waitList, target>>
    BY DEF CondVarInv, TypeOK, WaitTake, Goto, InWait, InWaitLabels, Wakers
  <1>3. \A d \in CVs : \A u \in Range(waitList[d]) : u \in Threads /\ u # t
    <2>1. \A d \in CVs : \A u \in Range(waitList[d]) : u \in Threads
      BY DEF Range, CondVarInv, TypeOK
    <2>2. \A d \in CVs : t \notin Range(waitList[d])
      BY <1>0, <1>1 DEF OneWakeupOwed, OnList
    <2> QED
      BY <2>1, <2>2
  <1>4. \A d \in CVs : /\ IsInjective(waitList'[d])
                       /\ \A u \in Range(waitList'[d]) : InWait(u)' /\ cv'[u] = d
    BY <1>0, <1>2, <1>3 DEF OneWakeupOwed
  <1>5. \A u \in Threads : OnList(u)' <=> OnList(u)
    BY <1>2 DEF OnList
  <1>6. ASSUME NEW u \in Threads
        PROVE  /\ InWait(u)' => OnList(u)' \/ Wakers(u)' # {} \/ sem'[u] = 1
               /\ Wakers(u)' # {} => InWait(u)' /\ ~OnList(u)' /\ sem'[u] = 0
               /\ \A s, r \in Wakers(u)' : s = r
               /\ sem'[u] = 1 => InWait(u)' /\ ~OnList(u)'
    BY <1>0, <1>1, <1>2, <1>5 DEF OneWakeupOwed
  <1> QED
    BY <1>0, <1>2, <1>4, <1>6 DEF OneWakeupOwed

\* Signal takes the head off the list: from now on the thread's wakeup is in the
\* signaller's hands.
LEMMA FirstStep ==
  ASSUME CondVarInv, NEW s \in Threads, SignalFirst(s)
  PROVE  OneWakeupOwed'
  <1> DEFINE c == cv[s]
             h == Head(waitList[c])
  <1>0. c \in CVs /\ waitList[c] \in Seq(Threads) /\ waitList[c] # <<>> /\ OneWakeupOwed
    BY DEF CondVarInv, TypeOK, SignalFirst
  <1>1. /\ h \in Threads /\ h \in Range(waitList[c])
        /\ Range(waitList[c]) = Range(Tail(waitList[c])) \cup {h}
        /\ IsInjective(Tail(waitList[c])) /\ h \notin Range(Tail(waitList[c]))
    <2>1. IsInjective(waitList[c])
      BY <1>0 DEF OneWakeupOwed
    <2> HIDE DEF c
    <2> QED
      BY <1>0, <2>1, TakeHead
  <1>2. InWait(h) /\ cv[h] = c /\ OnList(h) /\ Wakers(h) = {} /\ sem[h] = 0
    <2>1. InWait(h) /\ cv[h] = c
      BY <1>0, <1>1 DEF OneWakeupOwed
    <2>2. OnList(h)
      BY <1>1, <2>1 DEF OnList
    <2> QED
      BY <1>0, <1>1, <2>1, <2>2 DEF OneWakeupOwed, CondVarInv, TypeOK
  <1>3. /\ \A u \in Threads : InWait(u)' <=> InWait(u)
        /\ \A r \in Threads : pc'[r] = "s_give" <=> pc[r] = "s_give" \/ r = s
        /\ \A r \in Threads : target'[r] = IF r = s THEN h ELSE target[r]
        /\ pc[s] = "s_pop" /\ UNCHANGED <<cv, sem>>
    BY DEF CondVarInv, TypeOK, SignalFirst, Goto, InWait, InWaitLabels
  <1>4. \A u \in Threads : Wakers(u)' = IF u = h THEN {s} ELSE Wakers(u)
    BY <1>2, <1>3 DEF Wakers
  <1>5. /\ waitList'[c] = Tail(waitList[c])
        /\ \A d \in CVs \ {c} : waitList'[d] = waitList[d]
    BY <1>0 DEF SignalFirst, CondVarInv, TypeOK
  <1>6. \A d \in CVs : \A u \in Range(waitList[d]) : u \in Threads
    BY DEF Range, CondVarInv, TypeOK
  <1>7. \A d \in CVs : /\ IsInjective(waitList'[d])
                       /\ \A u \in Range(waitList'[d]) : InWait(u)' /\ cv'[u] = d
    BY <1>0, <1>1, <1>3, <1>5, <1>6 DEF OneWakeupOwed
  <1>8. \A u \in Threads : OnList(u)' <=> OnList(u) /\ u # h
    <2> SUFFICES ASSUME NEW u \in Threads PROVE OnList(u)' <=> OnList(u) /\ u # h
      OBVIOUS
    <2>1. CASE cv[u] = c
      BY <2>1, <1>1, <1>3, <1>5 DEF OnList
    <2>2. CASE cv[u] # c
      BY <2>2, <1>2, <1>3, <1>5 DEF OnList, CondVarInv, TypeOK
    <2> QED
      BY <2>1, <2>2
  <1>9. ASSUME NEW u \in Threads
        PROVE  /\ InWait(u)' => OnList(u)' \/ Wakers(u)' # {} \/ sem'[u] = 1
               /\ Wakers(u)' # {} => InWait(u)' /\ ~OnList(u)' /\ sem'[u] = 0
               /\ \A q, r \in Wakers(u)' : q = r
               /\ sem'[u] = 1 => InWait(u)' /\ ~OnList(u)'
    <2> HIDE DEF h, c
    <2>1. CASE u = h
      BY <2>1, <1>2, <1>3, <1>4, <1>8
    <2>2. CASE u # h
      BY <2>2, <1>0, <1>3, <1>4, <1>8 DEF OneWakeupOwed
    <2> QED
      BY <2>1, <2>2
  <1>10. \A r \in Threads : pc'[r] = "s_give" => target'[r] \in Threads
    BY <1>0, <1>1, <1>3 DEF OneWakeupOwed
  <1> QED
    BY <1>7, <1>9, <1>10 DEF OneWakeupOwed

\* thr->Signal(): the wakeup goes from the signaller to the semaphore.
LEMMA GiveStep ==
  ASSUME CondVarInv, NEW s \in Threads, SignalGive(s)
  PROVE  OneWakeupOwed'
  <1> DEFINE h == target[s]
  <1>0. OneWakeupOwed /\ h \in Threads /\ pc[s] = "s_give"
    BY DEF CondVarInv, SignalGive, OneWakeupOwed
  <1>1. s \in Wakers(h)
    BY <1>0 DEF Wakers
  <1>2. InWait(h) /\ ~OnList(h) /\ sem[h] = 0 /\ Wakers(h) = {s}
    BY <1>0, <1>1 DEF OneWakeupOwed
  <1>3. /\ \A u \in Threads : InWait(u)' <=> InWait(u)
        /\ \A r \in Threads : pc'[r] = "s_give" <=> pc[r] = "s_give" /\ r # s
        /\ \A r \in Threads : r # s => target'[r] = target[r]
        /\ \A u \in Threads : sem'[u] = IF u = h THEN 1 ELSE sem[u]
        /\ UNCHANGED <<cv, waitList>>
    BY <1>0 DEF CondVarInv, TypeOK, SignalGive, Goto, InWait, InWaitLabels
  <1>4. \A u \in Threads : Wakers(u)' = IF u = h THEN {} ELSE Wakers(u)
    BY <1>0, <1>2, <1>3 DEF Wakers
  <1>5. \A d \in CVs : \A u \in Range(waitList[d]) : u \in Threads
    BY DEF Range, CondVarInv, TypeOK
  <1>6. \A d \in CVs : /\ IsInjective(waitList'[d])
                       /\ \A u \in Range(waitList'[d]) : InWait(u)' /\ cv'[u] = d
    BY <1>0, <1>3, <1>5 DEF OneWakeupOwed
  <1>7. \A u \in Threads : OnList(u)' <=> OnList(u)
    BY <1>3 DEF OnList
  <1>8. ASSUME NEW u \in Threads
        PROVE  /\ InWait(u)' => OnList(u)' \/ Wakers(u)' # {} \/ sem'[u] = 1
               /\ Wakers(u)' # {} => InWait(u)' /\ ~OnList(u)' /\ sem'[u] = 0
               /\ \A q, r \in Wakers(u)' : q = r
               /\ sem'[u] = 1 => InWait(u)' /\ ~OnList(u)'
    <2> HIDE DEF h
    <2>1. CASE u = h
      BY <2>1, <1>2, <1>3, <1>4, <1>7
    <2>2. CASE u # h
      BY <2>2, <1>0, <1>3, <1>4, <1>7 DEF OneWakeupOwed
    <2> QED
      BY <2>1, <2>2
  <1> QED
    BY <1>0, <1>3, <1>6, <1>8 DEF OneWakeupOwed

\* Every other step is quiet.
LEMMA WakeupStep ==
  ASSUME CondVarInv, ~TimedWaits, NEW t \in Threads,
         Calls(t) \/ UnlockCv(t) \/ Waiting(t) \/ Signalling(t) \/ Acquiring(t)
  PROVE  OneWakeupOwed'
  <1> USE DEF InWait, InWaitLabels, Labels
  <1>0. cv[t] \in CVs
    BY DEF CondVarInv, TypeOK
  <1>1. CASE LockCv(t)
    BY <1>0, <1>1, QuietStep DEF LockCv
  <1>2. CASE UnlockCv(t)
    BY <1>0, <1>2, QuietStep DEF UnlockCv
  <1>3. CASE \E c \in CVs : CallWait(t, c) \/ CallSignal(t, c) \/ CallBroadcast(t, c)
    BY <1>3, QuietStep DEF CallWait, CallSignal, CallBroadcast
  <1>4. CASE WaitLock(t) \/ WaitRelock(t) \/ SignalLock(t)
    BY <1>0, <1>4, QuietStep DEF WaitLock, WaitRelock, SignalLock
  <1>5. CASE WaitUnlock(t) \/ WaitRelease(t)
    BY <1>0, <1>5, QuietStep DEF WaitUnlock, WaitRelease
  <1>6. CASE SignalNobody(t)
    BY <1>0, <1>6, QuietStep DEF SignalNobody
  <1>7. CASE SignalUnlock(t)
    <2>1. CASE cvLock = t
      BY <1>0, <1>7, <2>1, QuietStep DEF SignalUnlock
    <2>2. CASE cvLock # t
      BY <1>0, <1>7, <2>2, QuietStep DEF SignalUnlock
    <2> QED
      BY <2>1, <2>2
  <1>8. CASE WaitAdd(t)
    BY <1>8, AddStep
  <1>9. CASE WaitTake(t)
    BY <1>9, TakeStep
  <1>10. CASE SignalFirst(t)
    BY <1>10, FirstStep
  <1>11. CASE SignalGive(t)
    BY <1>11, GiveStep
  <1> QED
    BY <1>1, <1>2, <1>3, <1>4, <1>5, <1>6, <1>7, <1>8, <1>9, <1>10, <1>11
    DEF Calls, Waiting, Signalling, Acquiring, WaitTimesOut

LEMMA TypeStep ==
  ASSUME CondVarInv, NEW t \in Threads,
         Calls(t) \/ UnlockCv(t) \/ Waiting(t) \/ Signalling(t) \/ Acquiring(t)
  PROVE  TypeOK'
  <1> USE DEF TypeOK, Labels, Goto
  <1>0. TypeOK
    BY DEF CondVarInv
  <1>1. CASE LockCv(t) \/ UnlockCv(t)
    BY <1>0, <1>1 DEF LockCv, UnlockCv
  <1>2. CASE \E c \in CVs : CallWait(t, c) \/ CallSignal(t, c) \/ CallBroadcast(t, c)
    <2> PICK c \in CVs : CallWait(t, c) \/ CallSignal(t, c) \/ CallBroadcast(t, c)
      BY <1>2
    <2>1. CASE CallWait(t, c)
      BY <1>0, <2>1 DEF CallWait
    <2>2. CASE CallSignal(t, c)
      BY <1>0, <2>2 DEF CallSignal
    <2>3. CASE CallBroadcast(t, c)
      BY <1>0, <2>3 DEF CallBroadcast
    <2> QED
      BY <2>1, <2>2, <2>3
  <1>3. CASE WaitLock(t) \/ WaitRelock(t) \/ SignalLock(t)
    <2>1. CASE WaitLock(t)
      BY <1>0, <2>1 DEF WaitLock
    <2>2. CASE WaitRelock(t)
      BY <1>0, <2>2 DEF WaitRelock
    <2>3. CASE SignalLock(t)
      BY <1>0, <2>3 DEF SignalLock
    <2> QED
      BY <1>3, <2>1, <2>2, <2>3
  <1>4. CASE WaitUnlock(t) \/ WaitRelease(t) \/ WaitTake(t) \/ WaitTimesOut(t)
    BY <1>0, <1>4 DEF WaitUnlock, WaitRelease, WaitTake, WaitTimesOut
  <1>5. CASE SignalNobody(t) \/ SignalUnlock(t)
    BY <1>0, <1>5 DEF SignalNobody, SignalUnlock
  <1>6. CASE WaitAdd(t)
    <2>1. cv[t] \in CVs /\ Append(waitList[cv[t]], t) \in Seq(Threads)
      BY <1>0, AppendElement
    <2>2. waitList' \in [CVs -> Seq(Threads)]
      BY <1>0, <1>6, <2>1 DEF WaitAdd
    <2> QED
      BY <1>0, <1>6, <2>2 DEF WaitAdd
  <1>7. CASE SignalFirst(t)
    <2>1. /\ cv[t] \in CVs /\ waitList[cv[t]] \in Seq(Threads) /\ waitList[cv[t]] # <<>>
      BY <1>0, <1>7 DEF SignalFirst
    <2>2. Head(waitList[cv[t]]) \in Threads /\ Tail(waitList[cv[t]]) \in Seq(Threads)
      BY <2>1, TakeHead
    <2>3. waitList' \in [CVs -> Seq(Threads)] /\ target' \in [Threads -> Threads \cup {Nobody}]
      BY <1>0, <1>7, <2>1, <2>2 DEF SignalFirst
    <2> QED
      BY <1>0, <1>7, <2>3 DEF SignalFirst
  <1>8. CASE SignalGive(t)
    BY <1>0, <1>8 DEF SignalGive
  <1> QED
    BY <1>1, <1>2, <1>3, <1>4, <1>5, <1>6, <1>7, <1>8 DEF Calls, Waiting, Signalling, Acquiring

LEMMA MutexStep ==
  ASSUME CondVarInv, NEW t \in Threads,
         Calls(t) \/ UnlockCv(t) \/ Waiting(t) \/ Signalling(t) \/ Acquiring(t)
  PROVE  MutexInv'
  <1> USE NobodyAssumption DEF TypeOK, MutexInv, HasCvLock, HasLock, Labels, Goto
  <1>0. TypeOK /\ MutexInv
    BY DEF CondVarInv
  <1>1. CASE LockCv(t)
    BY <1>0, <1>1 DEF LockCv
  <1>2. CASE UnlockCv(t)
    BY <1>0, <1>2 DEF UnlockCv
  <1>3. CASE \E c \in CVs : CallWait(t, c) \/ CallSignal(t, c) \/ CallBroadcast(t, c)
    <2> PICK c \in CVs : CallWait(t, c) \/ CallSignal(t, c) \/ CallBroadcast(t, c)
      BY <1>3
    <2>1. CASE CallWait(t, c)
      BY <1>0, <2>1 DEF CallWait
    <2>2. CASE CallSignal(t, c)
      BY <1>0, <2>2 DEF CallSignal
    <2>3. CASE CallBroadcast(t, c)
      BY <1>0, <2>3 DEF CallBroadcast
    <2> QED
      BY <2>1, <2>2, <2>3
  <1>4. CASE WaitLock(t)
    BY <1>0, <1>4 DEF WaitLock
  <1>5. CASE WaitRelock(t)
    BY <1>0, <1>5 DEF WaitRelock
  <1>6. CASE SignalLock(t)
    BY <1>0, <1>6 DEF SignalLock
  <1>7. CASE WaitUnlock(t)
    BY <1>0, <1>7 DEF WaitUnlock
  <1>8. CASE WaitRelease(t)
    BY <1>0, <1>8 DEF WaitRelease
  <1>9. CASE WaitTake(t) \/ WaitTimesOut(t)
    BY <1>0, <1>9 DEF WaitTake, WaitTimesOut
  <1>10. CASE WaitAdd(t)
    BY <1>0, <1>10 DEF WaitAdd
  <1>11. CASE SignalFirst(t) \/ SignalNobody(t) \/ SignalGive(t)
    BY <1>0, <1>11 DEF SignalFirst, SignalNobody, SignalGive
  <1>12. CASE SignalUnlock(t)
    BY <1>0, <1>12 DEF SignalUnlock
  <1> QED
    BY <1>1, <1>2, <1>3, <1>4, <1>5, <1>6, <1>7, <1>8, <1>9, <1>10, <1>11, <1>12
    DEF Calls, Waiting, Signalling, Acquiring

\* As long as no wait times out, CondVarInv is an invariant for any threads and any
\* condition variables: the mutexes have one holder, and every thread inside Wait is
\* owed exactly one wakeup (AddToWaitList, Signal, Broadcast, Thread::Wait).
THEOREM WakeupsAreOwed == ASSUME ~TimedWaits PROVE Spec => []CondVarInv
  <1>1. Init => CondVarInv
    BY CondVarInit
  <1>2. CondVarInv /\ [Next]_vars => CondVarInv'
    <2> SUFFICES ASSUME CondVarInv, [Next]_vars PROVE CondVarInv'
      OBVIOUS
    <2>1. CASE Next
      BY <2>1, TypeStep, MutexStep, WakeupStep DEF Next, CondVarInv
    <2>2. CASE UNCHANGED vars
      BY <2>2 DEF vars, CondVarInv, TypeOK, MutexInv, HasCvLock, HasLock, OneWakeupOwed,
                  InWait, OnList, Wakers
    <2> QED
      BY <2>1, <2>2
  <1> QED
    BY <1>1, <1>2, PTL DEF Spec

-----------------------------------------------------------------------------
(* Tasklets: DtorLock is one token, for any tasklets, any threads and any  *)
(* length of the timer task's queue.                                       *)

LEMMA TaskRange == \A s : Task!Range(s) = Range(s) /\ (Task!IsInjective(s) <=> IsInjective(s))
  BY DEF Range, Task!Range, IsInjective, Task!IsInjective

LEMMA TaskletInit == Task!Init => Task!TaskletInv
  <1> SUFFICES ASSUME Task!Init PROVE Task!TaskletInv
    OBVIOUS
  <1>1. Task!TypeOK /\ Task!TimerInv
    BY DEF Task!Init, Task!TypeOK, Task!TimerInv
  <1>2. \A k \in Tasklets : Task!CallersWith(k) = {} /\ ~Task!DtorHasToken(k) /\ t_sem[k] = 1 /\ t_current # k
    BY TaskletConstants
       DEF Task!ConstantsAssumption, Task!Init, Task!CallersWith, Task!HasToken, Task!DtorHasToken
  <1>3. Range(t_queue) = {} /\ IsInjective(t_queue)
    BY EmptyQueue DEF Task!Init
  <1>4. \A k \in Tasklets : \A c \in Task!Callers : t_pc[c] = "out"
    BY DEF Task!Init
  <1> QED
    BY <1>1, <1>2, <1>3, <1>4, TaskRange DEF Task!TaskletInv, Task!OneToken

-----------------------------------------------------------------------------
(* The steps of Schedule and ScheduleFromISR.                              *)

LEMMA TaskletCallStep ==
  ASSUME Task!TaskletInv, NEW c \in Task!Callers, NEW k \in Tasklets, Task!CallSchedule(c, k)
  PROVE  Task!TaskletInv'
  <1>0. Task!TypeOK /\ Task!TimerInv /\ Task!OneToken
    BY DEF Task!TaskletInv
  <1>1. Task!TypeOK' /\ Task!TimerInv'
    BY <1>0 DEF Task!TypeOK, Task!TimerInv, Task!CallSchedule, Task!Goto, Task!timerVars
  <1>2. \A j \in Tasklets : Task!CallersWith(j)' = Task!CallersWith(j)
    BY <1>0 DEF Task!TypeOK, Task!CallersWith, Task!HasToken, Task!CallSchedule, Task!Goto
  <1>3. \A j \in Tasklets : t_dtorPc[j] # "alive" => \A d \in Task!Callers : t_pc'[d] # "out" => t_arg'[d] # j
    BY <1>0, TaskRange DEF Task!TypeOK, Task!OneToken, Task!CallSchedule, Task!Goto
  <1>4. UNCHANGED <<t_sem, t_queue, t_current, t_dtorPc>>
    BY DEF Task!CallSchedule, Task!timerVars
  <1> QED
    BY <1>0, <1>1, <1>2, <1>3, <1>4, TaskRange DEF Task!TaskletInv, Task!OneToken, Task!DtorHasToken

\* The token goes from the semaphore to the caller.
LEMMA TaskletTakeStep ==
  ASSUME Task!TaskletInv, NEW c \in Task!Callers, NEW k \in Tasklets, t_sem[k] = 1, t_dtorPc[k] # "deleted",
         t_sem' = [t_sem EXCEPT ![k] = 0], t_pc' = [t_pc EXCEPT ![c] = "pend"],
         \/ t_pc[c] = "take" /\ t_arg[c] = k /\ t_arg' = t_arg
         \/ t_pc[c] = "out" /\ t_dtorPc[k] = "alive" /\ t_arg' = [t_arg EXCEPT ![c] = k],
         UNCHANGED <<t_dtorPc, t_queue, t_timerPc, t_current>>
  PROVE  Task!TaskletInv'
  <1>0. Task!TypeOK /\ Task!TimerInv /\ Task!OneToken
    BY DEF Task!TaskletInv
  <1>1. Task!TypeOK' /\ Task!TimerInv'
    BY <1>0 DEF Task!TypeOK, Task!TimerInv
  <1>2. Task!CallersWith(k) = {} /\ k \notin Range(t_queue) /\ t_current # k /\ ~Task!DtorHasToken(k)
    BY <1>0, TaskRange DEF Task!OneToken
  <1>3. \A j \in Tasklets : Task!CallersWith(j)' = IF j = k THEN {c} ELSE Task!CallersWith(j)
    BY <1>0, <1>2 DEF Task!TypeOK, Task!CallersWith, Task!HasToken
  <1>4. \A j \in Tasklets : t_dtorPc[j] # "alive" => \A d \in Task!Callers : t_pc'[d] # "out" => t_arg'[d] # j
    BY <1>0, TaskRange DEF Task!TypeOK, Task!OneToken
  <1>5. \A j \in Tasklets : t_sem'[j] = IF j = k THEN 0 ELSE t_sem[j]
    BY <1>0 DEF Task!TypeOK
  <1> QED
    BY <1>0, <1>1, <1>2, <1>3, <1>4, <1>5, TaskRange
       DEF Task!TaskletInv, Task!OneToken, Task!DtorHasToken

\* The token goes from the caller to the queue.
LEMMA TaskletPendStep ==
  ASSUME Task!TaskletInv, NEW c \in Task!Callers, Task!Pend(c)
  PROVE  Task!TaskletInv'
  <1> DEFINE k == t_arg[c]
  <1>0. Task!TypeOK /\ Task!TimerInv /\ Task!OneToken /\ k \in Tasklets
    BY DEF Task!TaskletInv, Task!TimerInv, Task!Pend
  <1>1. c \in Task!CallersWith(k) /\ t_sem[k] \in {0, 1}
    BY <1>0 DEF Task!CallersWith, Task!HasToken, Task!Pend, Task!TypeOK
  <1>2. Task!CallersWith(k) = {c} /\ k \notin Range(t_queue) /\ t_current # k /\ t_sem[k] = 0
    BY <1>0, <1>1, TaskRange DEF Task!OneToken
  <1>3. t_queue \in Seq(Tasklets) /\ IsInjective(t_queue)
    BY <1>0, TaskRange DEF Task!TypeOK, Task!OneToken
  <1>4. /\ t_queue' \in Seq(Tasklets) /\ Range(t_queue') = Range(t_queue) \cup {k} /\ IsInjective(t_queue')
    BY <1>0, <1>2, <1>3, AppendElement DEF Task!Pend
  <1>5. Task!TypeOK' /\ Task!TimerInv'
    BY <1>0, <1>4 DEF Task!TypeOK, Task!TimerInv, Task!Pend, Task!Goto, Task!timerVars
  <1>6. \A j \in Tasklets : Task!CallersWith(j)' = IF j = k THEN {} ELSE Task!CallersWith(j)
    BY <1>0, <1>2 DEF Task!TypeOK, Task!CallersWith, Task!HasToken, Task!Pend, Task!Goto
  <1>7. \A j \in Tasklets : t_dtorPc[j] # "alive" => \A d \in Task!Callers : t_pc'[d] # "out" => t_arg'[d] # j
    BY <1>0, TaskRange DEF Task!TypeOK, Task!OneToken, Task!Pend, Task!Goto
  <1>8. ~Task!DtorHasToken(k)
    BY <1>0, <1>1, TaskRange DEF Task!OneToken, Task!DtorHasToken, Task!Pend
  <1>9. UNCHANGED <<t_sem, t_dtorPc, t_current>>
    BY DEF Task!Pend, Task!timerVars
  <1> HIDE DEF k
  <1> QED
    BY <1>0, <1>2, <1>4, <1>5, <1>6, <1>7, <1>8, <1>9, TaskRange
       DEF Task!TaskletInv, Task!OneToken, Task!DtorHasToken

LEMMA TaskletPendFailsStep ==
  ASSUME Task!TaskletInv, NEW c \in Task!Callers, Task!PendFails(c)
  PROVE  Task!TaskletInv'
  <1>0. Task!TypeOK /\ Task!TimerInv /\ Task!OneToken
    BY DEF Task!TaskletInv
  <1>1. Task!TypeOK' /\ Task!TimerInv'
    BY <1>0 DEF Task!TypeOK, Task!TimerInv, Task!PendFails, Task!Goto, Task!timerVars
  <1>2. \A j \in Tasklets : Task!CallersWith(j)' = Task!CallersWith(j)
    BY <1>0 DEF Task!TypeOK, Task!CallersWith, Task!HasToken, Task!PendFails, Task!Goto
  <1>3. \A j \in Tasklets : t_dtorPc[j] # "alive" => \A d \in Task!Callers : t_pc'[d] # "out" => t_arg'[d] # j
    BY <1>0, TaskRange DEF Task!TypeOK, Task!OneToken, Task!PendFails, Task!Goto
  <1>4. UNCHANGED <<t_sem, t_queue, t_current, t_dtorPc>>
    BY DEF Task!PendFails, Task!timerVars
  <1> QED
    BY <1>0, <1>1, <1>2, <1>3, <1>4, TaskRange DEF Task!TaskletInv, Task!OneToken, Task!DtorHasToken

\* The token goes from the caller back to the semaphore.
LEMMA TaskletGiveBackStep ==
  ASSUME Task!TaskletInv, NEW c \in Task!Callers, Task!GiveBack(c)
  PROVE  Task!TaskletInv'
  <1> DEFINE k == t_arg[c]
  <1>0. Task!TypeOK /\ Task!TimerInv /\ Task!OneToken /\ k \in Tasklets
    BY DEF Task!TaskletInv, Task!TimerInv, Task!GiveBack
  <1>1. c \in Task!CallersWith(k)
    BY <1>0 DEF Task!CallersWith, Task!HasToken, Task!GiveBack
  <1>2. Task!CallersWith(k) = {c} /\ k \notin Range(t_queue) /\ t_current # k
    BY <1>0, <1>1, TaskRange DEF Task!OneToken
  <1>3. ~Task!DtorHasToken(k)
    BY <1>0, <1>1, TaskRange DEF Task!OneToken, Task!DtorHasToken, Task!GiveBack
  <1>4. Task!TypeOK' /\ Task!TimerInv'
    BY <1>0 DEF Task!TypeOK, Task!TimerInv, Task!GiveBack, Task!Goto, Task!timerVars
  <1>5. \A j \in Tasklets : Task!CallersWith(j)' = IF j = k THEN {} ELSE Task!CallersWith(j)
    BY <1>0, <1>2 DEF Task!TypeOK, Task!CallersWith, Task!HasToken, Task!GiveBack, Task!Goto
  <1>6. \A j \in Tasklets : t_dtorPc[j] # "alive" => \A d \in Task!Callers : t_pc'[d] # "out" => t_arg'[d] # j
    BY <1>0, TaskRange DEF Task!TypeOK, Task!OneToken, Task!GiveBack, Task!Goto
  <1>7. /\ \A j \in Tasklets : t_sem'[j] = IF j = k THEN 1 ELSE t_sem[j]
        /\ UNCHANGED <<t_queue, t_dtorPc, t_current>>
    BY <1>0 DEF Task!GiveBack, Task!timerVars, Task!TypeOK
  <1> HIDE DEF k
  <1> QED
    BY <1>0, <1>2, <1>3, <1>4, <1>5, <1>6, <1>7, TaskRange
       DEF Task!TaskletInv, Task!OneToken, Task!DtorHasToken

-----------------------------------------------------------------------------
(* The steps of the timer task.                                            *)

\* The token goes from the queue to the timer task.
LEMMA TaskletReceiveStep ==
  ASSUME Task!TaskletInv, Task!TimerReceives
  PROVE  Task!TaskletInv'
  <1> DEFINE k == Head(t_queue)
  <1>0. Task!TypeOK /\ Task!TimerInv /\ Task!OneToken
    BY DEF Task!TaskletInv
  <1>1. t_queue \in Seq(Tasklets) /\ t_queue # <<>> /\ IsInjective(t_queue) /\ t_current = NoTasklet
    BY <1>0, TaskRange DEF Task!TypeOK, Task!OneToken, Task!TimerReceives, Task!TimerInv
  <1>2. /\ k \in Tasklets /\ k \in Range(t_queue) /\ t_queue' \in Seq(Tasklets)
        /\ Range(t_queue) = Range(t_queue') \cup {k} /\ IsInjective(t_queue') /\ k \notin Range(t_queue')
    BY <1>1, TakeHead DEF Task!TimerReceives
  <1>3. Task!TypeOK' /\ Task!TimerInv'
    BY <1>0, <1>2, TaskletConstants
       DEF Task!ConstantsAssumption, Task!TypeOK, Task!TimerInv, Task!TimerReceives, Task!callVars
  <1>4. /\ t_current' = k /\ UNCHANGED <<t_pc, t_arg, t_sem, t_dtorPc>>
    BY DEF Task!TimerReceives, Task!callVars
  <1>5. \A j \in Tasklets : Task!CallersWith(j)' = Task!CallersWith(j)
    BY <1>4 DEF Task!CallersWith, Task!HasToken
  <1> HIDE DEF k
  <1> QED
    BY <1>0, <1>1, <1>2, <1>3, <1>4, <1>5, TaskletConstants, TaskRange
       DEF Task!ConstantsAssumption, Task!TaskletInv, Task!OneToken, Task!DtorHasToken

LEMMA TaskletRunReturnsStep ==
  ASSUME Task!TaskletInv, Task!RunReturns
  PROVE  Task!TaskletInv'
  BY TaskRange
     DEF Task!TaskletInv, Task!TypeOK, Task!TimerInv, Task!OneToken, Task!RunReturns,
         Task!callVars, Task!CallersWith, Task!HasToken, Task!DtorHasToken

\* The token goes from the timer task back to the semaphore.
LEMMA TaskletAdapterStep ==
  ASSUME Task!TaskletInv, Task!AdapterGives
  PROVE  Task!TaskletInv'
  <1>0. Task!TypeOK /\ Task!TimerInv /\ Task!OneToken
    BY DEF Task!TaskletInv
  <1>1. t_current \in Tasklets
    BY <1>0 DEF Task!TypeOK, Task!TimerInv, Task!AdapterGives
  <1>2. Task!TypeOK' /\ Task!TimerInv'
    BY <1>0, <1>1 DEF Task!TypeOK, Task!TimerInv, Task!AdapterGives, Task!callVars
  <1>3. Task!CallersWith(t_current) = {} /\ t_current \notin Range(t_queue) /\ ~Task!DtorHasToken(t_current)
    BY <1>0, <1>1, TaskRange DEF Task!OneToken
  <1>4. /\ t_current' = NoTasklet /\ UNCHANGED <<t_pc, t_arg, t_dtorPc, t_queue>>
        /\ \A j \in Tasklets : t_sem'[j] = IF j = t_current THEN 1 ELSE t_sem[j]
    BY <1>0 DEF Task!AdapterGives, Task!callVars, Task!TypeOK
  <1>5. \A j \in Tasklets : Task!CallersWith(j)' = Task!CallersWith(j)
    BY <1>4 DEF Task!CallersWith, Task!HasToken
  <1> QED
    BY <1>0, <1>1, <1>2, <1>3, <1>4, <1>5, TaskletConstants, TaskRange
       DEF Task!ConstantsAssumption, Task!TaskletInv, Task!OneToken, Task!DtorHasToken

-----------------------------------------------------------------------------
(* The steps of the destructor.                                            *)

LEMMA TaskletCallDtorStep ==
  ASSUME Task!TaskletInv, NEW k \in Tasklets, Task!CallDtor(k)
  PROVE  Task!TaskletInv'
  <1>0. Task!TypeOK /\ Task!TimerInv /\ Task!OneToken
    BY DEF Task!TaskletInv
  <1>1. Task!TypeOK' /\ Task!TimerInv'
    BY <1>0 DEF Task!TypeOK, Task!TimerInv, Task!CallDtor, Task!callVars, Task!timerVars
  <1>2. UNCHANGED <<t_pc, t_arg, t_sem, t_queue, t_current>>
    BY DEF Task!CallDtor, Task!callVars, Task!timerVars
  <1>3. \A j \in Tasklets : /\ Task!CallersWith(j)' = Task!CallersWith(j) /\ Task!DtorHasToken(j)' = Task!DtorHasToken(j)
                            /\ t_dtorPc'[j] # "alive" => t_dtorPc[j] # "alive" \/ j = k
    BY <1>0, <1>2 DEF Task!TypeOK, Task!CallersWith, Task!HasToken, Task!DtorHasToken, Task!CallDtor
  <1>4. \A c \in Task!Callers : t_pc[c] # "out" => t_arg[c] # k
    BY DEF Task!CallDtor
  <1> QED
    BY <1>0, <1>1, <1>2, <1>3, <1>4, TaskRange DEF Task!TaskletInv, Task!OneToken

\* The token goes from the semaphore to the destructor, for good.
LEMMA TaskletDtorTakeStep ==
  ASSUME Task!TaskletInv, NEW k \in Tasklets, Task!DtorTake(k)
  PROVE  Task!TaskletInv'
  <1>0. Task!TypeOK /\ Task!TimerInv /\ Task!OneToken
    BY DEF Task!TaskletInv
  <1>1. Task!TypeOK' /\ Task!TimerInv'
    BY <1>0 DEF Task!TypeOK, Task!TimerInv, Task!DtorTake, Task!callVars, Task!timerVars
  <1>2. Task!CallersWith(k) = {} /\ k \notin Range(t_queue) /\ t_current # k /\ t_dtorPc[k] # "alive"
    BY <1>0, TaskRange DEF Task!OneToken, Task!DtorTake
  <1>3. UNCHANGED <<t_pc, t_arg, t_queue, t_current>>
    BY DEF Task!DtorTake, Task!callVars, Task!timerVars
  <1>4. \A j \in Tasklets : /\ Task!CallersWith(j)' = Task!CallersWith(j)
                            /\ Task!DtorHasToken(j)' <=> Task!DtorHasToken(j) \/ j = k
                            /\ t_dtorPc'[j] # "alive" <=> t_dtorPc[j] # "alive"
                            /\ t_sem'[j] = IF j = k THEN 0 ELSE t_sem[j]
    BY <1>0, <1>2, <1>3
       DEF Task!TypeOK, Task!CallersWith, Task!HasToken, Task!DtorHasToken, Task!DtorTake
  <1> QED
    BY <1>0, <1>1, <1>2, <1>3, <1>4, TaskRange DEF Task!TaskletInv, Task!OneToken

LEMMA TaskletDtorDeleteStep ==
  ASSUME Task!TaskletInv, NEW k \in Tasklets, Task!DtorDelete(k)
  PROVE  Task!TaskletInv'
  <1>0. Task!TypeOK /\ Task!TimerInv /\ Task!OneToken
    BY DEF Task!TaskletInv
  <1>1. Task!TypeOK' /\ Task!TimerInv'
    BY <1>0 DEF Task!TypeOK, Task!TimerInv, Task!DtorDelete, Task!callVars, Task!timerVars
  <1>2. UNCHANGED <<t_pc, t_arg, t_sem, t_queue, t_current>>
    BY DEF Task!DtorDelete, Task!callVars, Task!timerVars
  <1>3. \A j \in Tasklets : /\ Task!CallersWith(j)' = Task!CallersWith(j) /\ Task!DtorHasToken(j)' = Task!DtorHasToken(j)
                            /\ t_dtorPc'[j] # "alive" <=> t_dtorPc[j] # "alive"
    BY <1>0, <1>2
       DEF Task!TypeOK, Task!CallersWith, Task!HasToken, Task!DtorHasToken, Task!DtorDelete
  <1> QED
    BY <1>0, <1>1, <1>2, <1>3, TaskRange DEF Task!TaskletInv, Task!OneToken

-----------------------------------------------------------------------------
LEMMA TaskletSchedulingStep ==
  ASSUME Task!TaskletInv, NEW c \in Task!Callers, Task!Scheduling(c)
  PROVE  Task!TaskletInv'
  <1>1. CASE Task!TakeLock(c)
    <2>1. t_arg[c] \in Tasklets /\ t_dtorPc[t_arg[c]] = "alive"
      BY <1>1, TaskRange DEF Task!TaskletInv, Task!TimerInv, Task!OneToken, Task!TakeLock
    <2> QED
      BY <1>1, <2>1, TaskletTakeStep DEF Task!TakeLock, Task!Goto, Task!timerVars
  <1>2. CASE Task!Pend(c)
    BY <1>2, TaskletPendStep
  <1>3. CASE Task!PendFails(c)
    BY <1>3, TaskletPendFailsStep
  <1>4. CASE Task!GiveBack(c)
    BY <1>4, TaskletGiveBackStep
  <1> QED
    BY <1>1, <1>2, <1>3, <1>4 DEF Task!Scheduling

\* For any tasklets, threads and queue length, also if tasklets schedule tasklets,
\* TaskletInv is an invariant: DtorLock is one token, so a tasklet is under way at most
\* once and not deleted while it is (Schedule, ScheduleFromISR, TaskletAdapterFunction,
\* CheckForSafeDelete).
THEOREM TaskletTurns == Task!Spec => []TaskletsTakeTurns
  <1>1. Task!Init => Task!TaskletInv
    BY TaskletInit
  <1>2. Task!TaskletInv /\ [Task!Next]_(Task!vars) => Task!TaskletInv'
    <2> SUFFICES ASSUME Task!TaskletInv, [Task!Next]_(Task!vars) PROVE Task!TaskletInv'
      OBVIOUS
    <2>1. CASE \E c \in Task!Callers : Task!Scheduling(c) \/ \E k \in Tasklets : Task!CallSchedule(c, k)
      BY <2>1, TaskletSchedulingStep, TaskletCallStep
    <2>2. CASE Task!TimerGoesOn
      BY <2>2, TaskletReceiveStep, TaskletRunReturnsStep, TaskletAdapterStep DEF Task!TimerGoesOn
    <2>3. ASSUME NEW k \in Tasklets, Task!IsrTakeLock(k) PROVE Task!TaskletInv'
      BY <2>3, TaskletTakeStep DEF Task!IsrTakeLock, Task!Goto, Task!timerVars, Task!Callers
    <2>4. CASE \E k \in Tasklets : Task!CallDtor(k) \/ Task!Deleting(k)
      BY <2>4, TaskletCallDtorStep, TaskletDtorTakeStep, TaskletDtorDeleteStep DEF Task!Deleting
    <2>5. CASE UNCHANGED Task!vars
      BY <2>5, TaskRange
         DEF Task!vars, Task!callVars, Task!timerVars, Task!TaskletInv, Task!TypeOK,
             Task!TimerInv, Task!OneToken, Task!CallersWith,
                  Task!HasToken, Task!DtorHasToken
    <2> QED
      BY <2>1, <2>2, <2>3, <2>4, <2>5 DEF Task!Next
  <1> QED
    BY <1>1, <1>2, PTL DEF Task!Spec, Task!vars, TaskletsTakeTurns

-----------------------------------------------------------------------------
(* The start of threads.                                                   *)

LEMMA ThreadInit == Thread!Init => Thread!ThreadInv
  <1> SUFFICES ASSUME Thread!Init PROVE Thread!ThreadInv
    OBVIOUS
  <1>1. Thread!TypeOK
    BY DEF Thread!Init, Thread!TypeOK
  <1>2. \A o \in Objects : Thread!Creating(o) = {} /\ s_tasks[o] = 0
    BY DEF Thread!Init, Thread!Creating
  <1>3. Thread!AloneInStart
    BY DEF Thread!Init, Thread!AloneInStart
  <1> QED
    BY <1>1, <1>2, <1>3 DEF Thread!ThreadInv, Thread!OneTaskEach

\* A step of c that does not create: it goes on to create the object only if nobody else
\* is about to and no task was made.
LEMMA ThreadMoves ==
  ASSUME Thread!ThreadInv, Thread!TypeOK', NEW c \in Starters, NEW l, s_pc' = [s_pc EXCEPT ![c] = l],
         \A d \in Starters : d # c => s_object'[d] = s_object[d],
         UNCHANGED s_tasks, \A o \in Objects : s_started[o] => s_started'[o],
         l \in {"set", "create"} =>
           /\ s_object'[c] = s_object[c]
           /\ Thread!Creating(s_object[c]) \subseteq {c} /\ s_tasks[s_object[c]] = 0
  PROVE  Thread!OneTaskEach'
  <1>1. Thread!TypeOK /\ Thread!OneTaskEach
    BY DEF Thread!ThreadInv, Thread!OneTaskEach
  <1>2. ASSUME NEW o \in Objects
        PROVE  /\ \A d, e \in Thread!Creating(o)' : d = e
               /\ s_tasks'[o] <= 1
               /\ s_tasks'[o] = 1 => Thread!Creating(o)' = {} /\ s_started'[o]
    <2>1. CASE l \in {"set", "create"} /\ s_object[c] = o
      <3>1. Thread!Creating(o)' \subseteq {c} /\ s_tasks'[o] = 0
        BY <1>1, <2>1 DEF Thread!TypeOK, Thread!Creating
      <3> QED
        BY <3>1
    <2>2. CASE ~(l \in {"set", "create"} /\ s_object[c] = o)
      <3>1. Thread!Creating(o)' \subseteq Thread!Creating(o)
        BY <1>1, <2>2 DEF Thread!TypeOK, Thread!Creating
      <3> QED
        BY <1>1, <3>1 DEF Thread!OneTaskEach
    <2> QED
      BY <2>1, <2>2
  <1> QED
    BY <1>2 DEF Thread!OneTaskEach

LEMMA ThreadStep ==
  ASSUME Thread!ThreadInv, [Thread!Next]_(Thread!vars)
  PROVE  Thread!ThreadInv'
  <1>0. Thread!TypeOK /\ Thread!OneTaskEach /\ Thread!AloneInStart
    BY DEF Thread!ThreadInv, Thread!OneTaskEach
  <1>1. CASE Thread!StartScheduler
    <2>1. Thread!TypeOK' /\ Thread!AloneInStart'
      BY <1>0, <1>1, ThreadConstants
         DEF Thread!StartScheduler, Thread!TypeOK, Thread!AloneInStart, Thread!ConstantsAssumption
    <2> QED
      BY <1>0, <1>1, <2>1
         DEF Thread!StartScheduler, Thread!ThreadInv, Thread!OneTaskEach, Thread!Creating
  <1>2. ASSUME NEW c \in Starters, NEW o \in Objects, Thread!CallStart(c, o) PROVE Thread!ThreadInv'
    <2>1. Thread!TypeOK'
      BY <1>0, <1>2 DEF Thread!CallStart, Thread!TypeOK, Thread!Goto
    <2>2. Thread!AloneInStart'
      BY <1>0, <1>2, ThreadConstants
         DEF Thread!CallStart, Thread!TypeOK, Thread!Goto, Thread!AloneInStart,
             Thread!ConstantsAssumption
    <2>3. Thread!OneTaskEach'
      BY <1>0, <1>2, <2>1, ThreadMoves DEF Thread!CallStart, Thread!TypeOK, Thread!Goto
    <2> QED
      BY <2>2, <2>3 DEF Thread!ThreadInv
  <1>3. ASSUME NEW c \in Starters, Thread!Lock(c) PROVE Thread!ThreadInv'
    <2>1. Thread!TypeOK'
      BY <1>0, <1>3 DEF Thread!Lock, Thread!TypeOK, Thread!Goto
    <2>2. Thread!AloneInStart'
      BY <1>0, <1>3, ThreadConstants
         DEF Thread!Lock, Thread!TypeOK, Thread!Goto, Thread!AloneInStart,
             Thread!ConstantsAssumption
    <2>3. Thread!OneTaskEach'
      BY <1>0, <1>3, <2>1, ThreadMoves DEF Thread!Lock, Thread!TypeOK, Thread!Goto
    <2> QED
      BY <2>2, <2>3 DEF Thread!ThreadInv
  <1>4. ASSUME NEW c \in Starters, Thread!Check(c) PROVE Thread!ThreadInv'
    <2> DEFINE o == s_object[c]
    <2>1. Thread!TypeOK' /\ o \in Objects
      BY <1>0, <1>4 DEF Thread!Check, Thread!TypeOK, Thread!Goto
    <2>2. Thread!AloneInStart'
      BY <1>0, <1>4, ThreadConstants
         DEF Thread!Check, Thread!TypeOK, Thread!Goto, Thread!AloneInStart,
             Thread!ConstantsAssumption
    <2>3. CASE ~s_started[o]
      <3>1. \A d \in Starters : s_pc[d] \in {"check", "set"} => d = c
        BY <1>0, <1>4 DEF Thread!Check, Thread!AloneInStart
      <3>2. \A d \in Starters : s_pc[d] = "create" => s_object[d] # o
        BY <1>0, <2>3 DEF Thread!AloneInStart
      <3>3. Thread!Creating(o) \subseteq {c}
        BY <3>1, <3>2 DEF Thread!Creating
      <3>4. s_tasks[o] = 0
        BY <1>0, <2>1, <2>3 DEF Thread!OneTaskEach, Thread!TypeOK
      <3> QED
        BY <1>0, <1>4, <2>1, <2>2, <3>3, <3>4, ThreadMoves
           DEF Thread!Check, Thread!TypeOK, Thread!Goto, Thread!ThreadInv
    <2>4. CASE s_started[o]
      BY <1>0, <1>4, <2>1, <2>2, <2>4, ThreadMoves
         DEF Thread!Check, Thread!TypeOK, Thread!Goto, Thread!ThreadInv
    <2> QED
      BY <2>3, <2>4
  <1>5. ASSUME NEW c \in Starters, Thread!SetStarted(c) PROVE Thread!ThreadInv'
    <2> DEFINE o == s_object[c]
    <2>1. Thread!TypeOK' /\ o \in Objects
      BY <1>0, <1>5 DEF Thread!SetStarted, Thread!TypeOK, Thread!Goto
    <2>2. Thread!AloneInStart'
      BY <1>0, <1>5, ThreadConstants
         DEF Thread!SetStarted, Thread!TypeOK, Thread!Goto, Thread!AloneInStart,
             Thread!ConstantsAssumption
    <2>3. c \in Thread!Creating(o)
      BY <1>5 DEF Thread!SetStarted, Thread!Creating
    <2>4. Thread!Creating(o) \subseteq {c} /\ s_tasks[o] = 0
      BY <1>0, <2>1, <2>3 DEF Thread!OneTaskEach, Thread!TypeOK
    <2> QED
      BY <1>0, <1>5, <2>1, <2>2, <2>4, ThreadMoves
         DEF Thread!SetStarted, Thread!TypeOK, Thread!Goto, Thread!ThreadInv
  <1>6. ASSUME NEW c \in Starters, Thread!Create(c) PROVE Thread!ThreadInv'
    <2> DEFINE o == s_object[c]
    <2>1. Thread!TypeOK' /\ o \in Objects
      BY <1>0, <1>6 DEF Thread!Create, Thread!TypeOK, Thread!Goto
    <2>2. Thread!AloneInStart'
      BY <1>0, <1>6, ThreadConstants
         DEF Thread!Create, Thread!TypeOK, Thread!Goto, Thread!AloneInStart,
             Thread!ConstantsAssumption
    <2>3. c \in Thread!Creating(o)
      BY <1>6 DEF Thread!Create, Thread!Creating
    <2>4. Thread!Creating(o) \subseteq {c} /\ s_tasks[o] = 0 /\ s_started[o]
      BY <1>0, <1>6, <2>1, <2>3
         DEF Thread!OneTaskEach, Thread!TypeOK, Thread!AloneInStart, Thread!Create
    <2>5. ASSUME NEW p \in Objects
          PROVE  /\ \A d, e \in Thread!Creating(p)' : d = e
                 /\ s_tasks'[p] <= 1
                 /\ s_tasks'[p] = 1 => Thread!Creating(p)' = {} /\ s_started'[p]
      <3>1. Thread!Creating(p)' \subseteq Thread!Creating(p) \ {c}
        BY <1>0, <1>6 DEF Thread!Create, Thread!TypeOK, Thread!Goto, Thread!Creating
      <3>2. s_tasks'[p] = IF p = o THEN 1 ELSE s_tasks[p]
        BY <1>0, <1>6, <2>4 DEF Thread!Create, Thread!TypeOK
      <3>3. s_started' = s_started
        BY <1>6 DEF Thread!Create
      <3> QED
        BY <1>0, <2>4, <3>1, <3>2, <3>3 DEF Thread!OneTaskEach
    <2> QED
      BY <2>1, <2>2, <2>5 DEF Thread!ThreadInv, Thread!OneTaskEach
  <1>7. ASSUME NEW c \in Starters, Thread!CreateFails(c) PROVE Thread!ThreadInv'
    <2>1. Thread!TypeOK'
      BY <1>0, <1>7 DEF Thread!CreateFails, Thread!TypeOK, Thread!Goto
    <2>2. Thread!AloneInStart'
      BY <1>0, <1>7, ThreadConstants
         DEF Thread!CreateFails, Thread!TypeOK, Thread!Goto, Thread!AloneInStart,
             Thread!ConstantsAssumption
    <2>3. Thread!OneTaskEach'
      BY <1>0, <1>7, <2>1, ThreadMoves DEF Thread!CreateFails, Thread!TypeOK, Thread!Goto
    <2> QED
      BY <2>2, <2>3 DEF Thread!ThreadInv
  <1>8. CASE UNCHANGED Thread!vars
    BY <1>0, <1>8 DEF Thread!vars, Thread!ThreadInv, Thread!OneTaskEach, Thread!AloneInStart,
                      Thread!TypeOK, Thread!Creating
  <1> QED
    BY <1>1, <1>2, <1>3, <1>4, <1>5, <1>6, <1>7, <1>8 DEF Thread!Next

\* However many tasks call Start of whatever thread objects, and whenever the scheduler
\* was started, an object gets one task at most (Thread::Start).
THEOREM OneTaskPerObject == Thread!Spec => []OneTaskForEachThread
  <1>1. Thread!Init => Thread!ThreadInv
    BY ThreadInit
  <1>2. Thread!ThreadInv /\ [Thread!Next]_(Thread!vars) => Thread!ThreadInv'
    BY ThreadStep
  <1>3. Thread!ThreadInv => OneTaskForEachThread
    BY DEF Thread!ThreadInv, OneTaskForEachThread
  <1> QED
    BY <1>1, <1>2, <1>3, PTL DEF Thread!Spec, Thread!vars

-----------------------------------------------------------------------------
(* The work queue.                                                         *)

LEMMA WorkRange == \A s : Work!Range(s) = Range(s) /\ (Work!IsInjective(s) <=> IsInjective(s))
  BY DEF Range, Work!Range, IsInjective, Work!IsInjective

\* The items of a queue that the worker is still to run, b being those behind the NULL
\* and d where the destructor is.
ItemsOf(q, b, d) == IF Null \in Range(q) THEN SubSeq(q, 1, Len(q) - (1 + Len(b)))
                    ELSE IF d \in {"alive", "exit"} THEN q ELSE <<>>
Ahead == ItemsOf(w_queue, w_behind, w_dtorPc)

LEMMA ItemsAndNull ==
  ASSUME NEW w \in Seq(Items), NEW b \in Seq(Items), NEW d
  PROVE  /\ Null \notin Range(w)
         /\ ItemsOf(w, b, d) = IF d \in {"alive", "exit"} THEN w ELSE <<>>
         /\ Null \in Range(Append(w, Null) \o b) /\ ItemsOf(Append(w, Null) \o b, b, d) = w
  <1>1. Null \notin Items
    BY WorkConstants DEF Work!ConstantsAssumption
  <1>2. Null \notin Range(w)
    BY <1>1, RangeOfSeq
  <1>3. /\ Null \in Range(Append(w, Null) \o b)
        /\ SubSeq(Append(w, Null) \o b, 1, Len(Append(w, Null) \o b) - (1 + Len(b))) = w
    BY BeforeTheMark
  <1> QED
    BY <1>2, <1>3 DEF ItemsOf

\* The invariant in terms of Range, IsInjective and Ahead.
OrderInv ==
  /\ Work!Destroying => w_accepted = w_ran \o w_behind /\ w_workerPc \in {"leave", "gone"}
  /\ ~Work!Destroying => w_accepted = ((w_ran \o Work!Running) \o Ahead) \o w_behind
FreedInv == w_freed = {i \in Range(w_ran) : Work!ToFree(i)}
OnceInv ==
  /\ IsInjective(w_accepted) /\ w_fresh \cap Range(w_accepted) = {}
  /\ \A c \in Work!Callers : w_pc[c] = "enqueue" =>
       /\ w_arg[c] \in Items /\ w_arg[c] \notin w_fresh \cup Range(w_accepted)
       /\ \A d \in Work!Callers : w_pc[d] = "enqueue" /\ w_arg[d] = w_arg[c] => c = d
NullInv ==
  /\ Ahead \in Seq(Items)
  /\ Null \in Range(w_queue) =>
       w_queue = Append(Ahead, Null) \o w_behind /\ w_dtorPc = "take" /\ w_complete = 0
  /\ w_workerPc \in Work!AfterNull => w_queue \in Seq(Items) /\ w_dtorPc \notin {"alive", "exit"}
  /\ w_workerPc \notin Work!AfterNull =>
       w_complete = 0 /\ (Null \in Range(w_queue) <=> w_dtorPc = "take")
  /\ w_workerPc = "complete" => w_complete = 0
  /\ w_dtorPc \in {"alive", "exit"} => w_behind = <<>>
  /\ w_dtorPc # "alive" => \A c \in Clients : w_pc[c] = "out"
  /\ w_pc[Worker] = "enqueue" => w_workerPc = "run"
  /\ w_workerPc = "run" => w_current \in Items
  /\ w_workerPc = "free" => w_current \in FreeAfter \cap Range(w_ran)

LEMMA WorkInvParts ==
  Work!WorkInv <=> Work!TypeOK /\ OrderInv /\ FreedInv /\ OnceInv /\ NullInv
  <1>1. Work!Waiting = Ahead
    BY WorkRange DEF Work!Waiting, Ahead, ItemsOf
  <1>2. Work!AllRunInOrder <=> Work!TypeOK /\ OrderInv /\ FreedInv
    BY <1>1, WorkRange DEF Work!AllRunInOrder, OrderInv, FreedInv
  <1>3. Work!EachOnce <=> OnceInv
    BY WorkRange DEF Work!EachOnce, OnceInv
  <1>4. Work!NullIsLast <=> NullInv
    BY <1>1, WorkRange DEF Work!NullIsLast, NullInv
  <1> QED
    BY <1>2, <1>3, <1>4 DEF Work!WorkInv

\* A step that neither moves an item nor the NULL, after which the worker does not run
\* or free something else.
LEMMA WorkQuiet ==
  ASSUME OrderInv, FreedInv, UNCHANGED <<w_behind, w_accepted, w_ran, w_freed, w_current>>,
         Ahead' = Ahead \/ Work!Destroying',
         w_workerPc' = "run" <=> w_workerPc = "run", w_workerPc' = "free" <=> w_workerPc = "free",
         Work!Destroying' => Work!Destroying, Work!Destroying => Work!Destroying',
         Work!Destroying => w_workerPc' \in {"leave", "gone"}
  PROVE  OrderInv' /\ FreedInv'
  <1>1. Work!Running' = Work!Running
    BY DEF Work!Running
  <1>2. OrderInv'
    BY <1>1 DEF OrderInv
  <1>3. \A i : Work!ToFree(i)' <=> Work!ToFree(i)
    BY DEF Work!ToFree
  <1> QED
    BY <1>2, <1>3 DEF FreedInv

LEMMA WorkConstruct ==
  ASSUME Work!TypeOK, OrderInv, FreedInv, OnceInv, NullInv, Work!Construct
  PROVE  Work!TypeOK' /\ OrderInv' /\ FreedInv' /\ OnceInv' /\ NullInv'
  <1>1. Ahead' = Ahead
    BY DEF Work!Construct, Work!callVars, Ahead
  <1>2. Work!TypeOK' /\ OnceInv'
    BY DEF Work!Construct, Work!callVars, Work!TypeOK, OnceInv
  <1>3. NullInv'
    BY <1>1 DEF Work!Construct, Work!callVars, NullInv, Work!AfterNull
  <1>4. OrderInv' /\ FreedInv'
    <2>1. ~Work!Destroying
      BY DEF Work!Construct, OrderInv
    <2> QED
      BY <1>1, <2>1, WorkQuiet DEF Work!Construct, Work!callVars, Work!Destroying
  <1> QED
    BY <1>2, <1>3, <1>4

LEMMA WorkCall ==
  ASSUME Work!TypeOK, OrderInv, FreedInv, OnceInv, NullInv,
         NEW c \in Work!Callers, NEW i \in Items, Work!CallQueueWork(c, i)
  PROVE  Work!TypeOK' /\ OrderInv' /\ FreedInv' /\ OnceInv' /\ NullInv'
  <1>0. Ahead' = Ahead
    BY DEF Work!CallQueueWork, Ahead
  <1>1. Work!TypeOK'
    BY DEF Work!CallQueueWork, Work!workerVars, Work!TypeOK
  <1>2. OnceInv'
    BY DEF Work!CallQueueWork, Work!workerVars, Work!TypeOK, OnceInv
  <1>3. NullInv'
    <2>1. c # Worker => w_dtorPc = "alive"
      BY DEF Work!CallQueueWork
    <2>2. c = Worker => w_workerPc = "run"
      BY DEF Work!CallQueueWork
    <2>3. w_dtorPc # "alive" => \A d \in Clients : w_pc'[d] = "out"
      <3>1. Worker \notin Clients
        BY WorkConstants DEF Work!ConstantsAssumption
      <3> QED
        BY <2>1, <3>1 DEF Work!CallQueueWork, NullInv, Work!TypeOK, Work!Callers
    <2>4. w_pc'[Worker] = "enqueue" => w_workerPc = "run"
      BY <2>2 DEF Work!CallQueueWork, NullInv, Work!TypeOK, Work!Callers
    <2> QED
      BY <1>0, <2>3, <2>4 DEF Work!CallQueueWork, Work!workerVars, NullInv, Work!AfterNull
  <1>4. OrderInv' /\ FreedInv'
    BY <1>0, WorkQuiet DEF Work!CallQueueWork, Work!workerVars, Work!Destroying, OrderInv
  <1> QED
    BY <1>1, <1>2, <1>3, <1>4

\* Where an item goes: behind those that wait, or, the destructor's NULL being there,
\* behind it, to be lost.
Joined(r, w, b, e) ==
  /\ Append(w, e) \in Seq(Items) /\ Append(b, e) \in Seq(Items)
  /\ Append((r \o w) \o <<>>, e) = (r \o Append(w, e)) \o <<>>
  /\ Append((r \o w) \o b, e) = (r \o w) \o Append(b, e)
  /\ Append(Append(w, Null) \o b, e) = Append(w, Null) \o Append(b, e)

LEMMA WorkJoins ==
  ASSUME NEW r \in Seq(Items), NEW w \in Seq(Items), NEW b \in Seq(Items), NEW e \in Items
  PROVE  Joined(r, w, b, e)
  <1>1. Append(w, e) \in Seq(Items) /\ Append(b, e) \in Seq(Items) /\ r \o w \in Seq(Items)
    BY AppendProperties, ConcatProperties
  <1>2. (r \o w) \o <<>> = r \o w
    BY <1>1, ConcatEmptySeq
  <1>3. r \o Append(w, e) = Append(r \o w, e)
    BY Joins
  <1>4. (r \o Append(w, e)) \o <<>> = r \o Append(w, e)
    <2>1. r \o Append(w, e) \in Seq(Items)
      BY <1>1, ConcatProperties
    <2> QED
      BY <2>1, ConcatEmptySeq
  <1>5. Append((r \o w) \o b, e) = (r \o w) \o Append(b, e)
    <2>1. PICK x : x = r \o w /\ x \in Seq(Items)
      BY <1>1
    <2>2. x \o Append(b, e) = Append(x \o b, e)
      BY ONLY <2>1, Joins, b \in Seq(Items), e \in Items
    <2> QED
      BY <2>1, <2>2
  <1>6. Append(Append(w, Null) \o b, e) = Append(w, Null) \o Append(b, e)
    <2>1. PICK T : T = Items \cup {Null}
      OBVIOUS
    <2>2. Append(w, Null) \in Seq(T) /\ b \in Seq(T) /\ e \in T
      <3>1. w \in Seq(T) /\ b \in Seq(T)
        BY <2>1, SeqMonotonic
      <3> QED
        BY <2>1, <3>1, AppendProperties
    <2>3. PICK m : m = Append(w, Null)
      OBVIOUS
    <2>4. m \o Append(b, e) = Append(m \o b, e)
      BY <2>2, <2>3, Joins
    <2> QED
      BY <2>3, <2>4
  <1> QED
    BY <1>1, <1>2, <1>3, <1>4, <1>5, <1>6 DEF Joined

LEMMA WorkEnqueue ==
  ASSUME Work!TypeOK, OrderInv, FreedInv, OnceInv, NullInv, NEW c \in Work!Callers, Work!Enqueue(c)
  PROVE  Work!TypeOK' /\ OrderInv' /\ FreedInv' /\ OnceInv' /\ NullInv'
  <1>1. PICK q, w, b, r, a, e : /\ q = w_queue /\ w = Ahead /\ b = w_behind /\ a = w_accepted
                                /\ r = w_ran \o Work!Running /\ e = w_arg[c]
    OBVIOUS
  <1>2. /\ e \in Items /\ e \notin w_fresh \cup Range(a) /\ w_dtorPc \in {"alive", "exit", "take"}
        /\ w_workerPc \notin Work!AfterNull /\ ~Work!Destroying
    <2>1. w_pc[c] = "enqueue"
      BY DEF Work!Enqueue
    <2>2. e \in Items /\ e \notin w_fresh \cup Range(a)
      BY <1>1, <2>1 DEF OnceInv
    <2>3. w_workerPc \notin Work!AfterNull
      BY <2>1 DEF NullInv, Work!Callers, Work!AfterNull
    <2> QED
      BY <2>2, <2>3 DEF OrderInv, Work!Destroying, Work!AfterNull, Work!TypeOK
  <1>3. /\ w \in Seq(Items) /\ b \in Seq(Items) /\ a \in Seq(Items) /\ a = (r \o w) \o b
        /\ w_dtorPc = "take" => q = Append(w, Null) \o b
        /\ w_dtorPc # "take" => q = w /\ b = <<>>
    BY <1>1, <1>2 DEF NullInv, Ahead, ItemsOf, Work!TypeOK, OrderInv
  <1>4. r \in Seq(Items)
    <2>1. w_ran \in Seq(Items) /\ Work!Running \in Seq(Items)
      BY DEF Work!TypeOK, Work!Running, NullInv
    <2> QED
      BY <1>1, <2>1, ConcatProperties
  <1>5. PICK v, d, f : /\ v = (IF w_dtorPc = "take" THEN w ELSE Append(w, e))
                       /\ d = (IF w_dtorPc = "take" THEN Append(b, e) ELSE b)
                       /\ f = Append(q, e)
    OBVIOUS
  <1>6. /\ w_queue' = f /\ w_accepted' = Append(a, e) /\ w_behind' = d
        /\ w_pc' = [w_pc EXCEPT ![c] = "out"]
        /\ UNCHANGED <<w_arg, w_fresh, w_workerPc, w_current, w_ran, w_freed, w_complete, w_dtorPc>>
    BY <1>1, <1>5 DEF Work!Enqueue, Work!workerVars
  <1>7. /\ v \in Seq(Items) /\ d \in Seq(Items) /\ Append(a, e) = (r \o v) \o d
        /\ w_dtorPc = "take" => f = Append(v, Null) \o d
        /\ w_dtorPc # "take" => f = v /\ d = <<>>
    <2>1. Joined(r, w, b, e)
      BY <1>2, <1>3, <1>4, WorkJoins
    <2>2. CASE w_dtorPc = "take"
      BY <1>3, <1>5, <2>1, <2>2 DEF Joined
    <2>3. CASE w_dtorPc # "take"
      BY <1>3, <1>5, <2>1, <2>3 DEF Joined
    <2> QED
      BY <2>2, <2>3
  <1>8. Ahead' = v /\ (Null \in Range(f) <=> w_dtorPc = "take")
    <2>0. Ahead' = ItemsOf(f, d, w_dtorPc)
      BY <1>6 DEF Ahead
    <2>1. CASE w_dtorPc = "take"
      <3>1. /\ Null \in Range(Append(v, Null) \o d)
            /\ ItemsOf(Append(v, Null) \o d, d, w_dtorPc) = v
        BY <1>7, ItemsAndNull
      <3> QED
        BY <1>7, <2>0, <2>1, <3>1
    <2>2. CASE w_dtorPc # "take"
      <3>1. ItemsOf(v, d, w_dtorPc) = v /\ Null \notin Range(v)
        BY <1>2, <1>7, <2>2, ItemsAndNull
      <3> QED
        BY <1>7, <2>0, <2>2, <3>1
    <2> QED
      BY <2>1, <2>2
  <1>9. /\ Append(a, e) \in Seq(Items) /\ Range(Append(a, e)) = Range(a) \cup {e}
        /\ IsInjective(Append(a, e))
    <2>1. a \in Seq(Items) /\ e \in Items /\ e \notin Range(a)
      BY <1>2, <1>3
    <2>2. IsInjective(a)
      BY <1>1 DEF OnceInv
    <2>3. Append(a, e) \in Seq(Items) /\ Range(Append(a, e)) = Range(a) \cup {e}
      BY ONLY <2>1, AppendElement
    <2>4. IsInjective(Append(a, e))
      BY ONLY <2>1, <2>2, AppendElement
    <2> QED
      BY <2>3, <2>4
  <1>10. Work!TypeOK'
    <2>1. q \in Seq(Items \cup {Null}) /\ e \in Items \cup {Null}
      BY <1>1, <1>2 DEF Work!TypeOK
    <2>2. f \in Seq(Items \cup {Null}) /\ Len(f) = Len(q) + 1 /\ Len(q) \in Nat
      BY <1>5, <2>1, AppendProperties, LenProperties
    <2>3. Len(f) <= MaxWorkItems
      BY <1>1, <2>2, WorkConstants DEF Work!Enqueue, Work!ConstantsAssumption
    <2> QED
      BY <1>6, <1>7, <1>9, <2>2, <2>3 DEF Work!TypeOK
  <1>11. OrderInv'
    <2>1. Work!Running' = Work!Running /\ Work!Destroying' = Work!Destroying
      BY <1>6 DEF Work!Running, Work!Destroying
    <2> QED
      BY <1>1, <1>2, <1>6, <1>7, <1>8, <2>1 DEF OrderInv
  <1>12. FreedInv'
    BY <1>6 DEF FreedInv, Work!ToFree
  <1>13. OnceInv'
    <2>1. IsInjective(Append(a, e)) /\ w_fresh \cap Range(Append(a, e)) = {}
      BY <1>1, <1>2, <1>9 DEF OnceInv
    <2>2. ASSUME NEW x \in Work!Callers, w_pc'[x] = "enqueue"
          PROVE  /\ w_arg[x] \in Items /\ w_arg[x] \notin w_fresh \cup Range(Append(a, e))
                 /\ \A y \in Work!Callers : w_pc'[y] = "enqueue" /\ w_arg[y] = w_arg[x] => x = y
      <3>1. \A y \in Work!Callers : w_pc'[y] = "enqueue" => w_pc[y] = "enqueue" /\ y # c
        BY <1>6 DEF Work!TypeOK
      <3>2. w_pc[c] = "enqueue"
        BY DEF Work!Enqueue
      <3>3. w_arg[x] # e
        BY <1>1, <2>2, <3>1, <3>2 DEF OnceInv
      <3> QED
        BY <1>1, <1>9, <2>2, <3>1, <3>3 DEF OnceInv
    <2> QED
      BY <1>6, <2>1, <2>2 DEF OnceInv
  <1>14. NullInv'
    <2>1. \A x \in Work!Callers : w_pc'[x] = "enqueue" => w_pc[x] = "enqueue"
      BY <1>6 DEF Work!TypeOK
    <2>2. w_dtorPc # "alive" => \A x \in Clients : w_pc'[x] = "out"
      BY <1>6 DEF NullInv, Work!TypeOK, Work!Callers
    <2>3. w_pc'[Worker] = "enqueue" => w_workerPc = "run"
      BY <2>1 DEF NullInv, Work!Callers
    <2> QED
      BY <1>2, <1>6, <1>7, <1>8, <2>2, <2>3 DEF NullInv, Work!AfterNull
  <1> QED
    BY <1>10, <1>11, <1>12, <1>13, <1>14

\* What the worker finds at the front of the queue: an item, or the NULL when nothing
\* else is left before it.
LEMMA WorkDequeue ==
  ASSUME Work!TypeOK, OrderInv, FreedInv, OnceInv, NullInv, Work!Dequeue
  PROVE  Work!TypeOK' /\ OrderInv' /\ FreedInv' /\ OnceInv' /\ NullInv'
  <1>0. Null \notin Items
    BY WorkConstants DEF Work!ConstantsAssumption
  <1>1. PICK q, w, b, r : q = w_queue /\ w = Ahead /\ b = w_behind /\ r = w_ran
    OBVIOUS
  <1>2. /\ q \in Seq(Items \cup {Null}) /\ q # <<>> /\ w \in Seq(Items) /\ r \in Seq(Items)
        /\ b \in Seq(Items)
        /\ w_workerPc = "dequeue" /\ w_complete = 0 /\ w_workerPc \notin Work!AfterNull
    BY <1>1 DEF Work!Dequeue, Work!TypeOK, NullInv, Work!AfterNull
  <1>3. ~Work!Destroying /\ w_dtorPc \in {"alive", "exit", "take"}
    BY <1>2 DEF OrderInv, Work!Destroying, Work!TypeOK
  <1>4. /\ w_dtorPc = "take" => q = Append(w, Null) \o b
        /\ w_dtorPc # "take" => q = w /\ b = <<>>
    BY <1>1, <1>2, <1>3 DEF NullInv, Ahead, ItemsOf
  <1>5. /\ w_queue' = Tail(q) /\ w_current' = Head(q)
        /\ w_workerPc' = IF Head(q) = Null THEN "complete" ELSE "run"
        /\ UNCHANGED <<w_pc, w_arg, w_fresh, w_accepted, w_behind, w_ran, w_freed, w_complete, w_dtorPc>>
    BY <1>1 DEF Work!Dequeue, Work!callVars
  <1>6. Work!TypeOK'
    <2>1. /\ Tail(q) \in Seq(Items \cup {Null}) /\ Len(Tail(q)) = Len(q) - 1 /\ Len(q) \in Nat
          /\ Head(q) \in Items \cup {Null}
      BY <1>2, HeadTailProperties, LenProperties
    <2>2. Len(Tail(q)) <= MaxWorkItems
      BY <1>1, <2>1, WorkConstants DEF Work!TypeOK, Work!ConstantsAssumption
    <2> QED
      BY <1>5, <2>1, <2>2 DEF Work!TypeOK
  <1>7. w_accepted = ((r \o <<>>) \o w) \o b /\ ~Work!Destroying'
    BY <1>1, <1>2, <1>3, <1>5 DEF OrderInv, Work!Running, Work!Destroying
  <1>8. FreedInv' /\ OnceInv'
    BY <1>2, <1>5 DEF FreedInv, Work!ToFree, OnceInv
  <1>9. (\A x \in Clients : w_dtorPc # "alive" => w_pc[x] = "out") /\ w_pc[Worker] # "enqueue"
    BY <1>2 DEF NullInv
  <1>10. PICK T, m : T = Items \cup {Null} /\ m = Append(w, Null)
    OBVIOUS
  <1>11. /\ m \in Seq(T) /\ m # <<>> /\ b \in Seq(T)
         /\ Head(m) = (IF w = <<>> THEN Null ELSE Head(w))
         /\ Tail(m) = (IF w = <<>> THEN <<>> ELSE Append(Tail(w), Null))
    <2>1. w \in Seq(T) /\ b \in Seq(T)
      BY <1>2, <1>10, SeqMonotonic
    <2>2. m \in Seq(T) /\ m # <<>>
      BY <1>10, <2>1, AppendElement
    <2> QED
      BY <1>2, <1>10, <2>1, <2>2, HeadTailAppend
  <1>12. Head(m \o b) = Head(m) /\ Tail(m \o b) = Tail(m) \o b
    BY <1>11, TakesFirst
  <1>13. CASE w = <<>>
    <2>1. q = m \o b /\ w_dtorPc = "take"
      BY <1>2, <1>4, <1>10, <1>13
    <2>2. Head(q) = Null /\ Tail(q) = b
      <3>1. <<>> \o b = b
        BY <1>2, ConcatEmptySeq
      <3> QED
        BY <1>11, <1>12, <1>13, <2>1, <3>1
    <2>3. Ahead' = <<>> /\ Null \notin Range(b) /\ <<>> \in Seq(Items)
      <3>1. ItemsOf(b, b, "take") = <<>> /\ Null \notin Range(b)
        BY <1>2, ItemsAndNull
      <3>2. Ahead' = ItemsOf(b, b, "take")
        BY <1>1, <1>5, <2>1, <2>2 DEF Ahead
      <3> QED
        BY <3>1, <3>2, EmptySeq
    <2>4. OrderInv'
      BY <1>1, <1>5, <1>7, <1>13, <2>2, <2>3 DEF OrderInv, Work!Running
    <2>5. NullInv'
      BY <1>2, <1>5, <1>9, <2>1, <2>2, <2>3 DEF NullInv, Work!AfterNull
    <2> QED
      BY <1>6, <1>8, <2>4, <2>5
  <1>14. CASE w # <<>>
    <2>1. PICK h, t : h = Head(w) /\ t = Tail(w) /\ h \in Items /\ t \in Seq(Items)
      BY <1>2, <1>14, HeadTailProperties
    <2>2. /\ Head(q) = h
          /\ w_dtorPc = "take" => Tail(q) = Append(t, Null) \o b
          /\ w_dtorPc # "take" => Tail(q) = t
      BY <1>4, <1>10, <1>11, <1>12, <1>14, <2>1
    <2>3. Ahead' = t /\ (Null \in Range(Tail(q)) <=> w_dtorPc = "take")
      <3>1. CASE w_dtorPc = "take"
        <4>1. /\ Null \in Range(Append(t, Null) \o b)
              /\ ItemsOf(Append(t, Null) \o b, b, w_dtorPc) = t
          BY <1>2, <2>1, ItemsAndNull
        <4>2. Ahead' = ItemsOf(Tail(q), b, w_dtorPc)
          BY <1>1, <1>5 DEF Ahead
        <4> QED
          BY <2>2, <3>1, <4>1, <4>2
      <3>2. CASE w_dtorPc # "take"
        BY <1>1, <1>2, <1>3, <1>5, <2>1, <2>2, <3>2, ItemsAndNull DEF Ahead
      <3> QED
        BY <3>1, <3>2
    <2>4. (r \o <<h>>) \o t = (r \o <<>>) \o w
      BY <1>2, <1>14, <2>1, Moves
    <2>5. w_workerPc' = "run" /\ w_current' = h
      BY <1>0, <1>5, <2>1, <2>2
    <2>6. Work!Running' = <<h>>
      BY <2>5 DEF Work!Running
    <2>7. OrderInv'
      BY <1>1, <1>5, <1>7, <2>3, <2>4, <2>6 DEF OrderInv
    <2>8. NullInv'
      BY <1>1, <1>2, <1>4, <1>5, <1>9, <2>1, <2>2, <2>3, <2>5 DEF NullInv, Work!AfterNull
    <2> QED
      BY <1>6, <1>8, <2>7, <2>8
  <1> QED
    BY <1>13, <1>14

LEMMA WorkRunReturns ==
  ASSUME Work!TypeOK, OrderInv, FreedInv, OnceInv, NullInv, Work!RunReturns
  PROVE  Work!TypeOK' /\ OrderInv' /\ FreedInv' /\ OnceInv' /\ NullInv'
  <1>1. PICK w, b, r, e : w = Ahead /\ b = w_behind /\ r = w_ran /\ e = w_current
    OBVIOUS
  <1>2. w \in Seq(Items) /\ b \in Seq(Items) /\ r \in Seq(Items) /\ e \in Items /\ ~Work!Destroying
    BY <1>1 DEF Work!RunReturns, Work!TypeOK, NullInv, OrderInv
  <1>3. w_accepted = ((r \o <<e>>) \o w) \o b
    BY <1>1, <1>2 DEF Work!RunReturns, OrderInv, Work!Running
  <1>4. (r \o <<e>>) \o w = (Append(r, e) \o <<>>) \o w
    BY <1>2, Ends
  <1>5. e \notin Range(r)
    <2>1. (r \o <<e>>) \o w \in Seq(Items)
      BY <1>2, ConcatProperties
    <2>2. IsInjective((r \o <<e>>) \o w)
      BY <1>2, <1>3, <2>1, TakesFirst DEF OnceInv
    <2> QED
      BY <1>2, <2>2, Ends
  <1>6. /\ w_ran' = Append(r, e) /\ w_workerPc = "run" /\ w_pc[Worker] = "out"
        /\ w_workerPc' = (IF e \in FreeAfter THEN "free" ELSE "dequeue")
        /\ UNCHANGED <<w_pc, w_arg, w_fresh, w_accepted, w_behind, w_queue, w_current, w_freed,
                       w_complete, w_dtorPc>>
    BY <1>1 DEF Work!RunReturns, Work!callVars
  <1>7. Append(r, e) \in Seq(Items) /\ Range(Append(r, e)) = Range(r) \cup {e}
    BY <1>2, AppendElement
  <1>8. Work!TypeOK'
    BY <1>6, <1>7 DEF Work!TypeOK
  <1>9. Ahead' = Ahead
    BY <1>6 DEF Ahead
  <1>10. OrderInv'
    <2>1. Work!Running' = <<>> /\ ~Work!Destroying'
      BY <1>2, <1>6 DEF Work!Running, Work!Destroying
    <2> QED
      BY <1>1, <1>3, <1>4, <1>6, <1>9, <2>1 DEF OrderInv
  <1>11. FreedInv'
    <2>1. w_freed = {i \in Range(r) : i \in FreeAfter}
      BY <1>1, <1>6 DEF FreedInv, Work!ToFree
    <2>2. \A i : Work!ToFree(i)' <=> i \in FreeAfter /\ i # e
      BY <1>1, <1>6 DEF Work!ToFree
    <2> QED
      BY <1>5, <1>6, <1>7, <2>1, <2>2 DEF FreedInv
  <1>12. OnceInv'
    BY <1>6 DEF OnceInv
  <1>13. NullInv'
    BY <1>1, <1>6, <1>7, <1>9 DEF NullInv, Work!AfterNull
  <1> QED
    BY <1>8, <1>10, <1>11, <1>12, <1>13

LEMMA WorkFree ==
  ASSUME Work!TypeOK, OrderInv, FreedInv, OnceInv, NullInv, Work!Free
  PROVE  Work!TypeOK' /\ OrderInv' /\ FreedInv' /\ OnceInv' /\ NullInv'
  <1>1. /\ w_workerPc = "free" /\ w_workerPc' = "dequeue" /\ w_freed' = w_freed \cup {w_current}
        /\ UNCHANGED <<w_pc, w_arg, w_fresh, w_accepted, w_behind, w_queue, w_current, w_ran,
                       w_complete, w_dtorPc>>
    BY DEF Work!Free, Work!callVars
  <1>2. w_current \in FreeAfter \cap Range(w_ran)
    BY <1>1 DEF NullInv
  <1>3. Ahead' = Ahead
    BY <1>1 DEF Ahead
  <1>4. Work!TypeOK' /\ OnceInv' /\ NullInv'
    BY <1>1, <1>2, <1>3 DEF Work!TypeOK, OnceInv, NullInv, Work!AfterNull
  <1>5. OrderInv'
    BY <1>1, <1>3 DEF OrderInv, Work!Running, Work!Destroying
  <1>6. FreedInv'
    BY <1>1, <1>2 DEF FreedInv, Work!ToFree
  <1> QED
    BY <1>4, <1>5, <1>6

LEMMA WorkLeaves ==
  ASSUME Work!TypeOK, OrderInv, FreedInv, OnceInv, NullInv, Work!Complete \/ Work!DeleteItself
  PROVE  Work!TypeOK' /\ OrderInv' /\ FreedInv' /\ OnceInv' /\ NullInv'
  <1>1. /\ w_workerPc \in {"complete", "leave"} /\ w_workerPc' \in {"leave", "gone"}
        /\ UNCHANGED <<w_pc, w_arg, w_fresh, w_accepted, w_behind, w_queue, w_current, w_ran,
                       w_freed, w_dtorPc>>
    BY DEF Work!Complete, Work!DeleteItself, Work!callVars
  <1>2. Ahead' = Ahead
    BY <1>1 DEF Ahead
  <1>3. Work!TypeOK' /\ OnceInv'
    BY <1>1 DEF Work!TypeOK, OnceInv, Work!Complete, Work!DeleteItself
  <1>4. NullInv'
    <2>1. w_queue \in Seq(Items) /\ Null \notin Range(w_queue)
      BY <1>1, ItemsAndNull DEF NullInv, Work!AfterNull, Work!TypeOK
    <2> QED
      BY <1>1, <1>2, <2>1 DEF NullInv, Work!AfterNull
  <1>5. OrderInv' /\ FreedInv'
    BY <1>1, <1>2, WorkQuiet DEF Work!Destroying
  <1> QED
    BY <1>3, <1>4, <1>5

LEMMA WorkDtor ==
  ASSUME Work!TypeOK, OrderInv, FreedInv, OnceInv, NullInv, Work!CallDtor
  PROVE  Work!TypeOK' /\ OrderInv' /\ FreedInv' /\ OnceInv' /\ NullInv'
  <1>1. /\ w_dtorPc = "alive" /\ w_dtorPc' = "exit" /\ \A c \in Clients : w_pc[c] = "out"
        /\ UNCHANGED <<w_pc, w_arg, w_fresh, w_accepted, w_behind, w_queue, w_workerPc, w_current,
                       w_ran, w_freed, w_complete>>
    BY DEF Work!CallDtor, Work!callVars, Work!workerVars
  <1>2. Ahead' = Ahead
    BY <1>1 DEF Ahead, ItemsOf
  <1>3. Work!TypeOK' /\ OnceInv' /\ NullInv'
    BY <1>1, <1>2 DEF Work!TypeOK, OnceInv, NullInv, Work!AfterNull
  <1>4. OrderInv' /\ FreedInv'
    BY <1>1, <1>2, WorkQuiet DEF Work!Destroying, OrderInv
  <1> QED
    BY <1>3, <1>4

LEMMA WorkDtorExit ==
  ASSUME Work!TypeOK, OrderInv, FreedInv, OnceInv, NullInv, Work!DtorExit
  PROVE  Work!TypeOK' /\ OrderInv' /\ FreedInv' /\ OnceInv' /\ NullInv'
  <1>1. PICK q : q = w_queue
    OBVIOUS
  <1>2. /\ w_dtorPc = "exit" /\ w_dtorPc' = "take" /\ w_queue' = Append(q, Null)
        /\ Len(q) < MaxWorkItems
        /\ UNCHANGED <<w_pc, w_arg, w_fresh, w_accepted, w_behind, w_workerPc, w_current, w_ran,
                       w_freed, w_complete>>
    BY <1>1 DEF Work!DtorExit, Work!callVars, Work!workerVars
  <1>3. /\ q \in Seq(Items) /\ Ahead = q /\ w_behind = <<>> /\ <<>> \in Seq(Items)
        /\ w_workerPc \notin Work!AfterNull /\ w_complete = 0
    BY <1>1, <1>2, EmptySeq DEF NullInv, Ahead, ItemsOf
  <1>4. q \in Seq(Items \cup {Null}) /\ Null \in Items \cup {Null}
    BY <1>3, SeqMonotonic
  <1>5. /\ Append(q, Null) \in Seq(Items \cup {Null}) /\ Len(Append(q, Null)) = Len(q) + 1
        /\ Len(q) \in Nat
    BY <1>4, AppendProperties, LenProperties
  <1>6. Append(q, Null) = Append(q, Null) \o <<>>
    BY <1>5, ConcatEmptySeq
  <1>7. Ahead' = q /\ Null \in Range(Append(q, Null))
    <2>1. PICK b, d : b = w_behind /\ d = w_dtorPc'
      OBVIOUS
    <2>2. q \in Seq(Items) /\ b \in Seq(Items)
      BY <1>3, <2>1
    <2>3. Null \in Range(Append(q, Null) \o b) /\ ItemsOf(Append(q, Null) \o b, b, d) = q
      BY ONLY <2>2, ItemsAndNull
    <2>4. Append(q, Null) \o b = Append(q, Null)
      BY <1>3, <1>6, <2>1
    <2> QED
      BY <1>2, <2>1, <2>3, <2>4 DEF Ahead
  <1>8. Work!TypeOK'
    <2>1. Len(Append(q, Null)) <= MaxWorkItems
      BY <1>2, <1>5, WorkConstants DEF Work!ConstantsAssumption
    <2> QED
      BY <1>2, <1>5, <2>1 DEF Work!TypeOK
  <1>9. OrderInv' /\ FreedInv'
    <2>1. Work!Running' = Work!Running /\ ~Work!Destroying' /\ ~Work!Destroying
      BY <1>2 DEF Work!Running, Work!Destroying
    <2>2. OrderInv'
      BY <1>2, <1>3, <1>7, <2>1 DEF OrderInv
    <2> QED
      BY <1>2, <2>2 DEF FreedInv, Work!ToFree
  <1>10. OnceInv'
    BY <1>2 DEF OnceInv
  <1>11. NullInv'
    <2>1. w_queue' = Append(Ahead', Null) \o w_behind'
      BY <1>2, <1>3, <1>6, <1>7
    <2> QED
      BY <1>2, <1>3, <1>7, <2>1 DEF NullInv, Work!AfterNull
  <1> QED
    BY <1>8, <1>9, <1>10, <1>11

LEMMA WorkDtorTake ==
  ASSUME Work!TypeOK, OrderInv, FreedInv, OnceInv, NullInv, Work!DtorTake
  PROVE  Work!TypeOK' /\ OrderInv' /\ FreedInv' /\ OnceInv' /\ NullInv'
  <1>1. /\ w_dtorPc = "take" /\ w_dtorPc' = "deleteQueue" /\ w_complete = 1 /\ w_complete' = 0
        /\ UNCHANGED <<w_pc, w_arg, w_fresh, w_accepted, w_behind, w_queue, w_workerPc, w_current,
                       w_ran, w_freed>>
    BY DEF Work!DtorTake, Work!callVars, Work!workerVars
  <1>2. w_workerPc \in {"leave", "gone"} /\ w_queue \in Seq(Items) /\ w_behind \in Seq(Items)
    BY <1>1 DEF NullInv, Work!AfterNull, Work!TypeOK
  <1>3. Null \notin Range(w_queue) /\ Ahead = <<>> /\ Ahead' = <<>>
    BY <1>1, <1>2, ItemsAndNull DEF Ahead
  <1>4. w_accepted = w_ran \o w_behind
    <2>1. w_accepted = ((w_ran \o <<>>) \o <<>>) \o w_behind
      BY <1>1, <1>2, <1>3 DEF OrderInv, Work!Destroying, Work!Running
    <2> QED
      BY <2>1, ConcatEmptySeq DEF Work!TypeOK
  <1>5. OrderInv' /\ FreedInv'
    BY <1>1, <1>2, <1>4 DEF OrderInv, FreedInv, Work!Destroying, Work!ToFree
  <1>6. Work!TypeOK' /\ OnceInv'
    BY <1>1 DEF Work!TypeOK, OnceInv
  <1>7. NullInv'
    BY <1>1, <1>2, <1>3 DEF NullInv, Work!AfterNull
  <1> QED
    BY <1>5, <1>6, <1>7

LEMMA WorkDtorDeletes ==
  ASSUME Work!TypeOK, OrderInv, FreedInv, OnceInv, NullInv,
         Work!DtorDeleteQueue \/ Work!DtorDeleteThread \/ Work!DtorDeleteSemaphore
  PROVE  Work!TypeOK' /\ OrderInv' /\ FreedInv' /\ OnceInv' /\ NullInv'
  <1>1. /\ Work!Destroying /\ w_dtorPc' \in {"deleteThread", "deleteSemaphore", "done", "undefined"}
        /\ w_queue' \in {w_queue, <<>>} /\ w_workerPc' \in {w_workerPc, "gone"}
        /\ UNCHANGED <<w_pc, w_arg, w_fresh, w_accepted, w_behind, w_current, w_ran, w_freed,
                       w_complete>>
    BY DEF Work!DtorDeleteQueue, Work!DtorDeleteThread, Work!DtorDeleteSemaphore, Work!Destroying,
           Work!callVars, Work!workerVars
  <1>2. w_workerPc \in {"leave", "gone"} /\ w_accepted = w_ran \o w_behind
    BY <1>1 DEF OrderInv
  <1>3. w_queue' \in Seq(Items) /\ Len(w_queue') <= MaxWorkItems
    <2>1. w_queue \in Seq(Items) /\ Len(w_queue) <= MaxWorkItems
      BY <1>2 DEF NullInv, Work!AfterNull, Work!TypeOK
    <2>2. <<>> \in Seq(Items) /\ Len(<<>>) <= MaxWorkItems
      BY EmptySeq, WorkConstants DEF Work!ConstantsAssumption
    <2> QED
      BY <1>1, <2>1, <2>2
  <1>4. Null \notin Range(w_queue') /\ Ahead' = <<>>
    <2>1. w_behind \in Seq(Items)
      BY DEF Work!TypeOK
    <2> QED
      BY <1>1, <1>3, <2>1, ItemsAndNull DEF Ahead
  <1>5. Work!TypeOK' /\ OnceInv'
    <2>1. w_queue' \in Seq(Items \cup {Null})
      BY <1>3, SeqMonotonic
    <2> QED
      BY <1>1, <1>3, <2>1 DEF Work!TypeOK, OnceInv
  <1>6. OrderInv' /\ FreedInv'
    BY <1>1, <1>2 DEF OrderInv, FreedInv, Work!Destroying, Work!ToFree
  <1>7. NullInv'
    <2>1. w_pc[Worker] # "enqueue" /\ \A c \in Clients : w_pc[c] = "out"
      BY <1>1, <1>2 DEF NullInv, Work!Destroying
    <2> QED
      BY <1>1, <1>2, <1>3, <1>4, <2>1, EmptySeq DEF NullInv, Work!AfterNull, Work!Destroying
  <1> QED
    BY <1>5, <1>6, <1>7

\* For any clients, items and queue length: the items run in the order in which they were
\* accepted, none twice, and before the destructor deletes anything, none being left out
\* but those that a running item put behind the destructor's NULL
\* (WorkQueue::QueueWork, WorkQueue::CWorkerThread::Run, WorkQueue::~WorkQueue).
THEOREM WorkInOrder == Work!Spec => []WorkRunsInOrder
  <1>1. Work!Init => Work!WorkInv
    <2> SUFFICES ASSUME Work!Init PROVE Work!TypeOK /\ OrderInv /\ FreedInv /\ OnceInv /\ NullInv
      BY WorkInvParts
    <2>1. Ahead = <<>> /\ Null \notin Range(<<>>) /\ <<>> \in Seq(Items)
      BY EmptySeq, ItemsAndNull DEF Work!Init, Ahead
    <2>2. Work!TypeOK
      BY EmptySeq, WorkConstants DEF Work!Init, Work!TypeOK, Work!ConstantsAssumption
    <2>3. OrderInv
      <3>1. ((<<>> \o <<>>) \o <<>>) \o <<>> = <<>>
        BY <2>1, ConcatEmptySeq
      <3> QED
        BY <2>1, <3>1 DEF Work!Init, OrderInv, Work!Destroying, Work!Running
    <2>4. FreedInv /\ OnceInv
      BY EmptyQueue DEF Work!Init, FreedInv, OnceInv
    <2>5. NullInv
      BY <2>1 DEF Work!Init, NullInv, Work!AfterNull, Work!Callers
    <2> QED
      BY <2>2, <2>3, <2>4, <2>5
  <1>2. Work!WorkInv /\ [Work!Next]_(Work!vars) => Work!WorkInv'
    <2> SUFFICES ASSUME Work!TypeOK, OrderInv, FreedInv, OnceInv, NullInv, [Work!Next]_(Work!vars)
                 PROVE  Work!TypeOK' /\ OrderInv' /\ FreedInv' /\ OnceInv' /\ NullInv'
      BY WorkInvParts, PTL
    <2>1. CASE Work!Construct
      BY <2>1, WorkConstruct
    <2>2. CASE \E c \in Work!Callers : Work!Enqueue(c) \/ \E i \in Items : Work!CallQueueWork(c, i)
      BY <2>2, WorkEnqueue, WorkCall
    <2>3. CASE Work!WorkerGoesOn
      BY <2>3, WorkDequeue, WorkRunReturns, WorkFree, WorkLeaves DEF Work!WorkerGoesOn
    <2>4. CASE Work!CallDtor \/ Work!DtorGoesOn
      BY <2>4, WorkDtor, WorkDtorExit, WorkDtorTake, WorkDtorDeletes DEF Work!DtorGoesOn
    <2>5. CASE UNCHANGED Work!vars
      <3>1. Ahead' = Ahead
        BY <2>5 DEF Work!vars, Work!callVars, Ahead
      <3>2. Work!TypeOK' /\ OnceInv' /\ NullInv'
        BY <2>5, <3>1
           DEF Work!vars, Work!callVars, Work!workerVars, Work!TypeOK, OnceInv, NullInv,
               Work!AfterNull
      <3>3. OrderInv' /\ FreedInv'
        BY <2>5, <3>1, WorkQuiet
           DEF Work!vars, Work!callVars, Work!workerVars, Work!Destroying, OrderInv
      <3> QED
        BY <3>2, <3>3
    <2> QED
      BY <2>1, <2>2, <2>3, <2>4, <2>5 DEF Work!Next
  <1>3. Work!WorkInv => WorkRunsInOrder
    BY DEF Work!WorkInv, WorkRunsInOrder
  <1> QED
    BY <1>1, <1>2, <1>3, PTL DEF Work!Spec, Work!vars
=============================================================================
