-------------------------------- MODULE Tasklet -------------------------------
(***************************************************************************)
(* Tasklets of the C++ wrapper (ctasklet.cpp): Schedule and                *)
(* ScheduleFromISR hand a tasklet to the kernel's timer task, which runs   *)
(* it; CheckForSafeDelete, called by the destructor, waits until it is not *)
(* under way.  DtorLock, a binary semaphore in each tasklet, is taken by   *)
(* Schedule and given by the timer task after Run.  All tasklets share the *)
(* timer task's bounded command queue.                                     *)
(***************************************************************************)
EXTENDS Naturals, Sequences, Functions

CONSTANTS Tasklets,
          Threads,      \* the tasks that schedule tasklets
          Isr, Timer,   \* an interrupt and the timer task, which do so as well
          NoTasklet,
          QueueLength,  \* of the timer task's command queue
          RunSchedules  \* may a tasklet's Run schedule tasklets?

ConstantsAssumption ==
  /\ Isr \notin Threads /\ Timer \notin Threads /\ Isr # Timer
  /\ NoTasklet \notin Tasklets /\ QueueLength \in Nat \ {0} /\ RunSchedules \in BOOLEAN

Callers == Threads \cup {Isr, Timer}

VARIABLES
  pc,       \* where each caller is in Schedule or ScheduleFromISR
  arg,      \* the tasklet it schedules
  dtorPc,   \* where each tasklet's destructor is
  sem,      \* count of DtorLock
  queue,    \* the timer task's commands: the tasklets to run
  timerPc,  \* where the timer task is in TaskletAdapterFunction
  current   \* the tasklet it runs

callVars  == <<pc, arg>>
timerVars == <<timerPc, current>>
vars == <<callVars, dtorPc, sem, queue, timerVars>>

Goto(c, label) == pc' = [pc EXCEPT ![c] = label]

\* The constructor creates DtorLock and gives it.
Init ==
  /\ pc = [c \in Callers |-> "out"] /\ arg = [c \in Callers |-> NoTasklet]
  /\ dtorPc = [k \in Tasklets |-> "alive"] /\ sem = [k \in Tasklets |-> 1]
  /\ queue = <<>> /\ timerPc = "idle" /\ current = NoTasklet

-----------------------------------------------------------------------------
(* Schedule and ScheduleFromISR.                                           *)

\* A tasklet is not scheduled by anybody once its destructor was called.
CallSchedule(c, k) ==
  /\ pc[c] = "out" /\ dtorPc[k] = "alive" /\ c # Isr
  /\ c = Timer => RunSchedules /\ timerPc = "run"
  /\ arg' = [arg EXCEPT ![c] = k] /\ Goto(c, "take")
  /\ UNCHANGED <<dtorPc, sem, queue, timerVars>>

TakeLock(c) ==
  /\ pc[c] = "take" /\ sem[arg[c]] = 1
  /\ sem' = [sem EXCEPT ![arg[c]] = 0] /\ Goto(c, "pend")
  /\ UNCHANGED <<arg, dtorPc, queue, timerVars>>

\* The interrupt does not wait: it returns false when the tasklet is under way.
IsrTakeLock(k) ==
  /\ pc[Isr] = "out" /\ dtorPc[k] = "alive" /\ sem[k] = 1
  /\ arg' = [arg EXCEPT ![Isr] = k]
  /\ sem' = [sem EXCEPT ![k] = 0] /\ Goto(Isr, "pend")
  /\ UNCHANGED <<dtorPc, queue, timerVars>>

Pend(c) ==
  /\ pc[c] = "pend" /\ Len(queue) < QueueLength
  /\ queue' = Append(queue, arg[c]) /\ Goto(c, "out")
  /\ UNCHANGED <<arg, dtorPc, sem, timerVars>>

\* Mutant: the error path returns without giving the semaphore back.
PendFailsAndReturns(c) ==
  /\ pc[c] = "pend" /\ Len(queue) = QueueLength
  /\ Goto(c, "out")
  /\ UNCHANGED <<arg, dtorPc, sem, queue, timerVars>>

\* CmdTimeout ran out, or the caller is an interrupt.
PendFails(c) ==
  /\ pc[c] = "pend" /\ Len(queue) = QueueLength
  /\ Goto(c, "give")
  /\ UNCHANGED <<arg, dtorPc, sem, queue, timerVars>>

GiveBack(c) ==
  /\ pc[c] = "give"
  /\ sem' = [sem EXCEPT ![arg[c]] = 1] /\ Goto(c, "out")
  /\ UNCHANGED <<arg, dtorPc, queue, timerVars>>

-----------------------------------------------------------------------------
(* The timer task, and TaskletAdapterFunction.                             *)

\* Mutant: the semaphore is given before Run.
TimerReceivesAndGives ==
  /\ timerPc = "idle" /\ queue # <<>>
  /\ current' = Head(queue) /\ queue' = Tail(queue) /\ timerPc' = "run"
  /\ sem' = [sem EXCEPT ![Head(queue)] = 1]
  /\ UNCHANGED <<callVars, dtorPc>>

TimerReceives ==
  /\ timerPc = "idle" /\ queue # <<>>
  /\ current' = Head(queue) /\ queue' = Tail(queue) /\ timerPc' = "run"
  /\ UNCHANGED <<callVars, dtorPc, sem>>

RunReturns ==
  /\ timerPc = "run" /\ pc[Timer] = "out"
  /\ timerPc' = "give"
  /\ UNCHANGED <<callVars, dtorPc, sem, queue, current>>

AdapterGives ==
  /\ timerPc = "give"
  /\ sem' = [sem EXCEPT ![current] = 1] /\ current' = NoTasklet /\ timerPc' = "idle"
  /\ UNCHANGED <<callVars, dtorPc, queue>>

-----------------------------------------------------------------------------
(* The destructor, called when nobody is inside Schedule of its tasklet    *)
(* and not by the tasklet itself.                                          *)

CallDtor(k) ==
  /\ dtorPc[k] = "alive" /\ \A c \in Callers : pc[c] # "out" => arg[c] # k
  /\ dtorPc' = [dtorPc EXCEPT ![k] = "take"]
  /\ UNCHANGED <<callVars, sem, queue, timerVars>>

DtorTake(k) ==
  /\ dtorPc[k] = "take" /\ sem[k] = 1
  /\ sem' = [sem EXCEPT ![k] = 0] /\ dtorPc' = [dtorPc EXCEPT ![k] = "delete"]
  /\ UNCHANGED <<callVars, queue, timerVars>>

\* vSemaphoreDelete; the object is gone as well.
DtorDelete(k) ==
  /\ dtorPc[k] = "delete"
  /\ dtorPc' = [dtorPc EXCEPT ![k] = "deleted"]
  /\ UNCHANGED <<callVars, sem, queue, timerVars>>

-----------------------------------------------------------------------------
Scheduling(c) == TakeLock(c) \/ Pend(c) \/ PendFails(c) \/ GiveBack(c)
TimerGoesOn   == TimerReceives \/ RunReturns \/ AdapterGives
Deleting(k)   == DtorTake(k) \/ DtorDelete(k)

Next == \/ \E c \in Callers : Scheduling(c) \/ \E k \in Tasklets : CallSchedule(c, k)
        \/ TimerGoesOn
        \/ \E k \in Tasklets : IsrTakeLock(k) \/ CallDtor(k) \/ Deleting(k)

\* The scheduler runs every ready thread, Run returns, and no thread is passed
\* over for ever at a semaphore or a queue that is free again and again.
Fairness == /\ WF_vars(TimerGoesOn) /\ \A k \in Tasklets : WF_vars(Deleting(k))
            /\ \A c \in Callers : SF_vars(Scheduling(c))

Spec == Init /\ [][Next]_vars /\ Fairness

-----------------------------------------------------------------------------
(* Properties.                                                             *)

\* Every variable keeps its type.
TypeOK ==
  /\ pc \in [Callers -> {"out", "take", "pend", "give"}]
  /\ arg \in [Callers -> Tasklets \cup {NoTasklet}]
  /\ dtorPc \in [Tasklets -> {"alive", "take", "delete", "deleted"}]
  /\ sem \in [Tasklets -> {0, 1}] /\ queue \in Seq(Tasklets)
  /\ timerPc \in {"idle", "run", "give"} /\ current \in Tasklets \cup {NoTasklet}

\* DtorLock is one token: it is in the semaphore, or with the one caller that is
\* about to hand the tasklet over, or with the one command in the queue, or with the
\* timer task that runs the tasklet, or with the destructor.  So a tasklet is under way
\* once at a time, and never deleted while it is, whoever schedules it and whatever
\* fails.
HasToken(c, k)   == pc[c] \in {"pend", "give"} /\ arg[c] = k
DtorHasToken(k)  == dtorPc[k] \in {"delete", "deleted"}
CallersWith(k)   == {c \in Callers : HasToken(c, k)}
OneToken ==
  /\ IsInjective(queue)
  /\ \A k \in Tasklets :
       /\ sem[k] = 1 => CallersWith(k) = {} /\ k \notin Range(queue) /\ current # k /\ ~DtorHasToken(k)
       /\ sem[k] = 0 => CallersWith(k) # {} \/ k \in Range(queue) \/ current = k \/ DtorHasToken(k)
       /\ \A c, d \in CallersWith(k) : c = d
       /\ CallersWith(k) # {} => k \notin Range(queue) /\ current # k
       /\ k \in Range(queue) => current # k
       /\ DtorHasToken(k) => k \notin Range(queue) /\ current # k
       /\ dtorPc[k] # "alive" => \A c \in Callers : pc[c] # "out" => arg[c] # k

TimerInv == /\ timerPc = "idle" <=> current = NoTasklet
            /\ \A c \in Callers : pc[c] # "out" => arg[c] \in Tasklets

TaskletInv == TypeOK /\ TimerInv /\ OneToken

\* Every call comes back, and so does every destructor: a tasklet that was scheduled
\* is run, and the tasklet's semaphore is given again on every path.
CallsReturn ==
  /\ \A c \in Callers : pc[c] # "out" ~> pc[c] = "out"
  /\ \A k \in Tasklets : dtorPc[k] = "take" ~> dtorPc[k] = "deleted"
=============================================================================
