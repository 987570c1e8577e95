------------------------------ MODULE CppThread ------------------------------
(***************************************************************************)
(* Thread::Start of the C++ wrapper (cthread.cpp): callers start thread    *)
(* objects.  ThreadStarted of each object guards against a second start;   *)
(* once SchedulerActive is set it is read and written under the one        *)
(* StartGuardLock, before that without.  On this system the kernel runs    *)
(* before the program does: main sets SchedulerActive at the end of its    *)
(* start.                                                                  *)
(***************************************************************************)
EXTENDS Naturals

CONSTANTS Callers,    \* the tasks that call Start
          Objects,    \* the thread objects
          Nobody

ConstantsAssumption == Nobody \notin Callers

VARIABLES
  active,   \* SchedulerActive
  started,  \* ThreadStarted of each object
  guard,    \* who holds StartGuardLock
  pc,       \* where each caller is in Start
  object,   \* the object it starts
  tasks     \* how many tasks each object has

vars == <<active, started, guard, pc, object, tasks>>

Goto(c, label) == pc' = [pc EXCEPT ![c] = label]

Init ==
  /\ active = FALSE /\ started = [o \in Objects |-> FALSE] /\ guard = Nobody
  /\ pc = [c \in Callers |-> "out"] /\ object \in [Callers -> Objects]
  /\ tasks = [o \in Objects |-> 0]

-----------------------------------------------------------------------------
\* Thread::StartScheduler.  Until then one task at a time calls Start, as the main
\* task does in this program, and it comes back first.
StartScheduler ==
  /\ ~active /\ active' = TRUE
  /\ \A c \in Callers : pc[c] = "out"
  /\ UNCHANGED <<started, guard, pc, object, tasks>>

\* Start reads SchedulerActive.
CallStart(c, o) ==
  /\ pc[c] = "out"
  /\ ~active => \A d \in Callers : pc[d] = "out"
  /\ object' = [object EXCEPT ![c] = o] /\ Goto(c, IF active THEN "lock" ELSE "check")
  /\ UNCHANGED <<active, started, guard, tasks>>

\* Mutant: the lock is not taken.
NoLock(c) ==
  /\ pc[c] = "lock" /\ Goto(c, "check")
  /\ UNCHANGED <<active, started, guard, object, tasks>>

Lock(c) ==
  /\ pc[c] = "lock" /\ guard = Nobody
  /\ guard' = c /\ Goto(c, "check")
  /\ UNCHANGED <<active, started, object, tasks>>

\* if (ThreadStarted) return false: leaving the scope unlocks.
Check(c) ==
  /\ pc[c] = "check"
  /\ IF started[object[c]]
     THEN Goto(c, "out") /\ guard' = IF guard = c THEN Nobody ELSE guard
     ELSE Goto(c, "set") /\ guard' = guard
  /\ UNCHANGED <<active, started, object, tasks>>

SetStarted(c) ==
  /\ pc[c] = "set"
  /\ started' = [started EXCEPT ![object[c]] = TRUE] /\ Goto(c, "create")
  /\ guard' = IF guard = c THEN Nobody ELSE guard
  /\ UNCHANGED <<active, object, tasks>>

Create(c) ==
  /\ pc[c] = "create"
  /\ tasks' = [tasks EXCEPT ![object[c]] = @ + 1] /\ Goto(c, "out")
  /\ UNCHANGED <<active, started, guard, object>>

\* No memory for the task: Start returns false and ThreadStarted stays.
CreateFails(c) ==
  /\ pc[c] = "create" /\ Goto(c, "out")
  /\ UNCHANGED <<active, started, guard, object, tasks>>

Next == StartScheduler
        \/ \E c \in Callers : \/ Lock(c) \/ Check(c) \/ SetStarted(c) \/ Create(c) \/ CreateFails(c)
                              \/ \E o \in Objects : CallStart(c, o)

Spec == Init /\ [][Next]_vars

-----------------------------------------------------------------------------
(* Properties.                                                             *)

TypeOK ==
  /\ active \in BOOLEAN /\ started \in [Objects -> BOOLEAN] /\ guard \in Callers \cup {Nobody}
  /\ pc \in [Callers -> {"out", "lock", "check", "set", "create"}]
  /\ object \in [Callers -> Objects] /\ tasks \in [Objects -> Nat]

\* However many tasks call Start, an object gets one task at most, and whoever is about
\* to create it is alone.
Creating(o) == {c \in Callers : pc[c] \in {"set", "create"} /\ object[c] = o}
OneTaskEach ==
  /\ TypeOK
  /\ \A o \in Objects : /\ \A c, d \in Creating(o) : c = d
                        /\ tasks[o] <= 1 /\ (tasks[o] = 1 => Creating(o) = {} /\ started[o])

\* Why, as an inductive invariant: from the test of ThreadStarted until it is set a task
\* is alone, by StartGuardLock or because nobody else calls Start yet.
AloneInStart ==
  /\ ~active => /\ guard = Nobody /\ \A c \in Callers : pc[c] # "lock"
                /\ \A c, d \in Callers : pc[c] # "out" /\ pc[d] # "out" => c = d
  /\ active => \A c \in Callers : pc[c] \in {"check", "set"} <=> guard = c
  /\ \A c \in Callers : /\ pc[c] = "set" => ~started[object[c]]
                        /\ pc[c] = "create" => started[object[c]]
ThreadInv == OneTaskEach /\ AloneInStart
=============================================================================
