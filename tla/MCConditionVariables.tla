------------------------ MODULE MCConditionVariables ------------------------
(***************************************************************************)
(* One run for three systems made of ConditionVariable, each explored by   *)
(* itself: threads that wait without a timeout ("free", on the variables   *)
(* of ConditionVariable), threads whose waits may time out ("timed", on    *)
(* those that begin with t_) and the program of BoundedQueueDemo ("demo",  *)
(* on those that begin with d_).                                           *)
(***************************************************************************)
EXTENDS ConditionVariable

CONSTANTS TimedThreads, Producers, Consumers, NotEmpty, NotFull, MaxSize

VARIABLES part,  \* the system that runs
          t_pc, t_cv, t_cvLock, t_lock, t_waitList, t_sem, t_target, t_all, t_result,
          d_pc, d_cv, d_cvLock, d_lock, d_waitList, d_sem, d_target, d_all, d_result,
          step, curSize

timedVars == <<t_pc, t_cv, t_cvLock, t_lock, t_waitList, t_sem, t_target, t_all, t_result>>
demoVars  == <<d_pc, d_cv, d_cvLock, d_lock, d_waitList, d_sem, d_target, d_all, d_result,
               step, curSize>>

Timed == INSTANCE ConditionVariable WITH
  Threads <- TimedThreads, TimedWaits <- TRUE, MaxListed <- 2,
  pc <- t_pc, cv <- t_cv, cvLock <- t_cvLock, lock <- t_lock, waitList <- t_waitList,
  sem <- t_sem, target <- t_target, all <- t_all, result <- t_result

DemoThreads == Producers \cup Consumers
Demo == INSTANCE BoundedQueueDemo WITH
  Threads <- DemoThreads, CVs <- {NotEmpty, NotFull}, TimedWaits <- FALSE, MaxListed <- 4,
  pc <- d_pc, cv <- d_cv, cvLock <- d_cvLock, lock <- d_lock, waitList <- d_waitList,
  sem <- d_sem, target <- d_target, all <- d_all, result <- d_result

ASSUME Demo!DemoAssumption

MCInit ==
  /\ Init /\ Timed!Init /\ Demo!Init /\ curSize = 0
  /\ part \in {"free", "timed", "demo"}
  /\ \/ part = "demo" /\ Demo!DemoInit
     \/ part # "demo" /\ step = [t \in DemoThreads |-> "off"] /\ d_cv = [t \in DemoThreads |-> NotFull]

MCNext ==
  \/ part = "free"  /\ Next          /\ UNCHANGED <<part, timedVars, demoVars>>
  \/ part = "timed" /\ Timed!Next    /\ UNCHANGED <<part, vars, demoVars>>
  \/ part = "demo"  /\ Demo!DemoNext /\ UNCHANGED <<part, vars, timedVars>>

MCSpec == MCInit /\ [][MCNext]_<<part, vars, timedVars, demoVars>>

\* The liveness properties of the three systems, each under its system's fairness.

\* SignalledReturns of ConditionVariable, of threads that wait without a timeout.
SignalledThreadsReturn == Fairness => SignalledReturns

\* TimedWaitReturns of ConditionVariable, of threads whose waits may time out.
TimedWaitsReturn == Timed!Fairness => Timed!TimedWaitReturns

\* KeepsGoing of BoundedQueueDemo.
DemoKeepsGoing == part = "demo" /\ Demo!DemoFairness => Demo!KeepsGoing
=============================================================================
