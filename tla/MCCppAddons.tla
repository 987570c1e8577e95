----------------------------- MODULE MCCppAddons ----------------------------
(***************************************************************************)
(* One run for three parts of the C++ wrapper that do not touch each       *)
(* other, each explored by itself: tasklets (on the variables that begin   *)
(* with t_), the work queue (w_) and the start of threads (s_).            *)
(***************************************************************************)
CONSTANTS Tasklets, Schedulers, Isr, Timer, NoTasklet, TimerQueueLength, RunSchedules,
          Clients, Worker, Items, FreeAfter, Null, MaxWorkItems,
          Starters, Objects, NoStarter

VARIABLES part,  \* the part that runs
          t_pc, t_arg, t_dtorPc, t_sem, t_queue, t_timerPc, t_current,
          w_pc, w_arg, w_fresh, w_queue, w_workerPc, w_current, w_complete, w_dtorPc,
          w_accepted, w_behind, w_ran, w_freed,
          s_active, s_started, s_guard, s_pc, s_object, s_tasks

taskletVars == <<t_pc, t_arg, t_dtorPc, t_sem, t_queue, t_timerPc, t_current>>
workVars    == <<w_pc, w_arg, w_fresh, w_queue, w_workerPc, w_current, w_complete, w_dtorPc,
                 w_accepted, w_behind, w_ran, w_freed>>
startVars   == <<s_active, s_started, s_guard, s_pc, s_object, s_tasks>>

Task == INSTANCE Tasklet WITH
  Threads <- Schedulers, QueueLength <- TimerQueueLength,
  pc <- t_pc, arg <- t_arg, dtorPc <- t_dtorPc, sem <- t_sem, queue <- t_queue,
  timerPc <- t_timerPc, current <- t_current

Work == INSTANCE CppWorkQueue WITH
  QueueLength <- MaxWorkItems,
  pc <- w_pc, arg <- w_arg, fresh <- w_fresh, queue <- w_queue, workerPc <- w_workerPc,
  current <- w_current, complete <- w_complete, dtorPc <- w_dtorPc,
  accepted <- w_accepted, behind <- w_behind, ran <- w_ran, freed <- w_freed

Thread == INSTANCE CppThread WITH
  Callers <- Starters, Nobody <- NoStarter, active <- s_active, started <- s_started,
  guard <- s_guard, pc <- s_pc, object <- s_object, tasks <- s_tasks

ASSUME TaskletConstants == Task!ConstantsAssumption
ASSUME WorkConstants == Work!ConstantsAssumption
ASSUME ThreadConstants == Thread!ConstantsAssumption

MCInit ==
  /\ Task!Init /\ Work!Init /\ Thread!Init
  /\ part \in {"tasklet", "work", "thread"}
  /\ part = "thread" \/ \A c, d \in Starters : s_object[c] = s_object[d]

MCNext ==
  \/ part = "tasklet" /\ Task!Next   /\ UNCHANGED <<part, workVars, startVars>>
  \/ part = "work"    /\ Work!Next   /\ UNCHANGED <<part, taskletVars, startVars>>
  \/ part = "thread"  /\ Thread!Next /\ UNCHANGED <<part, taskletVars, workVars>>

MCSpec == MCInit /\ [][MCNext]_<<part, taskletVars, workVars, startVars>>

\* TaskletInv of Tasklet.
TaskletsTakeTurns == Task!TaskletInv

\* CallsReturn of Tasklet, under its fairness.
TaskletCallsReturn == Task!Fairness => Task!CallsReturn

\* AllRunInOrder of CppWorkQueue.
WorkRunsInOrder == Work!AllRunInOrder

\* DestroyCompletes of CppWorkQueue, under its fairness.
WorkDestroyCompletes == Work!Fairness => Work!DestroyCompletes

\* OneTaskEach of CppThread.
OneTaskForEachThread == Thread!OneTaskEach
=============================================================================
