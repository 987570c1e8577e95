------------------------------- MODULE Logger -------------------------------
(***************************************************************************)
(* The Logger component (src/components/Logger/Logger.cpp).                *)
(*                                                                         *)
(* Logger::begin, run once by the main task, creates the lock and an       *)
(* ESP-IDF event loop with a task of its own, and then makes               *)
(* log_formatting_func the function that every ESP_LOGx of every task      *)
(* calls.  That function formats the text into a fresh buffer and posts    *)
(* the buffer's address to the event loop; the loop's task trims the text, *)
(* prints it and frees the buffer.                                         *)
(*                                                                         *)
(* A step of a task is what it does between two calls that can block or    *)
(* fail.  esp_event_post_to blocks while the loop's queue is full.         *)
(*                                                                         *)
(* The first thing the program does is to register a hook for allocations  *)
(* that fail (main.cpp:91-106).  The hook logs the failure, on the task    *)
(* whose allocation failed, and then never returns.  So no function of the *)
(* library comes back from a failed allocation; and where the allocation   *)
(* is made inside log_formatting_func, the hook's own ESP_LOGE waits for   *)
(* logLock, which its task already has.                                    *)
(***************************************************************************)
EXTENDS Naturals, Sequences, Functions, FiniteSets

CONSTANTS Tasks,      \* the tasks that call ESP_LOGx
          Texts,      \* the formatted texts, sequences of characters
          LineEnds,   \* '\n' and '\r'
          QueueSize,  \* event_loop_args.queue_size, 40 in the code
          MaxCalls,   \* bound: calls of log_formatting_func in a behaviour
          NoBuf       \* the NULL pointer

\* What a buffer of vasprintf holds; stamp tells the buffers apart and is
\* their order of formatting.
Buffers == [task : Tasks, stamp : 1..MaxCalls, text : Texts]

ASSUME ConstantsAssumption ==
  /\ IsFiniteSet(Tasks)
  /\ QueueSize \in Nat \ {0}
  /\ MaxCalls \in Nat
  /\ \A s \in Texts : s \in Seq(UNION {Range(u) : u \in Texts})
  /\ NoBuf \notin Buffers

VARIABLES
  boot,      \* where Logger::begin is
  logLock,   \* the static semaphore logLock
  hooked,    \* esp_log_set_vprintf(log_formatting_func) was called
  pc,        \* where each task is inside log_formatting_func
  calls,     \* calls of log_formatting_func so far
  clock,     \* buffers allocated so far
  buf,       \* each task's local pointer logMessage
  queue,     \* the event loop's queue of POST_LOG_MESSAGE events
  loggerPc,  \* where the event loop's task is
  current,   \* the buffer that handlePostedLogMessage works on
  heap,      \* the buffers allocated and not freed
  console    \* what puts wrote, line by line

bootVars   == <<boot, hooked>>
taskVars   == <<pc, calls, clock, buf>>
loggerVars == <<loggerPc, current, console>>
vars == <<bootVars, logLock, taskVars, queue, loggerVars, heap>>

Init ==
  /\ boot = "create" /\ logLock = "null" /\ hooked = FALSE
  /\ pc = [t \in Tasks |-> "idle"]
  /\ calls = 0 /\ clock = 0
  /\ buf = [t \in Tasks |-> NoBuf]
  /\ queue = <<>>
  /\ loggerPc = "none" /\ current = NoBuf
  /\ heap = {} /\ console = <<>>

-----------------------------------------------------------------------------
(* Logger::begin.  "off": it returned without installing                   *)
(* log_formatting_func; "panic": the ESP_ERROR_CHECK on the event loop     *)
(* aborted the program; "halted": an allocation failed and the main task   *)
(* stays in the hook, whose message still goes to the default output.      *)

BeginCreateLock ==
  /\ boot = "create"
  /\ \/ boot' = "give" /\ logLock' = "empty"
     \/ boot' \in {"halted", "off"} /\ UNCHANGED logLock
  /\ UNCHANGED <<hooked, taskVars, queue, loggerVars, heap>>

BeginGive ==
  /\ boot = "give"
  /\ boot' = "loop" /\ logLock' = "full"
  /\ UNCHANGED <<hooked, taskVars, queue, loggerVars, heap>>

BeginCreateLoop ==
  /\ boot = "loop"
  /\ \/ boot' = "register" /\ loggerPc' = "recv"
     \/ boot' \in {"halted", "panic"} /\ UNCHANGED loggerPc
  /\ UNCHANGED <<logLock, hooked, taskVars, queue, current, console, heap>>

\* Mutant: the hook is installed although the handler was not registered.
BeginRegisterIgnored ==
  /\ boot = "register"
  /\ boot' \in {"done", "off"} /\ hooked' = TRUE
  /\ UNCHANGED <<logLock, taskVars, queue, loggerVars, heap>>

BeginRegister ==
  /\ boot = "register"
  /\ \/ boot' = "done" /\ hooked' = TRUE
     \/ boot' \in {"halted", "off"} /\ UNCHANGED hooked
  /\ UNCHANGED <<logLock, taskVars, queue, loggerVars, heap>>

-----------------------------------------------------------------------------
(* log_formatting_func, on task t.                                         *)

\* The test of logLock against NULL.
Enter(t) ==
  /\ hooked /\ pc[t] = "idle" /\ calls < MaxCalls
  /\ calls' = calls + 1
  /\ pc' = [pc EXCEPT ![t] = IF logLock = "null" THEN "idle" ELSE "take"]
  /\ UNCHANGED <<bootVars, logLock, clock, buf, queue, loggerVars, heap>>

\* Mutant: the take does not wait for the semaphore.
TakeLockUnguarded(t) ==
  /\ pc[t] = "take"
  /\ logLock' = "empty"
  /\ pc' = [pc EXCEPT ![t] = "format"]
  /\ UNCHANGED <<bootVars, calls, clock, buf, queue, loggerVars, heap>>

TakeLock(t) ==
  /\ pc[t] = "take" /\ logLock = "full"
  /\ logLock' = "empty"
  /\ pc' = [pc EXCEPT ![t] = "format"]
  /\ UNCHANGED <<bootVars, calls, clock, buf, queue, loggerVars, heap>>

\* vasprintf allocated the buffer; an empty text is not posted.
Format(t) ==
  /\ pc[t] = "format"
  /\ \E s \in Texts :
       LET b == [task |-> t, stamp |-> clock + 1, text |-> s]
       IN  /\ buf' = [buf EXCEPT ![t] = b]
           /\ heap' = heap \cup {b}
           /\ pc' = [pc EXCEPT ![t] = IF Len(s) > 0 THEN "post" ELSE "give"]
  /\ clock' = clock + 1
  /\ UNCHANGED <<bootVars, logLock, calls, queue, loggerVars>>

\* The allocation-failed hook runs on task t, from inside log_formatting_func:
\* its ESP_LOGE calls log_formatting_func again, which waits for logLock.  The
\* semaphore does not count who has it; task t will never give it.
EnterHook(t) == pc' = [pc EXCEPT ![t] = "hook"]

\* vasprintf finds no memory.
FormatFails(t) ==
  /\ pc[t] = "format" /\ EnterHook(t)
  /\ UNCHANGED <<bootVars, logLock, calls, clock, buf, queue, loggerVars, heap>>

\* Mutants of Post: one event more than the queue has room for; the event goes
\* to the front.
PostToFullQueue(t) ==
  /\ pc[t] = "post" /\ Len(queue) <= QueueSize
  /\ queue' = Append(queue, buf[t])
  /\ pc' = [pc EXCEPT ![t] = "give"] /\ buf' = [buf EXCEPT ![t] = NoBuf]
  /\ UNCHANGED <<bootVars, logLock, calls, clock, loggerVars, heap>>

PostToFront(t) ==
  /\ pc[t] = "post" /\ Len(queue) < QueueSize
  /\ queue' = <<buf[t]>> \o queue
  /\ pc' = [pc EXCEPT ![t] = "give"] /\ buf' = [buf EXCEPT ![t] = NoBuf]
  /\ UNCHANGED <<bootVars, logLock, calls, clock, loggerVars, heap>>

\* Logger::log and post_event, waiting portMAX_DELAY for room in the queue.
Post(t) ==
  /\ pc[t] = "post" /\ Len(queue) < QueueSize
  /\ queue' = Append(queue, buf[t])
  /\ pc' = [pc EXCEPT ![t] = "give"]
  /\ buf' = [buf EXCEPT ![t] = NoBuf]
  /\ UNCHANGED <<bootVars, logLock, calls, clock, loggerVars, heap>>

\* esp_event_post_to finds no memory for its own copy of the event.
PostFails(t) ==
  /\ pc[t] = "post" /\ EnterHook(t)
  /\ UNCHANGED <<bootVars, logLock, calls, clock, buf, queue, loggerVars, heap>>

GiveAndReturn(t) ==
  /\ pc[t] = "give"
  /\ logLock' = "full"
  /\ pc' = [pc EXCEPT ![t] = "idle"]
  /\ buf' = [buf EXCEPT ![t] = NoBuf]
  /\ UNCHANGED <<bootVars, calls, clock, queue, loggerVars, heap>>

-----------------------------------------------------------------------------
(* The event loop's task: static_event_handler, event_handler and          *)
(* handlePostedLogMessage on the event at the head of the queue.           *)

\* Mutant: only one line end is removed.
TrimOne(s) == SubSeq(s, 1, IF s[Len(s)] \in LineEnds THEN Len(s) - 1 ELSE Len(s))

\* The loop that replaces trailing line ends by NUL, from the last one back.
Trim(s) ==
  LET msgEnd[i \in 0..Len(s)] ==
        IF i > 0 /\ s[i] \in LineEnds THEN msgEnd[i - 1] ELSE i
  IN  SubSeq(s, 1, msgEnd[Len(s)])

\* Mutant: the handler takes logLock too ("one message at a time").
LoggerReceiveLocked ==
  /\ loggerPc = "recv" /\ queue # <<>> /\ logLock = "full"
  /\ current' = Head(queue) /\ queue' = Tail(queue)
  /\ loggerPc' = "print"
  /\ UNCHANGED <<bootVars, logLock, taskVars, console, heap>>

LoggerReceive ==
  /\ loggerPc = "recv" /\ queue # <<>>
  /\ current' = Head(queue) /\ queue' = Tail(queue)
  /\ loggerPc' = "print"
  /\ UNCHANGED <<bootVars, logLock, taskVars, console, heap>>

LoggerPrint ==
  /\ loggerPc = "print"
  /\ console' = Append(console, [current EXCEPT !.text = Trim(@)])
  /\ loggerPc' = "free"
  /\ UNCHANGED <<bootVars, logLock, taskVars, queue, current, heap>>

\* Mutant: the handler leaves the buffer to the event library.
LoggerFreeForgotten ==
  /\ loggerPc = "free"
  /\ current' = NoBuf /\ loggerPc' = "recv"
  /\ UNCHANGED <<bootVars, logLock, taskVars, queue, console, heap>>

LoggerFree ==
  /\ loggerPc = "free"
  /\ heap' = heap \ {current}
  /\ current' = NoBuf /\ loggerPc' = "recv"
  /\ UNCHANGED <<bootVars, logLock, taskVars, queue, console>>

-----------------------------------------------------------------------------
Begin  == BeginCreateLock \/ BeginGive \/ BeginCreateLoop \/ BeginRegister
LogCall(t) == \/ Enter(t) \/ TakeLock(t) \/ Format(t) \/ FormatFails(t)
              \/ Post(t) \/ PostFails(t) \/ GiveAndReturn(t)
LoggerTask == LoggerReceive \/ LoggerPrint \/ LoggerFree

Next == Begin \/ (\E t \in Tasks : LogCall(t)) \/ LoggerTask

\* A task inside the lock runs on, and so does the event loop's task; whether
\* a waiting task gets the lock, and whether there is memory, is not decided by
\* this code.
Fairness ==
  /\ \A t \in Tasks : /\ WF_vars(Format(t) \/ FormatFails(t))
                      /\ WF_vars(Post(t))
                      /\ WF_vars(GiveAndReturn(t))
  /\ WF_vars(LoggerTask)

Spec == Init /\ [][Next]_vars /\ Fairness

-----------------------------------------------------------------------------
(* Properties.                                                             *)

\* Task t is past its take of logLock; InHook: and will not give it any more.
Inside(t) == pc[t] \in {"format", "post", "give", "hook"}
InHook(t) == pc[t] = "hook"

InQueue == Range(queue)
Owned == ({buf[t] : t \in Tasks} \cup InQueue \cup {current}) \ {NoBuf}

\* Every variable keeps its type, and the queue its size.
TypeOK ==
  /\ boot \in {"create", "give", "loop", "register", "done", "off", "panic", "halted"}
  /\ logLock \in {"null", "empty", "full"}
  /\ hooked \in BOOLEAN
  /\ pc \in [Tasks -> {"idle", "take", "format", "post", "give", "hook"}]
  /\ calls \in 0..MaxCalls /\ clock \in 0..MaxCalls
  /\ buf \in [Tasks -> Buffers \cup {NoBuf}]
  /\ queue \in Seq(Buffers) /\ Len(queue) <= QueueSize
  /\ loggerPc \in {"none", "recv", "print", "free"}
  /\ current \in Buffers \cup {NoBuf}
  /\ heap \subseteq Buffers

\* "internal lock to ensure that only one log message is handled at a time"
\* (Logger.cpp:32): at most one task is past the take of logLock, and the
\* semaphore is empty exactly while one is (or until begin first gives it).
OneMessageAtATime ==
  /\ \A t, u \in Tasks : Inside(t) /\ Inside(u) => t = u
  /\ (\E t \in Tasks : Inside(t)) => logLock = "empty"
  /\ boot = "done" /\ logLock = "empty" => \E t \in Tasks : Inside(t)

\* A buffer has one owner at a time (the task that formats it, the queue or the
\* event handler), and nobody owns a buffer that was freed: puts never reads
\* freed memory and no buffer is freed twice.
SingleOwner ==
  /\ Owned \subseteq heap
  /\ \A i, j \in DOMAIN queue : queue[i] = queue[j] => i = j
  /\ \A t \in Tasks : buf[t] # NoBuf =>
       /\ buf[t] \notin InQueue \cup {current}
       /\ \A u \in Tasks : buf[u] = buf[t] => u = t
  /\ current \notin InQueue

\* A buffer that nobody owns any more is an empty text, which
\* log_formatting_func drops.
OnlyDroppedBuffersLeak == \A b \in heap \ Owned : b.text = <<>>

\* The memory in flight is bounded by the queue: a burst of logging holds at
\* most QueueSize + 2 buffers, one being formatted and one being printed.
BoundedMemory == Cardinality(Owned) <= QueueSize + 2

\* The lines appear in the order in which their texts were formatted, whatever
\* tasks they come from, and none appears twice.
ConsoleInFormatOrder ==
  \A i, j \in DOMAIN console : i < j => console[i].stamp < console[j].stamp

\* Why it works, as an inductive invariant.  Nobody logs before begin installed
\* the hook, and from then on the semaphore is there and used as a mutex.
LockInv ==
  /\ hooked <=> boot = "done"
  /\ ~hooked => \A t \in Tasks : pc[t] = "idle"
  /\ boot \in {"loop", "register"} => logLock = "full"
  /\ boot \in {"create", "give", "loop"} => loggerPc = "none"
  /\ OneMessageAtATime

\* Every call formats at most one text, so the stamps suffice.
Formatting == {t \in Tasks : pc[t] \in {"take", "format"}}
ClockInv == clock + Cardinality(Formatting) <= calls

\* A buffer that a task holds is the newest one; when the task leaves with it,
\* it is one that is dropped.
BufferInv ==
  /\ \A t \in Tasks : buf[t] # NoBuf => pc[t] \in {"post", "give", "hook"} /\ buf[t].stamp = clock
  /\ \A t \in Tasks : pc[t] = "post" => buf[t] # NoBuf
  /\ \A t \in Tasks : pc[t] = "give" /\ buf[t] # NoBuf => buf[t].text = <<>>
  /\ current # NoBuf <=> loggerPc \in {"print", "free"}

\* The console, the buffer being printed and the queue are in the order of
\* formatting, and older than what a task holds.
Held == {t \in Tasks : buf[t] # NoBuf}
Given == IF Held = {} THEN clock ELSE clock - 1
OrderInv ==
  /\ console \in Seq(Range(console)) /\ ConsoleInFormatOrder
  /\ \A i \in DOMAIN console : console[i].stamp \in 1..Given
  /\ current # NoBuf =>
       /\ current.stamp <= Given
       /\ \A i \in DOMAIN console :
            \/ console[i].stamp < current.stamp
            \/ loggerPc = "free" /\ console[i].stamp = current.stamp
  /\ \A i, j \in DOMAIN queue : i < j => queue[i].stamp < queue[j].stamp
  /\ \A j \in DOMAIN queue :
       /\ queue[j].stamp <= Given
       /\ current # NoBuf => current.stamp < queue[j].stamp
       /\ \A i \in DOMAIN console : console[i].stamp < queue[j].stamp

\* Everything that has an owner is allocated, and nothing else but what is dropped.
HeapInv == /\ Owned \subseteq heap /\ OnlyDroppedBuffersLeak
           /\ \A b \in heap : b.stamp <= clock

LoggerInv == TypeOK /\ LockInv /\ ClockInv /\ BufferInv /\ OrderInv /\ HeapInv

\* A task that got the lock comes out of log_formatting_func again, however full
\* the queue is, as long as its own allocations succeed there: one that fails
\* ends in the hook (see NotLostInRecursion).
HolderReturns == \A t \in Tasks : Inside(t) ~> pc[t] = "idle" \/ InHook(t)

\* A message that was posted is printed and its buffer freed.
PostedIsPrintedAndFreed ==
  \A k \in 1..MaxCalls :
    (\E b \in InQueue : b.stamp = k) ~>
      /\ \E i \in DOMAIN console : console[i].stamp = k
      /\ \A b \in heap : b.stamp # k

\* The logger implements the channel: what was posted and is not yet printed is
\* pending, and the console is what was shown.
Channel == INSTANCE LogChannel WITH
             Messages <- Buffers,
             pending <- IF loggerPc = "print" THEN <<current>> \o queue ELSE queue,
             shown <- console

ImplementsChannel == Channel!Spec

\* Logger.cpp:47-50: the allocated message "will finally end up in the event
\* processing function", which "will be responsible for freeing" it.  So once
\* log_formatting_func returned, its buffer is with the event loop or freed.
EveryBufferReachesTheHandler == heap \subseteq Owned

\* Logger.cpp:18-19: "Logger does not USE ESP_LOGx logging (or else we'd be lost
\* in recursion hell) except in begin()".  So a task that logs from the hook does
\* not wait for a lock that it has itself: the lock is free, or somebody else's.
NotLostInRecursion ==
  \A t \in Tasks : InHook(t) => logLock = "full" \/ \E u \in Tasks \ {t} : Inside(u)
=============================================================================
