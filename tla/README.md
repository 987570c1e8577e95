# Verification of the ESP32 application template

TLA+ models of the application in `src/`, checked by TLC on small instances, and
theorems about them proved by TLAPS for every value of the constants. `FA` stands
for `src/components/freertos-addons/freertos-addons`.

Contents: 1 [the system](#1-the-system) – 2 [the modules](#2-the-modules) –
3 [the runs](#3-the-runs) – 4 [the proofs](#4-the-proofs) – 5 [findings](#5-findings) –
6 [not modelled](#6-not-modelled)

## 1. The system

An ESP32 program (ESP-IDF, FreeRTOS, two cores). `app_main` starts the parts in a
fixed order and then ticks once a second; each part runs on a task of its own. The
parts meet in few places, and these are where things can go wrong: the log hook that
every task calls, the console that calls functions registered by other parts, the
Bluetooth callbacks, and the synchronisation library `freertos-addons`.

| component | state | operations | talks to | what is hard | what makes it correct |
|---|---|---|---|---|---|
| **Logger** (`src/components/Logger`) | the semaphore `logLock`, the event loop and its queue of 40, the buffers on the heap | `begin`; `log_formatting_func` on any task; the event handler on the loop's task | every `ESP_LOGx` of every task; ESP-IDF event loop | tasks format and post concurrently; the poster waits for room with the lock in its hand; buffers change owner; the hook of failed allocations logs, also from inside the logger | each buffer has one owner, lines appear whole, once, in formatting order; a full queue blocks nobody for ever |
| **Read/write locks** (`FA/c/Source/read_write_lock.c`, `FA/c++/Source/cread_write_lock.cpp`) | two counts, up to two mutexes and two binary semaphores | `ReaderLock`, `ReaderUnlock`, `WriterLock`, `WriterUnlock`, creation, freeing | any thread | a semaphore taken by one thread and given by another; sleeping on one lock with another in hand | writers alone, readers share, exact counts, no deadlock, the promised preference |
| **Work queue, C** (`FA/c/Source/workqueue.c`) | a list of items under a mutex, a binary semaphore, the exit flag, the worker thread | create, `QueueWorkItem`, `DestroyWorkQueue`, the worker | any thread; work functions call back into it | the one-bit event against many items; destruction against callers | every accepted item runs once, in order; nothing leaks or is used after it is freed |
| **BLE server** (`src/components/Bluetooth`) | one profile record per service (interface, connection, handles), advertising flags, subscription and battery level | GATT and GAP callbacks on the Bluetooth task; `setBatteryLevel`, console commands on other tasks | Bluedroid, console | events of several connections in sequence; state that outlives a connection; console task against Bluetooth task | notifications go to the client that asked, attribute and level agree, advertising resumes after a disconnect |
| **Command line** (`src/components/CommandLine`) | the list of commands of `esp_console` | the console task; registration from the main and the Bluetooth task | all parts that register commands | registration while the console looks commands up | a registered command is found |
| **Pilot light** (`src/components/PilotLight`) | on and off time, the LED strip | the blinking task; `setOnOffTime` from the console | LED strip, console, core 1 | times below a tick starve the console; two times are written one by one | the light blinks with times that were set; the console stays alive |
| **LED strip** (`src/components/led_strip`) | pixel buffer, encoder state | `set_pixel`, `refresh`, `clear`; the encoder's callback | RMT driver | the encoder stops when the RMT memory is full and goes on later | every byte and then the reset code are sent once |
| **Main, console commands, events, priorities** (`src/main`, `AppEvents`, `priorities`) | the start order | `setup`, `loop` | all | commands that use parts started later | every part is started before it is used |
| **C++ threads, condition variables, work queue, tasklets, tick hooks, read/write locks, memory pools** (`FA/c++/Source`) | a task and a semaphore per object, static lists and flags | see the headers | kernel | object deletion against running tasks, timeouts against signals, construction that fails | no lost signal, no use after deletion |
| **C memory pools, zero-copy queue, lists, queue, stack** (`FA/c/Source`) | linked lists, free lists | alloc, free, add memory, enqueue, dequeue, ... | each other | pointer surgery, alignment arithmetic | the list is the sequence it stands for; no two items overlap |
| **C++ wrappers** (queues, semaphores, mutexes, timers, event groups) | the kernel's handle | one kernel call each | kernel | – | – |
| **Demos and unit tests** (`FA/Linux`, `FA/c/UnitTests`) | – | – | – | – | not part of the program |

How they interact. `main.cpp:103-134` starts logger, console, Bluetooth, pilot light
in that order and then registers its own commands; logger, console and pilot light are
pinned to core 1 with priorities 8, 6 and 7. All logging goes through
`log_formatting_func`. The console task runs the command functions of the pilot light
(`cmd_pilot`), of Bluetooth (`cmd_bluetooth`, `cmd_batt`) and of `main`. The Bluetooth
callbacks run on Bluedroid's task and register one more command. The locks, queues and
threads of `freertos-addons` are the library the parts are built on.

`PROJECT.json` lists every hazard at its line, with the properties that cover it.

## 2. The modules

| module | models | kind |
|---|---|---|
| `LogChannel` | what the logger promises | abstract specification |
| `Logger`, `Logger_proofs` | `Logger.cpp` | detailed, proofs |
| `RWLock` | what both read/write locks promise | abstract specification |
| `RWLockPreferReader`, `RWLockPreferReader_proofs` | the lock that prefers readers | detailed, proofs |
| `RWLockPreferWriter`, `RWLockPreferWriter_proofs` | the lock that prefers writers | detailed, proofs |
| `WorkQueue`, `WorkQueue_proofs` | `workqueue.c` | detailed, proofs |
| `BleServer` | `Bluetooth.cpp` and its three services | detailed |
| `PilotLight` | `PilotLight.cpp` and the loop of `CommandLine.cpp` on core 1 | composition |
| `LedStrip` | `led_strip_api.c`, `led_strip_rmt_dev.c`, `led_strip_rmt_encoder.c` | detailed |
| `Application_proofs` | `BleServer` and `LedStrip` | proofs |
| `ConditionVariable` | `ccondition_variable.cpp`, `Thread::Wait` | detailed |
| `BoundedQueueDemo` | the demonstration of producers and consumers, on top of `ConditionVariable` | composition |
| `Tasklet` | `ctasklet.cpp` | detailed |
| `CppThread` | `Thread::Start` | detailed |
| `CppWorkQueue` | `cworkqueue.cpp` and the end of its thread | detailed |
| `CppWrapper_proofs` | `ConditionVariable`, `Tasklet`, `CppThread`, `CppWorkQueue` | proofs |
| `MemPool` | `mem_pool.c` | detailed |
| `ZeroCopyQueue` | `zero_copy_queue.c`, on top of `MemPool` | composition |
| `CppMemPool` | `cmem_pool.cpp`: what differs from `MemPool` | detailed |
| `Containers_proofs` | `MemPool`, `CppMemPool`, `ZeroCopyQueue`, `SList`, `DList` | proofs |
| `NodeLists` | what lists, queue and stack promise | abstract specification |
| `SList`, `DList` | `slist.c` with `stack_simple.c`, `dlist.c` with `queue_simple.c` | detailed |
| `QueueLemmas` | lemmas on sequences used as queues, and on pointers that lead through a sequence of nodes | proofs |
| `MCLogger`, `MCApplication`, `MCConditionVariables`, `MCCppAddons`, `MCContainers` | instances for the runs | model checking |

Throughout, a step is what a task does between two calls that can block, fail or be
overtaken; several assignments under one lock are one step when nobody else reads what
they assign. A definition whose comment calls it a mutant or a slip, and that `Next` does
not use, is not part of the specification: it is a plausible bug in the definition that
follows it, and the property named with it in
`PROJECT.json` is violated when the mutant takes that definition's place.

**Logger.** `boot` follows `Logger::begin` with the failure of each of its calls:
without the semaphore or without a registered handler it returns and the hook is not
installed; without an event loop the program panics. `pc[t]` is where task t is in
`log_formatting_func`: `Enter` (the test for a NULL semaphore), `TakeLock`, `Format`
(`vasprintf` allocates; the texts are a small set), `Post` (`esp_event_post_to` waits for
room in the queue), `GiveAndReturn`. An allocation that fails does not come back:
`main.cpp:106` registers, before anything else, a hook that logs the failure and then loops
for ever. During `begin` this stops the main task (`boot = "halted"`); inside
`log_formatting_func` (`FormatFails`, `PostFails`) the hook's own `ESP_LOGE` waits for
`logLock`, which its task has (`pc[t] = "hook"`): finding 2. The loop's task receives, trims
and prints, frees. `stamp` is a history variable that tells buffers apart and orders them.

**Read/write locks.** One action per semaphore call or change of a count. The two
kernel objects behave differently and are modelled so: a mutex is `Nobody` or its
holder and only the holder gives it; a binary semaphore is a count of 0 or 1 that any
thread may give. `Goto` moves one thread to its next statement. A thread unlocks what it
locked (what the functions ask of their callers) and does so for ever.

**Work queue.** `createPc`/`have` follow `CreateWorkQueueEx`, with an error path of its own
for each resource that is not to be had (`Undo`, `CreateUndo`: what the path frees, call by
call), and the deletions at the worker's end one by one (`WorkerDelete`); `pc[c]` is where caller c
is in `QueueWorkItem` or `DestroyWorkQueue`, `workerPc` where the worker is. The worker
is a caller too while a work function runs, since work functions may queue more work
and destroy their queue. `DestroyWaits` is the discipline of the clients: with `TRUE`
nobody destroys the queue while another client is inside a call. `accepted` and `ran`
are history variables.

**BLE server.** `beginPc` follows `BLE::begin` on the main task (`BeginRegister`,
`BeginCommand`); `events` is the queue of the stack's task, whose handlers are
`OnRegister`, `OnTable`, `OnAdvConfig`, `OnConnect`, `OnDisconnect`, `OnWrite`: each takes the
first event, finds the services by interface (`Recipients`, the loop of
`gatts_event_handler`) and does what they all do with it. The console's task goes from the
copies of connection and handle (`TypeSend`, `TypeBattery`) over `SetLevel` and `SetAttr` to
`Notify`, which tests the subscription and sends. The stack's answers and the clients are
external: an application may get no interface, a table may not be made, the start of a
service (`bt_svc_app.cpp:336-338`) or of advertising (`Bluetooth.cpp:306-309`) may fail, which
the code logs and forgets (`refused`, `advStart`); clients come when
the server advertises, write what they like and read the level. Left out: the texts of the
device information, device name, MTU, connection parameters, and how the stack answers a
write. `wish`, `asked`, `known`, `missed`, `told` and `crowded` are history variables.

**Pilot light and console.** Both tasks are pinned to core 1 and the light has the higher
priority, so each step of the console needs the light to sleep or to wait for the strip
(`~LightReady`). `MsToTicks` and `pdMS_TO_TICKS` are the two conversions of the code: the
second one, of FreeRTOS, multiplies first and wraps. `Neopixel` is the build: with a pin the
light never waits for anything but its own delay (the default for the ESP32-S3).

**LED strip.** The driver's calls, and the encoder as the RMT interrupt calls it: each call
finds some free symbols (`room`), writes what fits and either leaves or falls through to the
reset code. `wire` is what was written since the refresh began; the strip that reads it is
external. The channel and its two elementary encoders are ESP-IDF's, modelled from the two
flags the code tests. `Del` returns at the first of its three calls that fails: a channel that
is not disabled goes on working, after a later failure the handle is of no use and what was
not freed stays (`strip = "broken"`).

**Condition variables.** Each take and give of the condition variable's mutex, of the
caller's `CvLock` and of the threads' own `ThreadWaitSem` is a step. `TimedWaits` lets a
`Wait` time out. `BoundedQueueDemo` puts the loops of the demonstration's threads on top;
the items themselves do not matter, only their number.

**Tasklets.** `Schedule` by threads and by tasklets, `ScheduleFromISR` by one interrupt,
the timer task's bounded queue of commands (external), the destructor. `RunSchedules` lets
a tasklet's `Run` schedule tasklets.

**C++ threads and work queue.** `CppThread` is `Start`: the test and the setting of
`ThreadStarted`, under `StartGuardLock` once `SchedulerActive` is set and without before.
Before that the calls of `Start` come one after the other, as they do in `main.cpp`.
`CppWorkQueue` follows an item from `QueueWork` to the worker, which may itself queue work
from an item's `Run`, also while the destructor waits for it, and the destructor against the
worker's end (`Complete`, `DeleteItself`). Clients call the destructor when none of them is
inside `QueueWork`, and do not queue afterwards. The worker may not be startable
(`Construct`), and `~Thread` may delete a task that has already deleted itself
(`DtorDeleteThread`: "undefined").

**Memory pools.** An item is named by the piece of memory it lies in and its place there,
so that addresses are computed only where a property asks for them. Memory is added item by
item (`Push`) while others allocate and free. `left` is what the loop's condition reads and `step`
what the loop takes off it, which is nothing in `AddExtraMemoryToPoolStatic`: the loop goes on
to the first item that is not inside the memory (`PushOutside`), where the model stops, since
from there on foreign memory is overwritten. Creation that fails changes nothing and is not
a step. `ItemCount * ItemSize` is taken to fit an `int`. `ZeroCopyQueue` adds the kernel's
queue of pointers; `CppMemPool` replaces what the C++ version does differently.

**Lists.** A heap of nodes with their pointer fields, one head used as a list and one as a
queue or stack, and every operation as the change of pointers it makes; removed nodes keep
theirs, as in the code. `Walk` reads a list off the pointers, and is the refinement mapping
to `NodeLists`.

## 3. The runs

Distinct states are those TLC reports; a passing run takes less than two minutes or so.

Components that do not touch each other share a run. Their `MC` module extends one of them,
instantiates the others on variables of their own, and picks in its initial state, by the
variable `part`, which of them runs; the variables of the others keep their initial values, so
that the state space is the sum and not the product. (The pools and the zero-copy queue, which
is a pool itself, share the variables of `MemPool`, and nothing else of each other's.) The
invariant of a part is `part = ... => Inv`. A liveness property of such a run is
`Fairness => Property` with the fairness of the part it is about.

| run | instance | states | what it shows |
|---|---|---|---|
| `logger` | 2 tasks, queue of 2; 3 calls of 4 texts, or 5 calls of 2 texts | 62 000 | the inductive invariant (one owner per buffer, only empty texts leak), lines in formatting order, at most `QueueSize + 2` buffers in flight; the lock holder returns unless it is caught in the hook; what is posted is printed and freed; implements `LogChannel` |
| `logger_leak` | 2 tasks | | finding 1 |
| `logger_recursion` | 2 tasks | | finding 2 |
| `rwlock_prefer_reader` | 4 threads, unbounded | 3 300 | exact count and exclusion (`LockInv`), somebody always gets in, no deadlock, implements `RWLock` |
| `rwlock_prefer_writer` | 4 threads, unbounded | 24 000 | the same, no reader overtakes a registered writer, readers cannot starve writers |
| `workqueue` | 2 clients and the worker, 4 items | 12 000 | the inductive invariant; no lost wakeup, order, everything accepted is run, destruction completes; every error path of the creation and the worker's end free what there is, once, and use nothing that was freed |
| `workqueue_dropped` | the same, destruction overlaps calls | | finding 3 |
| `application`: set-up | 2 connections' numbers, one connection | 460 000 in all | with every failure of the stack: a service whose table exists is started, or its start failed; without clients the server can be found, or the start of advertising failed since |
| `application`: battery | 1 connection, 1 write, 2 commands, levels 1 and 101 | | attribute and level agree whenever the table is made, and a client misses no level, under the conditions of `LevelIsServed` |
| `application`: subscriptions | 2 connections, 2 writes of 3 values, plain or prepared | | the last plain subscription of the client is in force, in the right service |
| `application`: shared | 3 connections of 2 numbers, at a time and one after the other, 1 write, 1 command | | both, with clients that come while a command holds an older number |
| `application`: `LedStrip` | 2 LEDs, bytes of 2 bits, memories of 2, 7 and 12 symbols | | every bit once, the reset code once and last, the refresh returns; failed creation leaks nothing, a failed deletion frees what it reached |
| `application`: `PilotLight` | 2 commands with 4 numbers, both builds | | the console stays alive and the light obeys the last command, unless both times are below a tick |
| `ble_advertising` | 1 connection | | finding 4 |
| `condition_variables`: free | 3 threads, 1 condition variable | 147 000 in all | every waiting thread is owed one wakeup; who is signalled or broadcast comes back |
| `condition_variables`: timed | 2 threads | | with timeouts every wait ends with the mutex taken again |
| `condition_variables`: demo | 2 producers, 2 consumers, 1 place | | the program never stops |
| `cpp_addons`: `Tasklet` | 2 threads, an interrupt, 2 tasklets, 1 command | 117 000 in all | under way once at a time, not deleted meanwhile; calls and destructors return |
| `cpp_addons`: `CppWorkQueue` | 2 clients and the worker, 4 items, queue of 2 | | every accepted item runs once, in order, before anything is deleted, but those put behind the NULL; the destructor returns, with the three exceptions of `DestroyCompletes` |
| `cpp_addons`: `CppThread` | 3 callers, 2 objects | | one task at most for each thread |
| `containers`: `MemPool`, `CppMemPool` | 2 threads, 3 pieces, sizes and alignments on both sides of each other | 207 000 in all | items inside their memory, with room for node and data, aligned like their memory, with one owner; in C until the endless loop leaves its memory, in C++ always |
| `containers`: `ZeroCopyQueue` | 2 threads, 2 items | | each item is in one place, none is lost, the queue has room for each |
| `containers`: `SList`, `DList` | 4 and 3 nodes, any sequence of calls | | implement `NodeLists` |

**Bounds, and why they suffice.** The locks are finite-state for a given number of
threads; four threads give two readers and two writers at once, the least in which "the
first" and "the last" of each kind differ while the other kind waits. `QueueSize` is 2
instead of 40: the code only distinguishes "room" from "no room", two places have an order,
and two tasks reach both with one of them behind the lock. `MaxCalls` (5; 3 with texts of
every kind) and
`MaxItems` (4) bound behaviours, not the state at one moment: they exceed the queue plus
the buffer in the handler and the one being formatted, so a full queue, a blocked poster
and a busy handler happen together; four items let a work function queue an item behind
the items of two clients. The texts are an ordinary line, one with a line end inside and
two behind, one that is only a line end, and the empty text: every case of the trimming
loop.

`BleServer` bounds connections, writes and commands: two of each give a client after
another and a value after another. Three connections with two numbers let a client go, another
come with its number or the other one, and a third share the server, while one command is on its
way. The level begins with 0, and 101 is the first level that
is refused.

The condition variable has three threads: a signaller and two waiters, the least in which a
wakeup can go to the wrong one; `MaxListed` bounds the entries that timeouts leave behind.
The demonstration has two of each kind, so that a producer can overtake one that was
signalled. The tasklets share a queue of one command: any second one is refused or waits. In
the C++ work queue four items against two places make the destructor's NULL wait. The memory
pool's sizes and alignments lie on both sides of each other and of the node (pointers of 4
bytes). Memory of 10 bytes leaves a rest behind its items; the 9 bytes that a thread adds have room for
one item of a C pool of size 8, where the loop then leaves the memory, for none of the larger
ones, where it ends at once, and for up to two items of a C++ pool; three pieces allow two
threads to add memory at once.
In the zero-copy queue two items show the order and the limit. Pixels are
bytes of two bits, so that two LEDs are twelve bits: the memory sizes make the memory fill up
in the middle, exactly with the last bit and at the reset code.
With three nodes a list has two ends, a middle and, after a removal, a node outside. In
`PilotLight` a word is 10^6 instead of 2^32; the typed numbers do not wrap in the passing run, since `MaxCommands`
of two suffices for a command to overtake another and the wrapped time would be a shorter
time, which `Times` contains. `Times` has 0, which is refused, 5 ms, which becomes no tick at
all, the tick itself, and a time between two ticks.

**Deadlock** is checked for the locks. The other systems really stop: at the bound, after a
failed creation, destroyed, when everybody waits and nobody signals, or when nobody connects.
That a part which has to go on does go on is what the liveness properties say, `DemoKeepsGoing`
for the demonstration and `PilotObeysCommands` for the console.

**Invariants.** `LockInv`, `QueueInv`, `LoggerInv`, `CondVarInv`, `TaskletInv` (in
`TaskletsTakeTurns`), `PoolInv` and `CppPoolInv` (in `CPool`, `CppPool`) are, but for the
alignment that follows, the inductive invariants of section 4; each contains the `TypeOK` of its module. The runs check them as a
whole, not what follows from them: `Exclusion` and `AdmittedReaderNeverWaits` of the locks,
`ItemOwnership` of the work queue, `SingleOwner`, `OneMessageAtATime` and
`OnlyDroppedBuffersLeak` of the logger are proved consequences. Of the other parts the runs
check what is promised, and section 4 names the inductive invariant it follows from
(`SubscriptionInv`, `LevelInv`, `WorkInv`, `ThreadInv`, `ZcqInv`; `LedInv`).

**Fairness.** Weak where it suffices: the scheduler keeps running ready tasks. In `Logger` a task
inside the lock and the loop's task go on (the loop's task has the highest of the
priorities and waits for nothing but events), but nothing is assumed of a task that
waits for the lock, nor that memory is ever or never short; from the hook nobody returns. In the locks and the work queue
a thread inside a call goes on when it can; when several threads compete for one
semaphore nothing is promised to any one of them, so no property says that a *given*
thread gets in. In `RWLock*` a thread that has the lock returns it, in `WorkQueue` a
work function returns: without these no lock and no queue makes progress. Nobody has to
*call* anything. In `BleServer` the stack answers requests and hands its events over; no
client has to connect or leave, and no command is typed.

Strong fairness stands where a task waits on a semaphore or a queue that is given again and
again: FreeRTOS hands it to the task that has waited longest among those of the highest
priority, so of tasks of equal priority none is passed over for ever. So it is for the mutexes
of the condition variables (`ConditionVariable`, `BoundedQueueDemo`), for the places of the
timer task's queue and `DtorLock` (`Tasklet`), for room in the work queue (`CppWorkQueue`) and
for the console, which has the core whenever the light sleeps (`PilotLight`). That `CvLock` is
given back again and again is supposed of its users together, not of each of them. In `LedStrip` the
interrupt comes as long as a transmission is under way, and in `PilotLight` time passes.

**Properties that hold for a reason worth stating.** `AdmittedReaderNeverWaits` holds
although the code takes `ResourceLock` with a mutex and a semaphore in its hands:
whoever could have the resource would have kept the reader out at `BlockReadersLock`.
`WriterUnlock` gives the resource *before* it uncounts itself; `LockInv` (its part
`CountsExact`) and `NoReaderOvertakes` show that a writer that comes and goes in between neither lets
readers in early nor leaves them out for ever. The worker reads `ExitThread` under the
lock *after* it found the queue empty: this order is what `AcceptedIsRun` rests on.

## 4. The proofs

Proved by TLAPS (SMT, Zenon, LS4) for every finite set of threads or tasks and every
value of the other constants that the `ASSUME` of the module admits.

**Read/write locks.** Exclusion is not inductive: that a writer is alone depends on who
has `ResourceLock`, which depends on the count, which depends on the mutex. `LockInv`
(an invariant of the runs too) says it all at once:

- `MutexInv`: a thread is at a label between take and give of a mutex iff it is its holder;
- `ReadCountExact`/`CountsExact`: the counts are the cardinalities of the sets of counted
  threads (a thread is counted from the increment to the decrement);
- `ResourceInv`: `ResourceLock` is free iff nobody has it, where the readers have it from
  the first one's take to the last one's give; the thread about to take it is the only
  counted reader, and about to give it there is none;
- `BlockInv` (writer preference only): the same for `BlockReadersLock`, between the
  writers and one reader on its way in.

The step lemmas (`StepMutexInv`, `StepCountsExact`, `StepResourceInv`, `StepBlockInv`)
prove each part for each action. Cardinalities enter in one lemma on finite sets
(`CountedCardinality`, `CardinalityOfThreads`); what moving a thread does to the sets in
`GotoMoves` or `Joins`, `Leaves` and `Unmoved`; `HolderAlone` says what the mutex excludes.
From the invariant follow `WriterIsAlone`, `ReaderWaitsForAWriter`,
`AdmittedReaderGoesOn`, the action property `WritersFirst`, and `Implementation`: each
lock implements `RWLock`, by `StartReading` at the last step of `ReaderLock`,
`StopReading` at the call of `ReaderUnlock`, `StartWriting` and `StopWriting` where
`ResourceLock` is taken and given, every other step a stutter.

**Condition variables** (`CppWrapper_proofs`), for any threads and condition variables,
as long as no wait times out (section 5 says why). `CondVarInv`: the two kinds of mutex
have one holder, and a thread inside `Wait` is owed one wakeup, which is in exactly one place:
its entry on the list, the hands of a thread that is about to give it, or its semaphore.
There is a lemma for each step that moves the wakeup (`AddStep`, `FirstStep`, `GiveStep`,
`TakeStep`) and one for all the others (`QuietStep`). The theorem is `WakeupsAreOwed`.

**Tasklets** (`CppWrapper_proofs`), for any tasklets, threads and queue length, with or without
tasklets that schedule tasklets. `TaskletInv` says where the one token of `DtorLock` is: in
the semaphore, with a caller that is about to hand it over or give it back, with the queue,
with the timer task, or with the destructor. Hence a tasklet is under way once at a time and
is never deleted while it is (`TaskletTurns`).

**C++ threads and work queue** (`CppWrapper_proofs`). `OneTaskPerObject`: between the test of
`ThreadStarted` and its setting a caller has `StartGuardLock`, or is the only caller because
the scheduler is not active yet (`AloneInStart`); so at most one of the callers of one object
goes on to create the task. `WorkInOrder`, for any clients, items and queue length: what ran,
what runs and what waits are, put behind each other, the accepted items in order and each once
(`AllRunInOrder`, `EachOnce`). `Waiting` is what is in front of the destructor's NULL, and
behind it are exactly the items that the last running one put there (`behind`), which nobody
takes (`NullIsLast`): so the worker leaves only when all the others ran, and the destructor
deletes only when the worker left (`WorkInv`). That clients keep away once the destructor was
called is the discipline the theorem supposes; of the items that run it supposes nothing.
The lemmas `Joins`, `Moves` and `Ends` of `QueueLemmas` are the three ways in which an item
goes on, and `BeforeTheMark` splits the queue at the NULL.

**Memory pools** (`Containers_proofs`), for any threads, counts, sizes, alignments and memory
that callers add. `PoolInv`: every item is a whole number of items into its piece and ends
inside it, has room for the node and the data (`Fits`), is as well aligned as its piece
(`HeldAligned`), is owned once, and is not one that an adding thread has still to carve
(`AddingInv`). Most of it, `ItemsInv`, does not depend on how the size of an item is computed,
and serves the C++ pool as well; the two computations are the lemmas `ItemHasRoom` and
`CppItemHasRoom`, and `Multiples` with `ItemsAligned` gives the alignment. Products of
variables, which the solver does not treat, are lemmas of their own (`Products`, `Division`).

The loop over memory that a caller adds to a C pool does not count what is left, and runs past
the memory (section 5). So `PoolInv` is not an invariant of the C pool without a condition, and
`PoolIsSound` says how far it goes: `SoundUntilOverrun`. A loop that counts what is left finds
its next item inside the piece (`RoomForNext`), hence only one that does not count can leave
it: an overrun is always that of an endless loop of `AddExtraMemoryToPoolStatic` (`CalmStep`,
`OverrunInv`). For the C++ pool (`CppPoolIsSound`), where every loop counts (`Counting`), there
is no overrun and no condition.

**Zero-copy queue** (`Containers_proofs`, `ZcqIsSound`). `ZcqInv`: free, queued and held items
are disjoint and together all the items the pool was made with, and the queue is as long as
the pool. That the queue has room for an item in a thread's hands is a pigeonhole argument
(`RoomForMore`): the queued items are distinct, and one item of the pool is not among them.

**Lists, stack and queue** (`Containers_proofs`, `SListIsASequence` and `DListIsASequence`), for
any finite set of nodes and heads that are none of them: the pointers of the C code implement
`NodeLists`. The inductive invariant is that there are two sequences, of the list and of the
box, without a common node and without repetitions, such that following the fields from a head
visits exactly the nodes of its sequence and then ends (`Linked`; for the double lists also
backwards, `BackLinked`): `SState` and `DState`. Nothing is said of the fields of removed nodes,
which the code leaves as they are. Each operation changes the pointers at one place of a chain;
`ChainIn` and `ChainOut`, for the rings `RingIn` and `RingOut`, say that the chain then is the one of
the sequence with a node inserted or removed there and that the other chain is not touched.
The refinement mapping reads the sequence off the pointers by following them (`Walk`), which is a
recursive function: that it ends, and after how many nodes, is the lemma `WalkEnds` (by `WFMin`,
like the loop of the logger below). The set of nodes is finite because `Walk` follows at most as many
pointers as there are nodes.

**Bluetooth server** (`Application_proofs`). `LastWriteIsInForce`: what the subscription of a
service will be once the queued events are handled (`WillBe`) is the plain write that was made
last, whatever else is in the queue; the invariant `SubscriptionInv` says so of every moment,
and each handler takes one event from the front without changing what will be. `LevelIsKnown`
compares three copies of the level (`battery_level`, the attribute, what the client knows) at
each step of the command against connections, writes and reads (`LevelInv`), for connections
with any numbers. The command copies `conn_id` as it starts; if another client connects and
subscribes before it sends, the notification goes to a connection that is gone, and the new
client, which also has read the old level, is not told. This the property excepts and no more
(`told # k`: the last command went to another connection than k's), and clients that share
the server with another one (`crowded`), since there is one subscription and one `conn_id` for all.
The first attempt at the proof found an error of the model: `known`, a history variable, kept
what a client had been told before it unsubscribed, so that the property failed for a client
that subscribed again, which the bounds of the run did not reach. A client now knows what it
was told since its last write.

**LED strip** (`Application_proofs`, `StreamIsWhole`), for any number of LEDs and bits and any
memory. `LedInv`: the pixel buffer holds the colours that were asked for and does not change
while it is sent; what was written is the stream up to `index`, in whichever of the two states
the encoder is; and the resources are those of a whole strip or none. What the LEDs make of
the symbols (`Channel`, a fold over them) is left to TLC.

**Work queue** (`WorkQueue_proofs`), for every number of clients and items and both values
of `DestroyWaits`. `QueueInv` is inductive; beside the types it says

- `MutexInv`: who has `Lock`, and that the worker calls the queue only from a work function;
- `CreateInv`: nothing happens before the queue was made;
- `HaveInv`: which of the four resources there are at each point of the creation, of its error
  paths and of the worker's end;
- `WakeupInv`: the wakeup that a sleeping worker needs was given, or a caller is at the
  very step that gives it (`NoLostWakeup` follows through `MutexInv`);
- `DestroyInv`: one call of `DestroyWorkQueue`, which sets the flag once;
- `LeaveInv`: from the worker's look at the empty queue to its unlock, `queue = <<>>` and
  the flag it read are still so, because whoever changes either has the lock;
- `ItemInv` and `ItemOwnership`: who has an item at which step, that new items are new, and
  that no item has two owners.

`Invariance`, `WorkerIsWoken` and `OneOwner` need no discipline of the clients.
`NobodyLeftBehind`, `RunOnceInOrder` and `AllFreed` do: each is `DestroyWaits => ...`, since
a client inside `QueueWorkItem` as the queue is destroyed can lose its item (section 5)
and wait on a mutex that the worker deletes (its part on the error
paths and on what the worker uses needs only `QueueInv`). For `RunOnceInOrder` the only steps that
matter are `Enqueue`, which appends to both sides, `WorkerDequeue` and `WorkerCall`, which
move an item from the queue to the worker to `ran`, and `WorkerDrain`, where `LeaveInv`
says there is nothing to drop.

**Logger** (`Logger_proofs`), for any finite set of tasks, any texts and any queue size.
`LoggerInv` is inductive; beside the types it says

- `LockInv`: `begin` installs `log_formatting_func` last, so that nobody meets a semaphore that
  was not given, and from then on it is a mutex (`OneMessageAtATime`);
- `ClockInv`: each call formats at most once (it bounds the stamps);
- `BufferInv`: what a task holds is the newest buffer; what it leaves with is dropped;
- `OrderInv`: the stamps increase from the console over the buffer being printed and the
  queue to the one buffer a task can hold; this is where the lock is needed, which is kept
  from `vasprintf` to the post;
- `HeapInv`: what has an owner is allocated, and what has none is an empty text.

`DistinctOwners` derives `SingleOwner` from the order of the stamps: two owners of one
buffer would need one stamp in two places. It is also what makes `free` safe in
`StepHeapInv`. `MemoryIsBounded` counts the owners.

`StepsAreChannelSteps`: every step of the logger is a step of `LogChannel` or none, where
the buffer being printed and the queue are what is pending. The only step that computes is
`LoggerPrint`: `Trim` follows the loop of `handlePostedLogMessage`, `Line` says where the text
ends. Both the existence of the recursive function (`LoopExists`) and where it stops
(`LoopEnds`) are inductions, made with the library's first-order theorem `WFMin`: of a set of
positions at which the claim fails, `Smallest` gives the least, and there it does not. The
other half of `ImplementsChannel`, that what is pending is shown, needs the fairness and stays
with TLC.

`QueueLemmas` states once what `Append`, `Head`, `Tail` and `\o` do to the elements of a queue
and to its freedom from repetitions; all developments but those of the locks cite it.

Only model-checked: the pilot light, the start of the Bluetooth services, the demonstration,
everything with `~>` or `[]<>` (liveness under fairness is outside what the prover does), and
the properties of the table that this section does not name.

## 5. Findings

1. `Logger.cpp:53`: a formatted text of length 0 is neither posted nor freed, while the
   comment at 47-50 says that the pointer ends up in the event handler, which frees it.
   Run `logger_leak`.
2. `main.cpp:93`: the hook of failed allocations logs. When the allocation that failed is one
   of the logger's own (`vasprintf`, the event's copy), its task waits for `logLock`, which it
   has itself, and every task that logs waits behind it; `Logger.cpp:18-19` says that the logger
   does not use `ESP_LOGx`, to avoid just this recursion. Run `logger_recursion`; this is the
   exception that `HolderReturns` makes.
3. `workqueue.c:210`: an item that a client queues while the queue is being destroyed is
   accepted with `pdPASS`, never run and freed by the cleanup; `workqueue.h:112-119` has no
   such case. Run `workqueue_dropped`.
4. `Bluetooth.cpp:295-303`: advertising starts at each of the two completion events,
   since `adv_config_complete` is never set (`bt_svc_app.cpp` sets a variable of its own);
   a client that connected after the first one stays advertised to others, where
   `bt_svc_app.cpp:311` says "connected, stop advertising". Run `ble_advertising`.

What the properties of the runs except by name, because the code does otherwise:

- `mem_pool.c:297` (`SoundUntilOverrun`): the loop that carves memory of the caller never
  reduces the size that is left, so that it passes the end of any memory with room for an item,
  and never returns.
- `mem_pool.c:181` (`HeldAligned`): the items of a pool begin at `Buffer`, 20 bytes into the
  structure, so that they are aligned to 4 bytes; `mem_pool.h:60` calls `Alignment` the boundary
  on which the memory will be aligned. The property therefore says that items are as well aligned
  as the memory they are carved from.
- `cworkqueue.cpp` (`AllRunInOrder`, `DestroyCompletes`): an item that a running item queues
  behind the destructor's NULL is accepted with `true`, never run and not freed (144, 187); an
  item that queues on a full queue blocks its own worker; a worker that cannot be started is not
  noticed, and the destructor waits for it for ever (82); the worker's task deletes itself
  (`cthread.cpp:222`) and `~Thread` deletes it again (`cthread.cpp:197`), in the order that is
  the usual one.
- `PilotLight.cpp:122` (`CommandsAreObeyed`): times from 1 ms to below a tick are accepted and
  become zero ticks. With both at zero, by one command or in the middle of `setOnOffTime`, when one
  field is new and the other old, the light does not sleep and the console never gets its core
  again. With an LED strip it still waits for the strip, and only blinks too fast.
- `bt_svc_batt.cpp:74` (`LevelIsServed`): the battery command copies `conn_id` before it sends.
- `Bluetooth.cpp:306` (`FoundAgain`), `bt_svc_app.cpp:336` (`ServicesStart`): a start of
  advertising or of a service that fails is logged and not tried again.
- `led_strip_rmt_dev.c:63-64` (`Del`): a deletion that fails half-way frees no more, and a
  second one fails at the channel that is not enabled any more.

Seen while modelling, read in the code and not shown by a run:

- `cthread.cpp:270`: a thread whose wait timed out stays on the wait list; a later signal goes
  to it instead of a thread that waits, stays in its semaphore, and ends its next wait at once
  with `true` (`condition_variable.hpp:91-94`, `thread.hpp:366-367`). `OneWakeupOwed` is
  therefore stated and proved for waits without timeouts.
- `ctasklet.cpp:90`: a tasklet that schedules itself from `Run` waits on the timer task for
  `DtorLock`, which the timer task alone gives, whatever timeout it passes.
- `cworkqueue.cpp:153`: priority and core are passed in the wrong order.
- `cthread.cpp:155`: until `StartScheduler`, which `main.cpp` calls last, `Start` tests and
  sets its flag without the lock, although the kernel runs.
- `read_write_lock.c:188,277`: the error paths of creation test the pointers the wrong way
  round: they delete what was not created and leak what was.
- `bt_svc_app.cpp:308,365`: the application's service never stores its connection id, so its
  data go to connection 0; 316: a subscription outlives the client that made it.

## 6. Not modelled

- **Console commands that print** (`cmds.cpp`), **declarations** (`AppEvents`, `priorities`):
  there is no state.
- **C++ wrappers** of queues, semaphores, mutexes, timers and event groups: one kernel call
  each; the kernel is not in the repository. Their headers are mostly documentation.
- **Tick hooks** (`ctickhook.cpp`): with `configUSE_TICK_HOOK` set the file uses a member
  `mutex`, `MutexStandard` and `LockGuard` that `tickhook.hpp` neither declares nor includes,
  so it does not compile; without it the file is empty.
- **Creation and freeing of the read/write locks**, in C and C++: the models begin with a lock
  that was made.
- **The list of console commands**, which two tasks extend while a third one looks commands
  up, is inside `esp_console`.
- **`PilotLight::Suspend`**, which nobody calls; the numbers of more than 32 bits that
  `strtol` can return.
- **The tick loop** of `main.cpp`, whose handlers only log.
- **Demonstrations and tests**: 57 small programs and their `FreeRTOSConfig.h`, which make up
  more than half of the lines of the repository. One is modelled, as the documented use of
  the condition variables; the others call one library function after another and keep no
  state of their own that the models of the library do not have. This, the documentation in
  the headers and the thin wrappers are why the share of modelled lines is small, although the
  parts with a state of their own are modelled.
- **Bluedroid, ESP-IDF and FreeRTOS** are external: what they do is what the code relies on.
