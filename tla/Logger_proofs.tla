----------------------------- MODULE Logger_proofs -----------------------------
(***************************************************************************)
(* Proofs about the logger, for every set of tasks, every set of texts and *)
(* every size of the queue: LoggerInv is an invariant; hence one task at a *)
(* time is past the lock, every buffer has one owner, only empty texts     *)
(* leak, and the lines come out in the order of formatting.                *)
(***************************************************************************)
EXTENDS Logger, QueueLemmas

\* The state before Logger::begin satisfies the invariant.
LEMMA InitLoggerInv == Init => LoggerInv
  <1> SUFFICES ASSUME Init PROVE LoggerInv
    OBVIOUS
  <1> USE ConstantsAssumption DEF Init
  <1>1. Held = {} /\ Given = 0 /\ Range(queue) = {} /\ Owned = {}
    BY EmptyQueue DEF Held, Given, Owned, InQueue
  <1>2. TypeOK
    <2>1. <<>> \in Seq(Buffers)
      BY EmptySeq
    <2>2. /\ pc \in [Tasks -> {"idle"}] /\ buf \in [Tasks -> {NoBuf}]
          /\ calls \in 0..MaxCalls /\ clock \in 0..MaxCalls /\ Len(queue) <= QueueSize
      OBVIOUS
    <2>3. hooked \in BOOLEAN
      BY Zenon
    <2> QED
      BY <2>1, <2>2, <2>3 DEF TypeOK
  <1>3. LockInv
    BY DEF LockInv, OneMessageAtATime, Inside
  <1>4. BufferInv
    BY DEF BufferInv
  <1>5. OrderInv
    BY EmptySeq DEF OrderInv, ConsoleInFormatOrder
  <1>6. HeapInv
    BY <1>1 DEF HeapInv, OnlyDroppedBuffersLeak
  <1>7. ClockInv
    <2>1. Formatting = {}
      BY DEF Formatting
    <2> QED
      BY <2>1, FS_EmptySet DEF ClockInv
  <1> QED
    BY <1>2, <1>3, <1>4, <1>5, <1>6, <1>7 DEF LoggerInv

\* A buffer is a record with a stamp and a text.
LEMMA BufferFields ==
  ASSUME NEW b \in Buffers
  PROVE  /\ b.task \in Tasks /\ b.stamp \in 1..MaxCalls /\ b.text \in Texts
         /\ b # NoBuf
  BY ConstantsAssumption DEF Buffers

\* The number of calls that have yet to format, as one joins or leaves.
LEMMA FormattingCardinality ==
  /\ Cardinality(Formatting) \in Nat
  /\ \A t \in Formatting : Cardinality(Formatting \ {t}) = Cardinality(Formatting) - 1
  /\ \A t \in Tasks \ Formatting : Cardinality(Formatting \cup {t}) = Cardinality(Formatting) + 1
  /\ Formatting # {} => Cardinality(Formatting) # 0
  <1>1. IsFiniteSet(Formatting)
    BY ConstantsAssumption, FS_Subset DEF Formatting
  <1> QED
    BY <1>1, FS_CardinalityType, FS_AddElement, FS_RemoveElement, FS_EmptySet

\* What vasprintf makes for task t.
LEMMA NewBuffer ==
  ASSUME LoggerInv, NEW t \in Tasks, Format(t)
  PROVE  \E b \in Buffers :
           /\ b.stamp = clock + 1 /\ clock' = clock + 1 /\ clock + 1 \in 1..MaxCalls
           /\ buf' = [buf EXCEPT ![t] = b] /\ heap' = heap \cup {b}
           /\ pc' = [pc EXCEPT ![t] = IF Len(b.text) > 0 THEN "post" ELSE "give"]
           /\ Len(b.text) > 0 \/ b.text = <<>>
  <1>1. PICK s \in Texts :
          LET b == [task |-> t, stamp |-> clock + 1, text |-> s]
          IN  /\ buf' = [buf EXCEPT ![t] = b] /\ heap' = heap \cup {b}
              /\ pc' = [pc EXCEPT ![t] = IF Len(s) > 0 THEN "post" ELSE "give"]
    BY DEF Format
  <1>2. clock \in Nat /\ clock + 1 \in 1..MaxCalls /\ clock' = clock + 1
    <2>1. Cardinality(Formatting) \in Nat /\ Cardinality(Formatting) # 0
      BY FormattingCardinality DEF Format, Formatting
    <2>2. clock \in 0..MaxCalls /\ calls \in 0..MaxCalls /\ clock + Cardinality(Formatting) <= calls
      BY DEF LoggerInv, TypeOK, ClockInv
    <2>3. clock' = clock + 1
      BY DEF Format
    <2> QED
      BY <2>1, <2>2, <2>3, ConstantsAssumption
  <1> DEFINE b == [task |-> t, stamp |-> clock + 1, text |-> s]
  <1>3. b \in Buffers /\ b.stamp = clock + 1 /\ b.text = s
    BY <1>2 DEF Buffers
  <1>4. Len(s) > 0 \/ s = <<>>
    BY ConstantsAssumption, EmptySeq
  <1> QED
    BY <1>1, <1>2, <1>3, <1>4

\* Every step keeps the types.
LEMMA StepTypeOK ==
  ASSUME LoggerInv, Next
  PROVE  TypeOK'
  <1> USE ConstantsAssumption DEF LoggerInv, TypeOK, bootVars, taskVars, loggerVars
  <1>1. CASE Begin
    <2>1. CASE BeginCreateLock \/ BeginGive
      BY <2>1 DEF BeginCreateLock, BeginGive
    <2>2. CASE BeginCreateLoop
      BY <2>2 DEF BeginCreateLoop
    <2>3. CASE BeginRegister
      BY <2>3 DEF BeginRegister
    <2> QED
      BY <1>1, <2>1, <2>2, <2>3 DEF Begin
  <1>2. ASSUME NEW t \in Tasks, Enter(t) \/ TakeLock(t) \/ FormatFails(t) PROVE TypeOK'
    BY <1>2 DEF Enter, TakeLock, FormatFails, EnterHook
  <1>3. ASSUME NEW t \in Tasks, Format(t) PROVE TypeOK'
    <2>1. PICK b \in Buffers :
             /\ clock' = clock + 1 /\ clock + 1 \in 1..MaxCalls
             /\ buf' = [buf EXCEPT ![t] = b] /\ heap' = heap \cup {b}
             /\ pc' = [pc EXCEPT ![t] = IF Len(b.text) > 0 THEN "post" ELSE "give"]
      BY <1>3, NewBuffer
    <2>2. pc' \in [Tasks -> {"idle", "take", "format", "post", "give", "hook"}] /\ clock' \in 0..MaxCalls
      BY <2>1
    <2>3. buf' \in [Tasks -> Buffers \cup {NoBuf}] /\ heap' \subseteq Buffers
      BY <2>1
    <2> QED
      BY <1>3, <2>2, <2>3 DEF Format
  <1>4. ASSUME NEW t \in Tasks, Post(t) PROVE TypeOK'
    <2>1. buf[t] \in Buffers
      BY <1>4 DEF Post, BufferInv
    <2>2. queue' \in Seq(Buffers) /\ Len(queue') <= QueueSize
      BY <1>4, <2>1, AppendProperties, LenProperties DEF Post
    <2> QED
      BY <1>4, <2>2 DEF Post
  <1>5. ASSUME NEW t \in Tasks, PostFails(t) PROVE TypeOK'
    <2>1. buf[t] \in Buffers
      BY <1>5 DEF PostFails, EnterHook, BufferInv
    <2> QED
      BY <1>5, <2>1 DEF PostFails, EnterHook
  <1>6. ASSUME NEW t \in Tasks, GiveAndReturn(t) PROVE TypeOK'
    BY <1>6 DEF GiveAndReturn
  <1>7. CASE LoggerReceive
    <2>1. Head(queue) \in Buffers /\ Tail(queue) \in Seq(Buffers) /\ Len(Tail(queue)) <= QueueSize
      BY <1>7, HeadTailProperties, LenProperties DEF LoggerReceive
    <2> QED
      BY <1>7, <2>1 DEF LoggerReceive
  <1>8. CASE LoggerPrint \/ LoggerFree
    BY <1>8 DEF LoggerPrint, LoggerFree
  <1> QED
    BY <1>1, <1>2, <1>3, <1>4, <1>5, <1>6, <1>7, <1>8 DEF Next, LogCall, LoggerTask

\* Every step keeps the lock's discipline.
LEMMA StepLockInv ==
  ASSUME LoggerInv, Next
  PROVE  LockInv'
  <1> USE DEF LoggerInv, TypeOK, LockInv, OneMessageAtATime, Inside, bootVars, taskVars, loggerVars
  <1>1. CASE Begin
    BY <1>1 DEF Begin, BeginCreateLock, BeginGive, BeginCreateLoop, BeginRegister
  <1>2. ASSUME NEW t \in Tasks, Enter(t) PROVE LockInv'
    BY <1>2 DEF Enter
  <1>3. ASSUME NEW t \in Tasks, TakeLock(t) PROVE LockInv'
    BY <1>3 DEF TakeLock
  <1>4. ASSUME NEW t \in Tasks, Format(t) PROVE LockInv'
    <2>1. PICK b \in Buffers : pc' = [pc EXCEPT ![t] = IF Len(b.text) > 0 THEN "post" ELSE "give"]
      BY <1>4, NewBuffer
    <2> QED
      BY <1>4, <2>1 DEF Format
  <1>5. ASSUME NEW t \in Tasks, FormatFails(t) \/ Post(t) \/ PostFails(t) PROVE LockInv'
    BY <1>5 DEF FormatFails, Post, PostFails, EnterHook
  <1>6. ASSUME NEW t \in Tasks, GiveAndReturn(t) PROVE LockInv'
    BY <1>6 DEF GiveAndReturn
  <1>7. CASE LoggerTask
    BY <1>7 DEF LoggerTask, LoggerReceive, LoggerPrint, LoggerFree
  <1> QED
    BY <1>1, <1>2, <1>3, <1>4, <1>5, <1>6, <1>7 DEF Next, LogCall

\* Every call formats at most once.
LEMMA StepClockInv ==
  ASSUME LoggerInv, Next
  PROVE  ClockInv'
  <1> USE DEF bootVars, taskVars, loggerVars
  <1>1. /\ pc \in [Tasks -> {"idle", "take", "format", "post", "give", "hook"}]
        /\ calls \in Nat /\ clock \in Nat
        /\ Cardinality(Formatting) \in Nat /\ clock + Cardinality(Formatting) <= calls
    BY ConstantsAssumption, FormattingCardinality DEF LoggerInv, TypeOK, ClockInv
  <1>2. CASE Formatting' = Formatting /\ calls' = calls /\ clock' = clock
    BY <1>1, <1>2 DEF ClockInv
  <1>3. CASE Begin \/ LoggerTask
    <2>1. pc' = pc /\ calls' = calls /\ clock' = clock
      BY <1>3 DEF Begin, BeginCreateLock, BeginGive, BeginCreateLoop, BeginRegister,
                  LoggerTask, LoggerReceive, LoggerPrint, LoggerFree
    <2> QED
      BY <1>2, <2>1 DEF Formatting
  <1>4. ASSUME NEW t \in Tasks, TakeLock(t) \/ Post(t) \/ PostFails(t) \/ GiveAndReturn(t)
        PROVE  ClockInv'
    <2>1. Formatting' = Formatting /\ calls' = calls /\ clock' = clock
      BY <1>1, <1>4 DEF TakeLock, Post, PostFails, EnterHook, GiveAndReturn, Formatting
    <2> QED
      BY <1>2, <2>1
  <1>5. ASSUME NEW t \in Tasks, Enter(t) PROVE ClockInv'
    <2>1. t \notin Formatting /\ clock' = clock /\ calls' = calls + 1
      BY <1>5 DEF Enter, Formatting
    <2>2. Formatting' = Formatting \/ Formatting' = Formatting \cup {t}
      BY <1>1, <1>5 DEF Enter, Formatting
    <2>3. Cardinality(Formatting \cup {t}) = Cardinality(Formatting) + 1
      BY <2>1, FormattingCardinality
    <2>4. CASE Formatting' = Formatting
      BY <1>1, <2>1, <2>4 DEF ClockInv
    <2>5. CASE Formatting' = Formatting \cup {t}
      BY <1>1, <2>1, <2>3, <2>5 DEF ClockInv
    <2> QED
      BY <2>2, <2>4, <2>5
  <1>6. ASSUME NEW t \in Tasks, Format(t) \/ FormatFails(t) PROVE ClockInv'
    <2>1. t \in Formatting /\ calls' = calls /\ clock' \in {clock, clock + 1}
      BY <1>6 DEF Format, FormatFails, EnterHook, Formatting
    <2>2. Formatting' = Formatting \ {t}
      <3>1. \E p \in {"post", "give", "hook"} : pc' = [pc EXCEPT ![t] = p]
        BY <1>6 DEF Format, FormatFails, EnterHook
      <3> QED
        BY <1>1, <3>1 DEF Formatting
    <2>3. Cardinality(Formatting \ {t}) = Cardinality(Formatting) - 1
      BY <2>1, FormattingCardinality
    <2> QED
      BY <1>1, <2>1, <2>2, <2>3 DEF ClockInv
  <1> QED
    BY <1>3, <1>4, <1>5, <1>6 DEF Next, LogCall

\* Only one task holds a buffer, and it is inside the lock.
LEMMA OneHolder ==
  ASSUME LoggerInv
  PROVE  /\ clock \in Nat
         /\ \A t \in Held : Inside(t) /\ \A u \in Tasks : Inside(u) => u = t
         /\ Given \in Nat /\ Given <= clock /\ clock <= Given + 1
         /\ Held = {} => Given = clock
         /\ Held # {} => Given = clock - 1 /\ clock > 0
  <1>1. \A t \in Held : Inside(t) /\ \A u \in Tasks : Inside(u) => u = t
    BY DEF LoggerInv, LockInv, OneMessageAtATime, BufferInv, Held, Inside
  <1>2. clock \in Nat
    BY ConstantsAssumption DEF LoggerInv, TypeOK
  <1>3. ASSUME NEW t \in Held PROVE clock > 0
    <2>1. buf[t] \in Buffers /\ buf[t].stamp = clock
      BY <1>3 DEF LoggerInv, TypeOK, BufferInv, Held
    <2> QED
      BY <2>1, BufferFields, ConstantsAssumption
  <1> QED
    BY <1>1, <1>2, <1>3 DEF Given

\* Every step keeps what is known of the buffers that tasks and the handler hold.
LEMMA StepBufferInv ==
  ASSUME LoggerInv, Next
  PROVE  BufferInv'
  <1> USE ConstantsAssumption DEF LoggerInv, TypeOK, BufferInv, bootVars, taskVars, loggerVars
  <1>1. CASE Begin
    <2>1. CASE BeginCreateLock \/ BeginGive \/ BeginRegister
      BY <2>1 DEF BeginCreateLock, BeginGive, BeginRegister
    <2>2. CASE BeginCreateLoop
      BY <2>2 DEF BeginCreateLoop, LockInv
    <2> QED
      BY <1>1, <2>1, <2>2 DEF Begin
  <1>2. ASSUME NEW t \in Tasks, Enter(t) \/ TakeLock(t) \/ FormatFails(t) PROVE BufferInv'
    BY <1>2 DEF Enter, TakeLock, FormatFails, EnterHook
  <1>3. ASSUME NEW t \in Tasks, Format(t) PROVE BufferInv'
    <2>1. PICK b \in Buffers :
             /\ b.stamp = clock + 1 /\ clock' = clock + 1
             /\ buf' = [buf EXCEPT ![t] = b]
             /\ pc' = [pc EXCEPT ![t] = IF Len(b.text) > 0 THEN "post" ELSE "give"]
             /\ Len(b.text) > 0 \/ b.text = <<>>
      BY <1>3, NewBuffer
    <2>2. \A u \in Tasks : u # t => buf[u] = NoBuf
      BY <1>3, OneHolder DEF Format, Held, Inside
    <2>3. /\ \A u \in Tasks : u # t => buf'[u] = NoBuf /\ pc'[u] = pc[u]
          /\ buf'[t] = b /\ pc'[t] \in {"post", "give"} /\ b # NoBuf
          /\ pc'[t] = "give" => b.text = <<>>
      BY <2>1, <2>2
    <2>4. current' = current /\ loggerPc' = loggerPc
      BY <1>3 DEF Format
    <2>5. \A u \in Tasks : pc'[u] = "post" => buf'[u] # NoBuf
      BY <2>2, <2>3
    <2> QED
      BY <2>1, <2>3, <2>4, <2>5
  <1>4. ASSUME NEW t \in Tasks, Post(t) PROVE BufferInv'
    BY <1>4 DEF Post
  <1>5. ASSUME NEW t \in Tasks, PostFails(t) PROVE BufferInv'
    BY <1>5 DEF PostFails, EnterHook
  <1>6. ASSUME NEW t \in Tasks, GiveAndReturn(t) PROVE BufferInv'
    BY <1>6 DEF GiveAndReturn
  <1>7. CASE LoggerReceive
    <2>1. Head(queue) \in Buffers
      BY <1>7, HeadTailProperties DEF LoggerReceive
    <2> QED
      BY <1>7, <2>1 DEF LoggerReceive
  <1>8. CASE LoggerPrint \/ LoggerFree
    BY <1>8 DEF LoggerPrint, LoggerFree
  <1> QED
    BY <1>1, <1>2, <1>3, <1>4, <1>5, <1>6, <1>7, <1>8 DEF Next, LogCall, LoggerTask

\* When its holder lets a buffer go, every stamp was given away.
LEMMA LettingGo ==
  ASSUME LoggerInv, NEW t \in Tasks, Post(t) \/ GiveAndReturn(t)
  PROVE  Held' = {} /\ Given' = clock
  <1>1. /\ buf' = [buf EXCEPT ![t] = NoBuf] /\ clock' = clock /\ Inside(t)
    BY DEF Post, GiveAndReturn, Inside, taskVars
  <1>2. \A u \in Tasks : u # t => buf[u] = NoBuf
    BY <1>1, OneHolder DEF Held
  <1>3. buf \in [Tasks -> Buffers \cup {NoBuf}]
    BY DEF LoggerInv, TypeOK
  <1>4. Held' = {}
    BY <1>1, <1>2, <1>3 DEF Held
  <1> QED
    BY <1>1, <1>4 DEF Given

\* The newest stamp that was given away never goes back.
LEMMA StepGiven ==
  ASSUME LoggerInv, Next
  PROVE  Given' \in Nat /\ Given <= Given'
  <1> USE DEF bootVars, taskVars, loggerVars
  <1>1. ASSUME buf' = buf, clock' = clock PROVE Given' = Given
    BY <1>1 DEF Given, Held
  <1>2. CASE Begin \/ LoggerTask
    <2>1. buf' = buf /\ clock' = clock
      BY <1>2 DEF Begin, BeginCreateLock, BeginGive, BeginCreateLoop, BeginRegister,
                  LoggerTask, LoggerReceive, LoggerPrint, LoggerFree
    <2> QED
      BY <1>1, <2>1, OneHolder
  <1>3. ASSUME NEW t \in Tasks, Enter(t) \/ TakeLock(t) \/ FormatFails(t) \/ PostFails(t)
        PROVE  Given' \in Nat /\ Given <= Given'
    <2>1. buf' = buf /\ clock' = clock
      BY <1>3 DEF Enter, TakeLock, FormatFails, PostFails, EnterHook
    <2> QED
      BY <1>1, <2>1, OneHolder
  <1>4. ASSUME NEW t \in Tasks, Post(t) \/ GiveAndReturn(t)
        PROVE  Given' \in Nat /\ Given <= Given'
    <2>1. Given' = clock
      BY <1>4, LettingGo
    <2>2. clock \in Nat
      BY ConstantsAssumption DEF LoggerInv, TypeOK
    <2> QED
      BY <2>1, <2>2, OneHolder
  <1>5. ASSUME NEW t \in Tasks, Format(t) PROVE Given' \in Nat /\ Given <= Given'
    <2>1. PICK b \in Buffers : buf' = [buf EXCEPT ![t] = b] /\ clock' = clock + 1
      BY <1>5, NewBuffer
    <2>2. Held' # {}
      BY <2>1, BufferFields DEF LoggerInv, TypeOK, Held
    <2>3. Held = {}
      BY <1>5, OneHolder DEF LoggerInv, BufferInv, Format, Held, Inside
    <2>4. clock \in Nat /\ Given = clock
      BY <2>3, OneHolder
    <2>5. Given' = (clock + 1) - 1
      BY <2>1, <2>2 DEF Given
    <2> QED
      BY <2>4, <2>5
  <1> QED
    BY <1>2, <1>3, <1>4, <1>5 DEF Next, LogCall

\* The types that the order is about.
LEMMA OrderTypes ==
  ASSUME LoggerInv
  PROVE  /\ queue \in Seq(Buffers) /\ DOMAIN queue = 1..Len(queue) /\ Len(queue) \in Nat
         /\ \A j \in DOMAIN queue : queue[j] \in Buffers /\ queue[j].stamp \in Nat
         /\ DOMAIN console = 1..Len(console) /\ Len(console) \in Nat
         /\ \A i \in DOMAIN console : console[i].stamp \in Nat
         /\ current # NoBuf => current \in Buffers /\ current.stamp \in Nat
         /\ Given \in Nat
  <1>1. queue \in Seq(Buffers) /\ (current # NoBuf => current \in Buffers)
    BY DEF LoggerInv, TypeOK
  <1>2. /\ DOMAIN queue = 1..Len(queue) /\ Len(queue) \in Nat
        /\ \A j \in DOMAIN queue : queue[j] \in Buffers
    BY <1>1, LenProperties, ElementOfSeq
  <1>3. DOMAIN console = 1..Len(console) /\ Len(console) \in Nat
    BY LenProperties DEF LoggerInv, OrderInv
  <1>4. \A b \in Buffers : b.stamp \in Nat
    BY BufferFields, ConstantsAssumption
  <1>5. \A i \in DOMAIN console : console[i].stamp \in Nat
    BY OneHolder DEF LoggerInv, OrderInv
  <1> QED
    BY <1>1, <1>2, <1>3, <1>4, <1>5, OneHolder

\* Every step keeps the order.
LEMMA StepOrderInv ==
  ASSUME LoggerInv, Next
  PROVE  OrderInv'
  <1> USE DEF bootVars, taskVars, loggerVars
  <1>1. ASSUME queue' = queue, console' = console, current' = current,
               loggerPc' = loggerPc \/ current = NoBuf
        PROVE  OrderInv'
    <2>1. Given' \in Nat /\ Given <= Given' /\ Given \in Nat
      BY StepGiven, OneHolder
    <2>2. OrderInv
      BY DEF LoggerInv
    <2>3. console' \in Seq(Range(console)') /\ ConsoleInFormatOrder'
      BY <1>1, <2>2 DEF OrderInv, ConsoleInFormatOrder
    <2>4. \A i \in DOMAIN console' : console'[i].stamp \in 1..Given'
      BY <1>1, <2>1, <2>2 DEF OrderInv
    <2>5. current' # NoBuf =>
            /\ current'.stamp <= Given'
            /\ \A i \in DOMAIN console' :
                 \/ console'[i].stamp < current'.stamp
                 \/ loggerPc' = "free" /\ console'[i].stamp = current'.stamp
      BY <1>1, <2>1, <2>2, OrderTypes DEF OrderInv
    <2>6. \A i, j \in DOMAIN queue' : i < j => queue'[i].stamp < queue'[j].stamp
      BY <1>1, <2>2 DEF OrderInv
    <2>7. \A j \in DOMAIN queue' :
            /\ queue'[j].stamp <= Given'
            /\ current' # NoBuf => current'.stamp < queue'[j].stamp
            /\ \A i \in DOMAIN console' : console'[i].stamp < queue'[j].stamp
      BY <1>1, <2>1, <2>2, OrderTypes DEF OrderInv
    <2> QED
      BY <2>3, <2>4, <2>5, <2>6, <2>7 DEF OrderInv
  <1>2. CASE Begin
    <2>1. CASE BeginCreateLock \/ BeginGive \/ BeginRegister
      BY <1>1, <2>1 DEF BeginCreateLock, BeginGive, BeginRegister
    <2>2. CASE BeginCreateLoop
      <3>1. current = NoBuf
        BY <2>2 DEF BeginCreateLoop, LoggerInv, LockInv, BufferInv
      <3> QED
        BY <1>1, <2>2, <3>1 DEF BeginCreateLoop
    <2> QED
      BY <1>2, <2>1, <2>2 DEF Begin
  <1>3. ASSUME NEW t \in Tasks,
               Enter(t) \/ TakeLock(t) \/ Format(t) \/ FormatFails(t) \/ PostFails(t)
                 \/ GiveAndReturn(t)
        PROVE  OrderInv'
    BY <1>1, <1>3 DEF Enter, TakeLock, Format, FormatFails, PostFails, EnterHook, GiveAndReturn
  <1> DEFINE n == Len(queue)
  <1> DEFINE m == Len(console)
  <1>4. ASSUME NEW t \in Tasks, Post(t) PROVE OrderInv'
    <2> DEFINE b == buf[t]
    <2>1. /\ console' = console /\ current' = current /\ loggerPc' = loggerPc
          /\ queue' = Append(queue, b)
      BY <1>4 DEF Post
    <2>2. b \in Buffers /\ b.stamp = clock /\ t \in Held
      BY <1>4 DEF Post, LoggerInv, TypeOK, BufferInv, Held
    <2>3. Given' = clock /\ Given = clock - 1 /\ clock \in Nat
      BY <1>4, <2>2, OneHolder, LettingGo
    <2> HIDE DEF b
    <2>4. /\ DOMAIN queue' = 1..(n + 1) /\ queue'[n + 1] = b
          /\ \A j \in 1..n : queue'[j] = queue[j]
      BY <2>1, <2>2, AppendProperties, LenProperties, OrderTypes
    <2>5. n \in Nat /\ DOMAIN queue = 1..n /\ \A j \in 1..(n + 1) : j \in 1..n \/ j = n + 1
      BY OrderTypes
    <2> HIDE DEF n
    <2>6. \A j \in 1..n : queue[j].stamp \in Nat /\ queue[j].stamp <= Given /\ queue[j].stamp < clock
      <3> SUFFICES ASSUME NEW j \in 1..n
                   PROVE  /\ queue[j].stamp \in Nat
                          /\ queue[j].stamp <= Given /\ queue[j].stamp < clock
        OBVIOUS
      <3>1. j \in DOMAIN queue
        BY <2>5
      <3>2. queue[j].stamp \in Nat
        BY <3>1, OrderTypes
      <3>3. queue[j].stamp <= Given
        BY <3>1 DEF LoggerInv, OrderInv
      <3> QED
        BY <2>3, <3>2, <3>3
    <2>7. \A i \in DOMAIN console : console[i].stamp \in 1..Given /\ console[i].stamp < clock
      BY <2>3 DEF LoggerInv, OrderInv
    <2>8. current # NoBuf => current.stamp \in Nat /\ current.stamp <= Given /\ current.stamp < clock
      BY <2>3, OrderTypes DEF LoggerInv, OrderInv
    <2>9. console' \in Seq(Range(console)') /\ ConsoleInFormatOrder'
      BY <2>1 DEF LoggerInv, OrderInv, ConsoleInFormatOrder
    <2>10. \A i \in DOMAIN console' : console'[i].stamp \in 1..Given'
      BY <2>1, <2>3, <2>7
    <2>11. current' # NoBuf =>
             /\ current'.stamp <= Given'
             /\ \A i \in DOMAIN console' :
                  \/ console'[i].stamp < current'.stamp
                  \/ loggerPc' = "free" /\ console'[i].stamp = current'.stamp
      BY <2>1, <2>3, <2>8 DEF LoggerInv, OrderInv
    <2>12. ASSUME NEW i \in DOMAIN queue', NEW j \in DOMAIN queue', i < j
           PROVE  queue'[i].stamp < queue'[j].stamp
      <3>1. i \in 1..n
        BY <2>4, <2>5, <2>12
      <3>2. CASE j = n + 1
        BY <2>2, <2>4, <2>6, <3>1, <3>2
      <3>3. CASE j \in 1..n
        BY <2>4, <2>5, <2>12, <3>1, <3>3 DEF LoggerInv, OrderInv
      <3> QED
        BY <2>4, <2>5, <3>2, <3>3
    <2>13. ASSUME NEW j \in DOMAIN queue'
           PROVE  /\ queue'[j].stamp <= Given'
                  /\ current' # NoBuf => current'.stamp < queue'[j].stamp
                  /\ \A i \in DOMAIN console' : console'[i].stamp < queue'[j].stamp
      <3>1. CASE j = n + 1
        BY <2>1, <2>2, <2>3, <2>4, <2>7, <2>8, <3>1
      <3>2. CASE j \in 1..n
        BY <2>1, <2>3, <2>4, <2>5, <2>6, <3>2 DEF LoggerInv, OrderInv
      <3> QED
        BY <2>4, <2>5, <3>1, <3>2
    <2> QED
      BY <2>9, <2>10, <2>11, <2>12, <2>13 DEF OrderInv
  <1>5. CASE LoggerReceive
    <2>1. /\ queue # <<>> /\ console' = console /\ current' = Head(queue)
          /\ queue' = Tail(queue) /\ loggerPc' = "print"
      BY <1>5 DEF LoggerReceive
    <2>2. Given' \in Nat /\ Given <= Given' /\ Given \in Nat
      BY StepGiven, OneHolder
    <2>3. n \in Nat \ {0} /\ DOMAIN queue = 1..n /\ 1 \in 1..n
      BY <2>1, OrderTypes, EmptySeq
    <2>4. /\ Head(queue) = queue[1] /\ DOMAIN queue' = 1..(n - 1)
          /\ \A j \in 1..(n - 1) : queue'[j] = queue[j + 1] /\ j + 1 \in 1..n /\ 1 < j + 1
      BY <2>1, <2>3, OrderTypes, HeadTailProperties, LenProperties
    <2> HIDE DEF n
    <2>5. \A j \in 1..n : queue[j].stamp \in Nat /\ queue[j].stamp <= Given
      BY <2>3, OrderTypes DEF LoggerInv, OrderInv
    <2>6. \A i, j \in 1..n : i < j => queue[i].stamp < queue[j].stamp
      BY <2>3 DEF LoggerInv, OrderInv
    <2>7. \A j \in 1..n : \A i \in DOMAIN console : console[i].stamp < queue[j].stamp
      BY <2>3 DEF LoggerInv, OrderInv
    <2>8. console' \in Seq(Range(console)') /\ ConsoleInFormatOrder'
      BY <2>1 DEF LoggerInv, OrderInv, ConsoleInFormatOrder
    <2>9. \A i \in DOMAIN console' : console'[i].stamp \in 1..Given'
      BY <2>1, <2>2 DEF LoggerInv, OrderInv
    <2>10. current'.stamp <= Given' /\ \A i \in DOMAIN console' : console'[i].stamp < current'.stamp
      BY <2>1, <2>2, <2>3, <2>4, <2>5, <2>7
    <2>11. ASSUME NEW i \in DOMAIN queue', NEW j \in DOMAIN queue', i < j
           PROVE  queue'[i].stamp < queue'[j].stamp
      <3>1. i + 1 \in 1..n /\ j + 1 \in 1..n /\ i + 1 < j + 1
        BY <2>3, <2>4, <2>11
      <3> QED
        BY <2>4, <2>6, <3>1
    <2>12. ASSUME NEW j \in DOMAIN queue'
           PROVE  /\ queue'[j].stamp <= Given'
                  /\ current'.stamp < queue'[j].stamp
                  /\ \A i \in DOMAIN console' : console'[i].stamp < queue'[j].stamp
      <3>1. j + 1 \in 1..n /\ 1 < j + 1 /\ queue'[j] = queue[j + 1]
        BY <2>4
      <3>2. queue[1].stamp < queue[j + 1].stamp
        BY <2>3, <2>6, <3>1
      <3> QED
        BY <2>1, <2>2, <2>4, <2>5, <2>7, <3>1, <3>2
    <2> QED
      BY <2>8, <2>9, <2>10, <2>11, <2>12 DEF OrderInv
  <1>6. CASE LoggerPrint
    <2> DEFINE line == [current EXCEPT !.text = Trim(@)]
    <2>1. /\ queue' = queue /\ current' = current /\ loggerPc' = "free"
          /\ console' = Append(console, line)
      BY <1>6 DEF LoggerPrint
    <2>2. current \in Buffers /\ current # NoBuf
      BY <1>6 DEF LoggerPrint, LoggerInv, TypeOK, BufferInv
    <2>3. line.stamp = current.stamp
      BY <2>2 DEF Buffers
    <2> HIDE DEF line
    <2>4. Given' \in Nat /\ Given <= Given' /\ Given \in Nat
      BY StepGiven, OneHolder
    <2>5. /\ console \in Seq(Range(console) \cup {line}) /\ m \in Nat /\ DOMAIN console = 1..m
      BY OrderTypes, SeqMonotonic DEF LoggerInv, OrderInv
    <2>6. console' \in Seq(Range(console)')
      <3>1. console' \in Seq(Range(console) \cup {line}) /\ Range(console') = Range(console) \cup {line}
        BY <2>1, <2>5, AppendElement
      <3> QED
        BY <3>1
    <2>7. /\ DOMAIN console' = 1..(m + 1) /\ console'[m + 1] = line
          /\ \A i \in 1..m : console'[i] = console[i]
      BY <2>1, <2>5, AppendProperties, LenProperties
    <2> HIDE DEF m
    <2>8. \A i \in 1..(m + 1) : i \in 1..m \/ i = m + 1
      BY <2>5
    <2>9. /\ current.stamp \in 1..Given
          /\ \A i \in 1..m : console[i].stamp \in 1..Given /\ console[i].stamp < current.stamp
      <3>1. current.stamp \in 1..MaxCalls /\ loggerPc # "free"
        BY <1>6, <2>2, BufferFields DEF LoggerPrint
      <3> QED
        BY <2>2, <2>4, <2>5, <3>1, ConstantsAssumption DEF LoggerInv, OrderInv
    <2>10. ASSUME NEW i \in DOMAIN console', NEW j \in DOMAIN console', i < j
           PROVE  console'[i].stamp < console'[j].stamp
      <3>1. i \in 1..m
        BY <2>5, <2>7, <2>8, <2>10
      <3>2. CASE j = m + 1
        BY <2>3, <2>7, <2>9, <3>1, <3>2
      <3>3. CASE j \in 1..m
        BY <2>5, <2>7, <2>10, <3>1, <3>3 DEF LoggerInv, OrderInv, ConsoleInFormatOrder
      <3> QED
        BY <2>7, <2>8, <3>2, <3>3
    <2>11. \A i \in DOMAIN console' : console'[i].stamp \in 1..Given' /\ console'[i].stamp <= current.stamp
      <3> SUFFICES ASSUME NEW i \in DOMAIN console'
                   PROVE  console'[i].stamp \in 1..Given' /\ console'[i].stamp <= current.stamp
        OBVIOUS
      <3>1. console'[i].stamp \in 1..Given /\ console'[i].stamp <= current.stamp
        BY <2>3, <2>7, <2>8, <2>9
      <3> QED
        BY <2>4, <3>1
    <2>12. \A j \in DOMAIN queue : queue[j].stamp \in Nat /\ current.stamp < queue[j].stamp
      BY <2>2, OrderTypes DEF LoggerInv, OrderInv
    <2>13. \A i \in DOMAIN console' :
             \/ console'[i].stamp < current'.stamp
             \/ loggerPc' = "free" /\ console'[i].stamp = current'.stamp
      BY <2>1, <2>4, <2>9, <2>11
    <2>14. \A i, j \in DOMAIN queue' : i < j => queue'[i].stamp < queue'[j].stamp
      BY <2>1 DEF LoggerInv, OrderInv
    <2>15. ASSUME NEW j \in DOMAIN queue'
           PROVE  /\ queue'[j].stamp <= Given'
                  /\ current'.stamp < queue'[j].stamp
                  /\ \A i \in DOMAIN console' : console'[i].stamp < queue'[j].stamp
      <3>1. queue[j].stamp <= Given /\ queue[j].stamp \in Nat /\ current.stamp < queue[j].stamp
        BY <2>1, <2>12 DEF LoggerInv, OrderInv
      <3> QED
        BY <2>1, <2>4, <2>9, <2>11, <3>1
    <2>16. current'.stamp <= Given'
      BY <2>1, <2>4, <2>9
    <2>17. ConsoleInFormatOrder'
      BY <2>10 DEF ConsoleInFormatOrder
    <2> QED
      BY <2>6, <2>11, <2>13, <2>14, <2>15, <2>16, <2>17 DEF OrderInv
  <1>7. CASE LoggerFree
    <2>1. current' = NoBuf /\ queue' = queue /\ console' = console
      BY <1>7 DEF LoggerFree
    <2>2. Given' \in Nat /\ Given <= Given' /\ Given \in Nat
      BY StepGiven, OneHolder
    <2>3. console' \in Seq(Range(console)') /\ ConsoleInFormatOrder'
      BY <2>1 DEF LoggerInv, OrderInv, ConsoleInFormatOrder
    <2>4. \A i \in DOMAIN console' : console'[i].stamp \in 1..Given'
      BY <2>1, <2>2 DEF LoggerInv, OrderInv
    <2>5. \A i, j \in DOMAIN queue' : i < j => queue'[i].stamp < queue'[j].stamp
      BY <2>1 DEF LoggerInv, OrderInv
    <2>6. \A j \in DOMAIN queue' :
            /\ queue'[j].stamp <= Given'
            /\ \A i \in DOMAIN console' : console'[i].stamp < queue'[j].stamp
      BY <2>1, <2>2, OrderTypes DEF LoggerInv, OrderInv
    <2> QED
      BY <2>1, <2>3, <2>4, <2>5, <2>6 DEF OrderInv
  <1> QED
    BY <1>2, <1>3, <1>4, <1>5, <1>6, <1>7 DEF Next, LogCall, LoggerTask

\* The stamps tell the owners apart.
LEMMA DistinctOwners == LoggerInv => SingleOwner
  <1> SUFFICES ASSUME LoggerInv PROVE SingleOwner
    OBVIOUS
  <1>1. Owned \subseteq heap
    BY DEF LoggerInv, HeapInv
  <1>2. ASSUME NEW i \in DOMAIN queue, NEW j \in DOMAIN queue, queue[i] = queue[j]
        PROVE  i = j
    <2>1. i < j => queue[i].stamp < queue[j].stamp
      BY DEF LoggerInv, OrderInv
    <2>2. j < i => queue[j].stamp < queue[i].stamp
      BY DEF LoggerInv, OrderInv
    <2>3. queue[i].stamp \in Nat /\ i \in Nat /\ j \in Nat
      BY OrderTypes
    <2> QED
      BY <1>2, <2>1, <2>2, <2>3
  <1>3. \A b \in InQueue : \E j \in DOMAIN queue : b = queue[j]
    BY DEF InQueue, Range
  <1>4. current \notin InQueue
    <2> SUFFICES ASSUME current \in InQueue PROVE FALSE
      OBVIOUS
    <2>1. PICK j \in DOMAIN queue : current = queue[j]
      BY <1>3
    <2>2. current # NoBuf /\ queue[j].stamp \in Nat
      BY <2>1, OrderTypes, BufferFields
    <2>3. current.stamp < queue[j].stamp
      BY <2>2 DEF LoggerInv, OrderInv
    <2> QED
      BY <2>1, <2>2, <2>3
  <1>5. ASSUME NEW t \in Tasks, buf[t] # NoBuf
        PROVE  /\ buf[t] \notin InQueue \cup {current}
               /\ \A u \in Tasks : buf[u] = buf[t] => u = t
    <2>1. t \in Held /\ buf[t].stamp = clock
      BY <1>5 DEF Held, LoggerInv, BufferInv
    <2>2. Given = clock - 1 /\ clock \in Nat
      BY <2>1, OneHolder
    <2>3. ASSUME NEW j \in DOMAIN queue PROVE buf[t] # queue[j]
      <3>1. queue[j].stamp <= Given
        BY DEF LoggerInv, OrderInv
      <3> QED
        BY <2>1, <2>2, <3>1
    <2>4. buf[t] # current
      <3>1. current # NoBuf => current.stamp <= Given
        BY DEF LoggerInv, OrderInv
      <3> QED
        BY <1>5, <2>1, <2>2, <3>1
    <2>5. \A u \in Tasks : buf[u] = buf[t] => u = t
      BY <1>5, <2>1, OneHolder DEF Held
    <2> QED
      BY <1>3, <2>3, <2>4, <2>5
  <1> QED
    BY <1>1, <1>2, <1>4, <1>5 DEF SingleOwner

\* Every step keeps what is known of the allocated buffers.
LEMMA StepHeapInv ==
  ASSUME LoggerInv, Next
  PROVE  HeapInv'
  <1> USE DEF bootVars, taskVars, loggerVars
  <1>1. /\ HeapInv /\ clock \in Nat /\ \A b \in heap : b.stamp \in Nat
        /\ buf \in [Tasks -> Buffers \cup {NoBuf}] /\ queue \in Seq(Buffers)
    BY BufferFields, ConstantsAssumption DEF LoggerInv, TypeOK
  <1>2. ASSUME Owned' = Owned, heap' = heap, clock' = clock
        PROVE  HeapInv'
    BY <1>1, <1>2 DEF HeapInv, OnlyDroppedBuffersLeak
  <1>3. ASSUME buf' = buf, queue' = queue, current' = current PROVE Owned' = Owned
    BY <1>3 DEF Owned, InQueue
  <1>4. CASE Begin \/ LoggerPrint
    <2>1. /\ buf' = buf /\ queue' = queue /\ current' = current
          /\ heap' = heap /\ clock' = clock
      BY <1>4 DEF Begin, BeginCreateLock, BeginGive, BeginCreateLoop, BeginRegister, LoggerPrint
    <2> QED
      BY <1>2, <1>3, <2>1
  <1>5. ASSUME NEW t \in Tasks, Enter(t) \/ TakeLock(t) \/ FormatFails(t) \/ PostFails(t)
        PROVE  HeapInv'
    <2>1. /\ buf' = buf /\ queue' = queue /\ current' = current
          /\ heap' = heap /\ clock' = clock
      BY <1>5 DEF Enter, TakeLock, FormatFails, PostFails, EnterHook
    <2> QED
      BY <1>2, <1>3, <2>1
  <1>6. ASSUME NEW t \in Tasks, Format(t) PROVE HeapInv'
    <2>1. PICK b \in Buffers :
             /\ b.stamp = clock + 1 /\ clock' = clock + 1
             /\ buf' = [buf EXCEPT ![t] = b] /\ heap' = heap \cup {b}
      BY <1>6, NewBuffer
    <2>2. buf[t] = NoBuf
      BY <1>6 DEF Format, LoggerInv, BufferInv
    <2>3. queue' = queue /\ current' = current
      BY <1>6 DEF Format
    <2>4. Owned' = Owned \cup {b}
      <3>1. b # NoBuf
        BY BufferFields
      <3>2. {buf'[u] : u \in Tasks} \ {NoBuf} = ({buf[u] : u \in Tasks} \cup {b}) \ {NoBuf}
        BY <1>1, <2>1, <2>2
      <3> QED
        BY <2>3, <3>1, <3>2 DEF Owned, InQueue
    <2>5. Owned' \subseteq heap' /\ heap' \ Owned' \subseteq heap \ Owned
      BY <1>1, <2>1, <2>4 DEF HeapInv
    <2>6. \A c \in heap' : c.stamp <= clock'
      BY <1>1, <2>1 DEF HeapInv
    <2> QED
      BY <1>1, <2>3, <2>5, <2>6 DEF HeapInv, OnlyDroppedBuffersLeak
  <1>7. ASSUME NEW t \in Tasks, Post(t) PROVE HeapInv'
    <2> DEFINE b == buf[t]
    <2>1. /\ queue' = Append(queue, b) /\ buf' = [buf EXCEPT ![t] = NoBuf]
          /\ current' = current /\ heap' = heap /\ clock' = clock
      BY <1>7 DEF Post
    <2>2. b \in Buffers
      BY <1>7 DEF Post, LoggerInv, TypeOK, BufferInv
    <2>3. Range(queue') = Range(queue) \cup {b}
      BY <1>1, <2>1, <2>2, AppendElement
    <2>4. ({buf'[u] : u \in Tasks} \cup {b}) \ {NoBuf} = {buf[u] : u \in Tasks} \ {NoBuf}
      BY <1>1, <2>1, <2>2, BufferFields
    <2>5. Owned' = Owned
      BY <2>1, <2>3, <2>4 DEF Owned, InQueue
    <2> QED
      BY <1>2, <2>1, <2>5
  <1>8. ASSUME NEW t \in Tasks, GiveAndReturn(t) PROVE HeapInv'
    <2>1. /\ queue' = queue /\ buf' = [buf EXCEPT ![t] = NoBuf] /\ pc[t] = "give"
          /\ current' = current /\ heap' = heap /\ clock' = clock
      BY <1>8 DEF GiveAndReturn
    <2>2. \A c \in {buf[u] : u \in Tasks} : c = buf[t] \/ c \in {buf'[u] : u \in Tasks}
      BY <1>1, <2>1
    <2>3. {buf'[u] : u \in Tasks} \subseteq {buf[u] : u \in Tasks} \cup {NoBuf}
      BY <1>1, <2>1
    <2>4. Owned' \subseteq Owned /\ Owned \subseteq Owned' \cup ({buf[t]} \ {NoBuf})
      BY <2>1, <2>2, <2>3 DEF Owned, InQueue
    <2>5. buf[t] # NoBuf => buf[t].text = <<>>
      BY <2>1 DEF LoggerInv, BufferInv
    <2> QED
      BY <1>1, <2>1, <2>4, <2>5 DEF HeapInv, OnlyDroppedBuffersLeak
  <1>9. CASE LoggerReceive
    <2>1. /\ queue # <<>> /\ queue' = Tail(queue) /\ current' = Head(queue) /\ current = NoBuf
          /\ buf' = buf /\ heap' = heap /\ clock' = clock
      BY <1>9 DEF LoggerReceive, LoggerInv, BufferInv
    <2>2. Range(queue) = Range(queue') \cup {current'}
      BY <1>1, <2>1, TakeHead
    <2>3. Owned' = Owned
      BY <2>1, <2>2 DEF Owned, InQueue
    <2> QED
      BY <1>2, <2>1, <2>3
  <1>10. CASE LoggerFree
    <2>1. /\ current' = NoBuf /\ heap' = heap \ {current} /\ current # NoBuf
          /\ buf' = buf /\ queue' = queue /\ clock' = clock
      BY <1>10 DEF LoggerFree, LoggerInv, BufferInv
    <2>2. current \notin InQueue /\ \A u \in Tasks : buf[u] # current
      BY <2>1, DistinctOwners DEF SingleOwner
    <2>3. Owned' = Owned \ {current}
      BY <2>1, <2>2 DEF Owned, InQueue
    <2> QED
      BY <1>1, <2>1, <2>3 DEF HeapInv, OnlyDroppedBuffersLeak
  <1> QED
    BY <1>4, <1>5, <1>6, <1>7, <1>8, <1>9, <1>10 DEF Next, LogCall, LoggerTask

\* The invariant of the logger: types, the lock, the stamps, the order and the heap.
THEOREM Invariance == Spec => []LoggerInv
  <1>1. LoggerInv /\ [Next]_vars => LoggerInv'
    <2>1. ASSUME LoggerInv, Next PROVE LoggerInv'
      BY <2>1, StepTypeOK, StepLockInv, StepClockInv, StepBufferInv, StepOrderInv, StepHeapInv
         DEF LoggerInv
    <2>2. ASSUME LoggerInv, UNCHANGED vars PROVE LoggerInv'
      <3>1. /\ UNCHANGED <<boot, hooked, logLock, pc, calls, clock, buf>>
            /\ UNCHANGED <<queue, loggerPc, current, console, heap>>
        BY <2>2 DEF vars, bootVars, taskVars, loggerVars
      <3>2. TypeOK' /\ LockInv' /\ ClockInv' /\ BufferInv'
        BY <2>2, <3>1 DEF LoggerInv, TypeOK, LockInv, OneMessageAtATime, Inside, ClockInv, Formatting,
                          BufferInv
      <3>3. OrderInv'
        BY <2>2, <3>1 DEF LoggerInv, OrderInv, ConsoleInFormatOrder, Given, Held
      <3>4. HeapInv'
        BY <2>2, <3>1 DEF LoggerInv, HeapInv, OnlyDroppedBuffersLeak, Owned, InQueue
      <3> QED
        BY <3>2, <3>3, <3>4 DEF LoggerInv
    <2> QED
      BY <2>1, <2>2
  <1> QED
    BY InitLoggerInv, <1>1, PTL DEF Spec

\* Logger.cpp:32, "only one log message is handled at a time".
THEOREM OneAtATime == Spec => []OneMessageAtATime
  <1>1. LoggerInv => OneMessageAtATime
    BY DEF LoggerInv, LockInv
  <1> QED
    BY Invariance, <1>1, PTL

\* log_formatting_func, post_event and handlePostedLogMessage hand a buffer on
\* without sharing it, and nobody keeps a pointer to a freed one.
THEOREM OneOwner == Spec => []SingleOwner
  BY Invariance, DistinctOwners, PTL

\* The only buffers that are lost are those that log_formatting_func drops.
THEOREM OnlyDroppedLeak == Spec => []OnlyDroppedBuffersLeak
  <1>1. LoggerInv => OnlyDroppedBuffersLeak
    BY DEF LoggerInv, HeapInv
  <1> QED
    BY Invariance, <1>1, PTL

\* The console shows the lines of all tasks in the order of formatting.
THEOREM LinesInOrder == Spec => []ConsoleInFormatOrder
  <1>1. LoggerInv => ConsoleInFormatOrder
    BY DEF LoggerInv, OrderInv
  <1> QED
    BY Invariance, <1>1, PTL

\* However much is logged, the messages in flight need no more than a queue of
\* buffers and the two being formatted and printed.
THEOREM MemoryIsBounded == Spec => []BoundedMemory
  <1>1. LoggerInv => BoundedMemory
    <2> SUFFICES ASSUME LoggerInv PROVE BoundedMemory
      OBVIOUS
    <2>1. /\ queue \in Seq(Buffers) /\ Len(queue) \in Nat /\ DOMAIN queue = 1..Len(queue)
          /\ Len(queue) <= QueueSize /\ QueueSize \in Nat
      BY OrderTypes, ConstantsAssumption DEF LoggerInv, TypeOK
    <2>2. IsFiniteSet(InQueue) /\ Cardinality(InQueue) <= Len(queue) /\ Cardinality(InQueue) \in Nat
      <3>1. IsFiniteSet(1..Len(queue)) /\ Cardinality(1..Len(queue)) = Len(queue)
        <4>1. 0 \in Int /\ 1 \in Int /\ Len(queue) \in Int
          BY <2>1
        <4>2. /\ IsFiniteSet(1..Len(queue))
              /\ Cardinality(1..Len(queue)) = IF 1 > Len(queue) THEN 0 ELSE Len(queue) - 1 + 1
          BY <4>1, FS_Interval
        <4> QED
          BY <2>1, <4>2
      <3>2. queue \in Surjection(1..Len(queue), InQueue)
        <4>1. queue \in [1..Len(queue) -> InQueue]
          BY <2>1 DEF InQueue, Range
        <4>2. \A b \in InQueue : \E j \in 1..Len(queue) : queue[j] = b
          BY <2>1 DEF InQueue, Range
        <4> QED
          BY <4>1, <4>2 DEF Surjection
      <3> QED
        BY <3>1, <3>2, FS_Surjection, FS_CardinalityType
    <2>3. PICK b : Owned \subseteq (InQueue \cup {b}) \cup {current}
      <3>1. CASE Held = {}
        BY <3>1 DEF Owned, Held
      <3>2. CASE Held # {}
        <4>1. PICK t \in Held : TRUE
          BY <3>2
        <4>2. \A u \in Tasks : u # t => buf[u] = NoBuf
          BY <4>1, OneHolder DEF Held
        <4>3. Owned \subseteq (InQueue \cup {buf[t]}) \cup {current}
          BY <4>2 DEF Owned
        <4> QED
          BY <4>3
      <3> QED
        BY <3>1, <3>2
    <2> DEFINE A == InQueue \cup {b}
    <2>4. IsFiniteSet(A) /\ Cardinality(A) \in Nat /\ Cardinality(A) <= Len(queue) + 1
      <3>1. /\ IsFiniteSet(A)
            /\ Cardinality(A) = IF b \in InQueue THEN Cardinality(InQueue) ELSE Cardinality(InQueue) + 1
        BY <2>2, FS_AddElement, Zenon
      <3> QED
        BY <2>1, <2>2, <3>1
    <2> HIDE DEF A
    <2>5. /\ IsFiniteSet(A \cup {current}) /\ Cardinality(A \cup {current}) \in Nat
          /\ Cardinality(A \cup {current}) <= Len(queue) + 2
      <3>1. /\ IsFiniteSet(A \cup {current})
            /\ Cardinality(A \cup {current}) = IF current \in A THEN Cardinality(A) ELSE Cardinality(A) + 1
        BY <2>4, FS_AddElement, Zenon
      <3> QED
        BY <2>1, <2>4, <3>1
    <2>6. /\ IsFiniteSet(Owned) /\ Cardinality(Owned) \in Nat
          /\ Cardinality(Owned) <= Cardinality(A \cup {current})
      BY <2>3, <2>5, FS_Subset, FS_CardinalityType DEF A
    <2> QED
      BY <2>1, <2>5, <2>6 DEF BoundedMemory
  <1> QED
    BY Invariance, <1>1, PTL

-----------------------------------------------------------------------------
(* The refinement of LogChannel.  The loop that trims a text is a recursive  *)
(* function of the position; that it stops where the abstract specification  *)
(* says is an induction, done here with the least element of a set of        *)
(* numbers for which it would fail.                                          *)

\* What the loop computes, from every position; and where the text ends for LogChannel.
Loop(f, s) == f = [i \in 0..Len(s) |-> IF i > 0 /\ s[i] \in LineEnds THEN f[i - 1] ELSE i]
EndOfLine(s) ==
  LET body == {i \in DOMAIN s : s[i] \notin LineEnds}
  IN  IF body = {} THEN 0 ELSE CHOOSE i \in body : \A j \in body : j <= i

\* The loop stops behind the last character that ends no line.
LEMMA LoopEnds ==
  ASSUME NEW S, NEW s \in Seq(S), NEW f, Loop(f, s)
  PROVE  f[Len(s)] = EndOfLine(s)
  <1>1. /\ Len(s) \in Nat /\ DOMAIN s = 1..Len(s)
    BY LenProperties
  <1>2. \A i \in 0..Len(s) : f[i] = IF i > 0 /\ s[i] \in LineEnds THEN f[i - 1] ELSE i
    BY DEF Loop
  <1> DEFINE stops == {i \in 0..Len(s) : i = 0 \/ s[i] \notin LineEnds}
  <1>3. PICK m \in stops : \A k \in stops : k <= m
    <2>1. stops \subseteq 0..Len(s) /\ 0 \in stops
      BY <1>1
    <2> HIDE DEF stops
    <2> QED
      BY <1>1, <2>1, Largest
  <1> DEFINE T == {i \in m..Len(s) : f[i] # m}
  <1>4. T = {}
    <2> SUFFICES ASSUME T # {} PROVE FALSE
      OBVIOUS
    <2>1. PICK i \in T : \A k \in T : i <= k
      <3>1. T \subseteq Nat
        BY <1>1, <1>3
      <3> HIDE DEF T
      <3> QED
        BY <1>4, <3>1, Smallest
    <2>2. i # m
      BY <1>1, <1>2, <1>3
    <2>3. i > m /\ i \in 0..Len(s)
      BY <1>1, <2>2
    <2>4. i > 0 /\ s[i] \in LineEnds
      BY <1>1, <1>3, <2>3
    <2>5. f[i] = f[i - 1]
      BY <1>2, <2>3, <2>4
    <2>6. i - 1 \in m..Len(s) /\ i - 1 \notin T
      BY <1>1, <2>1, <2>3
    <2> QED
      BY <2>1, <2>5, <2>6
  <1>5. f[Len(s)] = m
    BY <1>1, <1>4
  <1>6. m = EndOfLine(s)
    <2> DEFINE body == {i \in DOMAIN s : s[i] \notin LineEnds}
    <2>1. CASE m = 0
      <3>1. body = {}
        BY <1>1, <1>3, <2>1
      <3> QED
        BY <2>1, <3>1 DEF EndOfLine
    <2>2. CASE m # 0
      <3>1. m \in body /\ body \subseteq Nat /\ \A j \in body : j <= m
        BY <1>1, <1>3, <2>2
      <3>2. \A i \in body : (\A j \in body : j <= i) => i = m
        BY <3>1
      <3>3. EndOfLine(s) = CHOOSE i \in body : \A j \in body : j <= i
        BY <3>1 DEF EndOfLine
      <3> HIDE DEF body
      <3> QED
        BY <3>1, <3>2, <3>3
    <2> QED
      BY <2>1, <2>2
  <1> QED
    BY <1>5, <1>6

\* The recursive definition defines a function.
LEMMA LoopExists ==
  ASSUME NEW S, NEW s \in Seq(S)
  PROVE  \E f : Loop(f, s)
  <1>1. /\ Len(s) \in Nat /\ DOMAIN s = 1..Len(s)
    BY LenProperties
  <1> DEFINE stops(i) == {k \in 0..i : k = 0 \/ s[k] \notin LineEnds}
             W(i) == CHOOSE m \in stops(i) : \A k \in stops(i) : k <= m
             f == [i \in 0..Len(s) |-> W(i)]
  <1>2. ASSUME NEW i \in 0..Len(s) PROVE W(i) \in stops(i) /\ \A k \in stops(i) : k <= W(i)
    <2>1. stops(i) \subseteq 0..i /\ 0 \in stops(i) /\ i \in Nat
      BY <1>1
    <2> HIDE DEF stops
    <2>2. \E m \in stops(i) : \A k \in stops(i) : k <= m
      BY <2>1, Largest
    <2> QED
      BY <2>2
  <1>3. ASSUME NEW i \in 0..Len(s), ~(i > 0 /\ s[i] \in LineEnds) PROVE W(i) = i
    <2>1. i \in stops(i)
      BY <1>1, <1>3
    <2>2. W(i) \in 0..i /\ i <= W(i)
      BY <1>2, <2>1
    <2> QED
      BY <1>1, <2>2
  <1>4. ASSUME NEW i \in 0..Len(s), i > 0, s[i] \in LineEnds
        PROVE  W(i) = W(i - 1) /\ i - 1 \in 0..Len(s)
    <2>1. i - 1 \in 0..Len(s)
      BY <1>1, <1>4
    <2>2. stops(i) = stops(i - 1)
      BY <1>1, <1>4
    <2> HIDE DEF stops
    <2> QED
      BY <2>1, <2>2
  <1> HIDE DEF W
  <1>5. f = [i \in 0..Len(s) |-> IF i > 0 /\ s[i] \in LineEnds THEN f[i - 1] ELSE i]
    BY <1>3, <1>4
  <1> HIDE DEF f
  <1> QED
    BY <1>5 DEF Loop

\* The text that handlePostedLogMessage prints.
LEMMA TrimIs ==
  ASSUME NEW S, NEW s \in Seq(S)
  PROVE  Trim(s) = SubSeq(s, 1, EndOfLine(s))
  <1> DEFINE g == CHOOSE f : Loop(f, s)
  <1>1. Loop(g, s)
    BY LoopExists
  <1>2. g[Len(s)] = EndOfLine(s)
    <2> HIDE DEF g
    <2> QED
      BY <1>1, LoopEnds
  <1>3. Trim(s) = SubSeq(s, 1, g[Len(s)])
    BY DEF Trim, Loop
  <1> QED
    BY <1>2, <1>3

LEMMA LineOfBuffer ==
  ASSUME NEW b \in Buffers
  PROVE  [b EXCEPT !.text = Trim(@)] = Channel!Line(b)
  <1>1. PICK S : b.text \in Seq(S)
    BY BufferFields, ConstantsAssumption
  <1>2. Trim(b.text) = SubSeq(b.text, 1, EndOfLine(b.text))
    BY <1>1, TrimIs
  <1> QED
    BY <1>2 DEF Channel!Line, EndOfLine

\* Every step of the logger's tasks is a step of the channel, or none: posting a
\* message hands it to the channel, and printing it shows its line.  (That every
\* message is shown, the other half of ImplementsChannel, needs the fairness.)
THEOREM StepsAreChannelSteps == Spec => Channel!Init /\ [][Channel!Next]_(Channel!vars)
  <1> DEFINE pending == IF loggerPc = "print" THEN <<current>> \o queue ELSE queue
  <1>1. Init => Channel!Init
    BY DEF Init, Channel!Init
  <1>2. ASSUME LoggerInv, Next PROVE [Channel!Next]_(Channel!vars)
    <2> USE DEF bootVars, taskVars, loggerVars
    <2>1. queue \in Seq(Buffers) /\ current \in Buffers \cup {NoBuf}
      BY <1>2 DEF LoggerInv, TypeOK
    <2>2. ASSUME NEW t \in Tasks, Post(t) PROVE Channel!Submit
      <3>1. /\ buf[t] \in Buffers /\ queue' = Append(queue, buf[t])
            /\ loggerPc' = loggerPc /\ current' = current /\ console' = console
        BY <1>2, <2>2 DEF Post, LoggerInv, TypeOK, BufferInv
      <3>2. CASE loggerPc = "print"
        <4>1. current \in Buffers
          BY <1>2, <2>1, <3>2 DEF LoggerInv, BufferInv
        <4>2. <<current>> \in Seq(Buffers)
          BY <4>1
        <4>3. <<current>> \o Append(queue, buf[t]) = Append(<<current>> \o queue, buf[t])
          BY <2>1, <3>1, <4>2, Joins
        <4> QED
          BY <3>1, <3>2, <4>3 DEF Channel!Submit
      <3>3. CASE loggerPc # "print"
        BY <3>1, <3>3 DEF Channel!Submit
      <3> QED
        BY <3>2, <3>3
    <2>3. CASE LoggerReceive
      <3>1. /\ queue # <<>> /\ queue' = Tail(queue) /\ current' = Head(queue)
            /\ loggerPc = "recv" /\ loggerPc' = "print" /\ console' = console
        BY <2>3 DEF LoggerReceive
      <3>2. queue = <<Head(queue)>> \o Tail(queue)
        BY <2>1, <3>1, HeadAndTail
      <3>3. pending = queue /\ pending' = <<Head(queue)>> \o Tail(queue)
        BY <3>1
      <3> QED
        BY <3>1, <3>2, <3>3 DEF Channel!vars
    <2>4. CASE LoggerPrint
      <3>1. /\ loggerPc = "print" /\ loggerPc' = "free" /\ queue' = queue
            /\ console' = Append(console, [current EXCEPT !.text = Trim(@)])
        BY <2>4 DEF LoggerPrint
      <3>2. current \in Buffers
        BY <1>2, <2>1, <3>1 DEF LoggerInv, BufferInv
      <3>3. [current EXCEPT !.text = Trim(@)] = Channel!Line(current)
        BY <3>2, LineOfBuffer
      <3>4. /\ <<current>> \o queue # <<>>
            /\ Head(<<current>> \o queue) = current /\ Tail(<<current>> \o queue) = queue
        BY <2>1, <3>2, TakeBack
      <3> QED
        BY <3>1, <3>3, <3>4 DEF Channel!Next, Channel!Show
    <2>5. CASE LoggerFree
      <3>1. pending' = pending /\ console' = console
        BY <2>5 DEF LoggerFree
      <3> QED
        BY <3>1 DEF Channel!vars
    <2>6. CASE Begin
      <3>1. pending' = pending /\ console' = console
        BY <1>2, <2>6 DEF Begin, BeginCreateLock, BeginGive, BeginCreateLoop, BeginRegister,
                          LoggerInv, LockInv
      <3> QED
        BY <3>1 DEF Channel!vars
    <2>7. ASSUME NEW t \in Tasks,
                 \/ Enter(t) \/ TakeLock(t) \/ Format(t)
                 \/ FormatFails(t) \/ PostFails(t) \/ GiveAndReturn(t)
          PROVE  [Channel!Next]_(Channel!vars)
      <3>1. pending' = pending /\ console' = console
        BY <2>7 DEF Enter, TakeLock, Format, FormatFails, PostFails, EnterHook, GiveAndReturn
      <3> QED
        BY <3>1 DEF Channel!vars
    <2> QED
      BY <1>2, <2>2, <2>3, <2>4, <2>5, <2>6, <2>7 DEF Next, LogCall, LoggerTask, Channel!Next
  <1>3. ASSUME UNCHANGED vars PROVE UNCHANGED Channel!vars
    BY <1>3 DEF vars, loggerVars, Channel!vars
  <1>4. LoggerInv /\ [Next]_vars => [Channel!Next]_(Channel!vars)
    BY <1>2, <1>3
  <1> QED
    BY Invariance, <1>1, <1>4, PTL DEF Spec
=============================================================================
