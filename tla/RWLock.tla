------------------------------- MODULE RWLock -------------------------------
(***************************************************************************)
(* What a read/write lock of freertos-addons promises, whichever side it   *)
(* prefers: "shared read only access" to readers and "exclusive read /     *)
(* write access" to writers (c/Source/include/read_write_lock.h:79-105).   *)
(***************************************************************************)
CONSTANT Threads

VARIABLES readers,  \* the threads with shared access
          writers   \* the threads with exclusive access

vars == <<readers, writers>>

Init == readers = {} /\ writers = {}

StartReading(t) ==
  /\ t \notin readers \cup writers /\ writers = {}
  /\ readers' = readers \cup {t} /\ UNCHANGED writers

StopReading(t) ==
  t \in readers /\ readers' = readers \ {t} /\ UNCHANGED writers

StartWriting(t) ==
  /\ readers = {} /\ writers = {}
  /\ writers' = {t} /\ UNCHANGED readers

StopWriting(t) ==
  t \in writers /\ writers' = writers \ {t} /\ UNCHANGED readers

Next == \E t \in Threads : \/ StartReading(t) \/ StopReading(t)
                           \/ StartWriting(t) \/ StopWriting(t)

Spec == Init /\ [][Next]_vars
=============================================================================
