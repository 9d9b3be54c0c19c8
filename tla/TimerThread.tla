---------------------------- MODULE TimerThread ----------------------------
(***************************************************************************)
(* core/timer_thread.cc: the ring in which TimerThread caches the time and *)
(* the text of it that goes into log lines.  Every update fills the next   *)
(* slot and then publishes pointers to it; readers follow those pointers   *)
(* without a lock, and copy the text while the thread goes on.             *)
(***************************************************************************)
EXTENDS Naturals

CONSTANTS
  NULL,
  kTimeSlots,
  Readers,  \* threads that format log lines
  MaxLag,   \* bound: updates begun while a reader copies the text
  Ticking   \* whether the application has started TimerThread

(* With 64 slots, and 50 ms between updates, a reader has three seconds.   *)
ASSUME RingAssumption ==
  /\ MaxLag \in Nat /\ kTimeSlots \in Nat /\ kTimeSlots >= MaxLag + 2
  /\ NULL \notin Nat
  /\ Ticking \in BOOLEAN

Slots == 0..(kTimeSlots - 1)

VARIABLES
  index,    \* index_
  cached,   \* the slot of cached_msec_ and cached_log_time_str_
  upc,      \* "sleep", or "write": updateTime is filling slot index
  reading,  \* the slot each reader copies from, NULL if it does not
  lag,      \* updates begun since the reader took its pointer
  torn      \* history: readers whose slot was written while they copied

timeVars == <<index, cached, upc, reading, lag, torn>>

\* The constructor runs updateTime once.
TimeInit ==
  /\ index = 1 /\ cached = 1 /\ upc = "sleep"
  /\ reading = [r \in Readers |-> NULL] /\ lag = [r \in Readers |-> 0]
  /\ torn = {}

\* MUTANT NextSlot: the slot in use is filled again.
NextSlotSame == index

NextSlot == (index + 1) % kTimeSlots

\* updateTime up to snprintf: the next slot is being written.
BeginUpdate ==
  /\ Ticking /\ upc = "sleep" /\ upc' = "write"
  /\ \A r \in Readers : reading[r] # NULL => lag[r] < MaxLag
  /\ index' = NextSlot
  /\ torn' = torn \cup {r \in Readers : reading[r] = NextSlot}
  /\ lag' = [r \in Readers |-> IF reading[r] = NULL THEN 0 ELSE lag[r] + 1]
  /\ UNCHANGED <<cached, reading>>

\* The slot is complete and the pointers are stored.
Publish ==
  /\ upc = "write" /\ upc' = "sleep"
  /\ cached' = index
  /\ UNCHANGED <<index, reading, lag, torn>>

\* A reader evaluates CurrentLogtimeString() ...
TakePointer(r) ==
  /\ reading[r] = NULL
  /\ reading' = [reading EXCEPT ![r] = cached]
  /\ torn' = IF upc = "write" /\ cached = index THEN torn \cup {r} ELSE torn
  /\ UNCHANGED <<index, cached, upc, lag>>

\* ... and operator<< has copied the text.
Copied(r) ==
  /\ reading[r] # NULL
  /\ reading' = [reading EXCEPT ![r] = NULL] /\ lag' = [lag EXCEPT ![r] = 0]
  /\ torn' = torn \ {r}
  /\ UNCHANGED <<index, cached, upc>>

\* The time that is published is complete, and no slot is written while a
\* reader copies the text in it (updateTime, CurrentLogtimeString).
StampWhole == torn = {} /\ ~(upc = "write" /\ cached = index)
============================================================================
