------------------------------- MODULE YPipe -------------------------------
(***************************************************************************)
(* base/ypipe.h: the lock-free pipe between one writing and one reading    *)
(* thread.  The module holds the pipe's state and one operator per method  *)
(* (two for Flush, whose compare-and-swap and store are separate atomic    *)
(* accesses); the modules that use a pipe say which thread calls what.     *)
(*                                                                         *)
(* A pointer to a queue cell is the number of the cell, counted from the   *)
(* first one ever pushed.  Cell Back is the terminator the next Write      *)
(* fills; cells 1..Back-1 are the items, of which the reader has popped    *)
(* those before front.  YQueue has the chunks of base/yqueue.h in which the *)
(* cells lie, and PipeUse checks that live cells have distinct addresses.  *)
(***************************************************************************)
EXTENDS Naturals, Sequences

CONSTANT NULL
ASSUME NullAssumption == NULL \notin Nat

VARIABLES
  slot,   \* values of cells 1 .. Back-1
  front,  \* first cell not yet popped               (reader)
  r,      \* first un-prefetched cell, or NULL       (reader)
  w,      \* first un-flushed cell                   (writer)
  f,      \* first cell not to be flushed            (writer)
  c       \* the shared pointer: past the last flushed cell, or NULL
          \* when the reader is asleep

pipeVars == <<slot, front, r, w, f, c>>

Back == Len(slot) + 1

\* YPipe(): push the terminator, point everything to it.
PipeInit ==
  /\ slot = <<>>
  /\ front = 1 /\ r = 1 /\ w = 1 /\ f = 1 /\ c = 1

----------------------------------------------------------------------------
(* The writing thread.                                                     *)

\* MUTANT Write: the flush-up-to pointer follows every write.
WriteFlushable(v, incomplete) ==
  /\ slot' = Append(slot, v)
  /\ f' = Back'
  /\ UNCHANGED <<front, r, w, c>>

Write(v, incomplete) ==
  /\ slot' = Append(slot, v)
  /\ f' = IF incomplete THEN f ELSE Back'
  /\ UNCHANGED <<front, r, w, c>>

CanUnWrite == f # Back

UnWrite ==
  /\ CanUnWrite
  /\ slot' = SubSeq(slot, 1, Len(slot) - 1)
  /\ UNCHANGED <<front, r, w, f, c>>

NothingToFlush == w = f

\* c.Cas(w, f) found w: the reader is awake and Flush returns true.
FlushCas ==
  /\ c = w
  /\ c' = f
  /\ w' = f
  /\ UNCHANGED <<slot, front, r, f>>

\* MUTANT FlushSet: c keeps its NULL.
FlushSetNoStore ==
  /\ w' = f
  /\ UNCHANGED <<slot, front, r, f, c>>

\* MUTANT FlushSet: everything written is published.
FlushSetBack ==
  /\ c' = Back
  /\ w' = Back
  /\ UNCHANGED <<slot, front, r, f>>

\* c.Cas(w, f) failed, so the reader is asleep: store f and return false.
FlushSet ==
  /\ c' = f
  /\ w' = f
  /\ UNCHANGED <<slot, front, r, f>>

----------------------------------------------------------------------------
(* The reading thread.                                                     *)

Prefetched == front # r /\ r # NULL

\* MUTANT CheckRead: c is read but never set to NULL.
CheckReadNoSleep ==
  IF Prefetched
  THEN UNCHANGED pipeVars
  ELSE /\ r' = c
       /\ UNCHANGED <<slot, front, w, f, c>>

\* The CAS of c from front to NULL returns the old value of c into r.
CheckRead ==
  IF Prefetched
  THEN UNCHANGED pipeVars
  ELSE /\ r' = c
       /\ c' = IF c = front THEN NULL ELSE c
       /\ UNCHANGED <<slot, front, w, f>>

\* What CheckRead returns, in terms of the state it leaves.
CheckReadOk == Prefetched'

Pop ==
  /\ front' = front + 1
  /\ UNCHANGED <<slot, r, w, f, c>>
============================================================================
